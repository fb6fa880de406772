--------------------------- MODULE MCProviderCall ---------------------------
(* A small instance of ProviderCall: the installations that docs describe.  *)
EXTENDS ProviderCall, TLC

TabSymmetry == Permutations(Tabs)

Installed(keys, backend, host, deployment, tunnel) ==
    [keys |-> keys, backend |-> backend, host |-> host,
     deployment |-> deployment, tunnel |-> tunnel]

SomeInstallations ==
    { \* a vLLM server on the same machine, and both cloud keys
      Installed({"openai", "gemini"}, "vllm", "loopback", "auto", FALSE),
      \* the Gemma Server behind an SSH tunnel
      Installed({"gemma", "gemini"}, "transformers_http", "loopback", "remote", TRUE),
      \* a server elsewhere that was declared local: not available
      Installed({"gemma"}, "llama_cpp", "elsewhere", "local", FALSE),
      \* a server elsewhere, and no key at all
      Installed({}, "transformers_http", "elsewhere", "auto", FALSE) }
=============================================================================
