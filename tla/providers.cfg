\* One call at a time, two tabs, a provider that is changed or a consent that is
\* given, a service that changes its state and a doctor: three events are needed
\* for the doctor and a call off the device to examine the same failing service.
SPECIFICATION Spec
SYMMETRY TabSymmetry
CONSTANTS
  Tabs = {t1, t2}
  Providers = {"openai", "gemma", "gemini"}
  Operations = {"hint", "quiz"}
  Installations <- SomeInstallations
  MaxCalls = 1
  MaxEvents = 3
INVARIANTS
  TypeOK
  NothingLeavesWithoutConsent
  ConsentIsForSelectedModel
  ClientOutlivesResponse
  OnlySafeTextIsKept
  DoctorAgrees
CHECK_DEADLOCK FALSE
