-------------------------------- MODULE Servers --------------------------------
(***************************************************************************)
(* What of the application listens on a port: the mock server, and beside    *)
(* it the control server with the bridge that looks for it and the imports   *)
(* that come in through it.  They share the address and nothing else.        *)
(***************************************************************************)
EXTENDS MockServer

CONSTANTS
  Control,   \* commands on the control server
  Bridge,    \* calls of a tool of the bridge
  Last,      \* u16::MAX
  Default,   \* DEFAULT_AGENT_PORT
  Tries,     \* MAX_PORT_TRIES
  Import,    \* requests to import
  Origin     \* origins of URLs

ASSUME ServersAssumption ==
  /\ Last \in Nat /\ Default \in 1 .. Last /\ Tries \in Nat \ {0}
  /\ None \notin Control /\ Control \cap Bridge = {}

VARIABLES
  order, arg, where, ended, prev, was, tried, lock, listen, file, enabled, first,
  app, others, look, probe, found, quiet, before,
  step, answer, wants, origin, chosen, base, other, told, warned, projects,
  baseUrl, variable, endpoints, events, made, lost, tidy, alone

control == <<order, arg, where, ended, prev, was, tried, lock, listen, file,
             enabled, first, app, others, look, probe, found, quiet, before>>
imports == <<step, answer, wants, origin, chosen, base, other, told, warned,
             projects, baseUrl, variable, endpoints, events, made, lost, tidy, alone>>

A == INSTANCE AgentControl WITH
  Cmd <- Control, kind <- order, at <- where, result <- ended, writer <- lock,
  server <- listen, taken <- others, calm <- quiet

I == INSTANCE AgentImport WITH at <- step, result <- answer, calm <- alone

\* The control server is as its settings and its file say, and the bridge finds one
\* that runs all the while.
ControlFollows ==
  /\ A!TypeOK /\ A!FileNamesServer /\ A!SerialSettingsApplied /\ A!SerialPortRolledBack
  /\ A!BridgeFindsServer

\* Imports save what they announce, keep what others wrote, answer truly and make
\* one project between them.
ImportsTrue ==
  /\ [](I!AnnouncedIsSaved /\ I!SerialAnswerIsTrue /\ I!SerialMakesOneProject)
  /\ I!SerialImportKeepsVariables
==============================================================================
