---------------------------- MODULE Servers_proofs ----------------------------
(***************************************************************************)
(* Mock servers have ports of their own, none is lost, stopping waits for  *)
(* the requests in flight, and a command that runs by itself serves what   *)
(* the database holds.  The control server of the agents follows its       *)
(* setting, and an import of the bridge ends as it reports.  For any number*)
(* of commands, requests, projects, ports and edits.                       *)
(***************************************************************************)
EXTENDS Servers, FiniteSetTheorems, SequenceTheorems, WellFoundedInduction, TLAPS

(***************************************************************************)
(* The inductive invariant, by what each part is about.                     *)
(***************************************************************************)

\* Ports and the handle belong to commands that got as far.
Kept ==
  /\ mock # None => at[mock] = "done"
  /\ \A c \in Cmd : at[c] = "commit" => port[c] # 0

\* A command waits for a server only while it drains one, and a request is at a
\* server that some command started.
Waiting ==
  /\ \A c \in Cmd : at[c] # "drain" => drains[c] = None
  /\ \A r \in Req : req[r] = "waiting" => asked[r] \in Cmd
  /\ drains \in [Cmd -> Cmd \cup {None}] /\ asked \in [Req -> Cmd \cup {None}]

\* Where a command is tells what it is.
Kinds ==
  /\ DOMAIN seen = Cmd /\ DOMAIN store = Cmd
  /\ \A c \in Cmd :
       /\ at[c] = "idle" => seen[c] = <<>>
       /\ at[c] \in {"check", "bind", "commit"} => kind[c] = "start"
       /\ at[c] = "take" => kind[c] = "stop"
       /\ at[c] = "drain" => kind[c] # "reload"

\* Nothing moves beside a calm command ...
Alone ==
  /\ DOMAIN result = Cmd
  /\ \A c \in Cmd : at[c] # "done" => result[c] = "none"
  /\ \A c \in calm, d \in Cmd : d # c => at[d] \in {"idle", "done"}
  /\ \A c \in Cmd : at[c] = "idle" => c \notin calm

\* ... so what it reads is what the database holds: of its project, three queries.
Times(e, n) == [i \in 1 .. n |-> e]
Whole == <<active>> \o Times(edits[active], 3)

ReadsTrue ==
  \A c \in calm :
    /\ at[c] \in {"check", "project"} => seen[c] = <<>>
    /\ at[c] \in {"query", "bind", "install"} => project[c] = active
    /\ at[c] = "query" => \E n \in 0 .. 2 : seen[c] = Times(edits[active], n)
    /\ at[c] \in {"bind", "install"} => seen[c] = Times(edits[active], 3)
    /\ at[c] = "commit" => store[c] = Whole
    /\ at[c] = "done" /\ result[c] = "ok" /\ kind[c] \in {"start", "reload"} =>
         mock # None /\ store[mock] = Whole

IInv ==
  /\ TypeOK /\ Kept /\ NoStrayServer
  /\ Waiting /\ StopWaitsForRequests
  /\ Kinds /\ Alone /\ ReadsTrue

(***************************************************************************)
(* What a command has read of a project that nobody edits.                  *)
(***************************************************************************)

LEMMA TimesAppend ==
  ASSUME NEW e, NEW n \in Nat PROVE Append(Times(e, n), e) = Times(e, n + 1)
<1>1. Times(e, n) \in Seq({e})
  BY DEF Times
<1> QED
  BY <1>1 DEF Times

LEMMA TimesLen ==
  ASSUME NEW e, NEW n \in Nat PROVE Len(Times(e, n)) = n
  BY DEF Times

LEMMA TimesNone == ASSUME NEW e PROVE Times(e, 0) = <<>>
  BY DEF Times

LEMMA WholeIs == Whole = <<active, edits[active], edits[active], edits[active]>>
<1> DEFINE e == edits[active]
<1>1. Times(e, 3) = <<e, e, e>>
  BY DEF Times
<1>2. <<active>> \in Seq({active, e}) /\ <<e, e, e>> \in Seq({active, e})
  OBVIOUS
<1>3. <<active>> \o <<e, e, e>> \in Seq({active, e})
  BY <1>2
<1>4. Len(<<active>> \o <<e, e, e>>) = 4
  BY <1>2
<1>5. \A i \in 1 .. 4 : (<<active>> \o <<e, e, e>>)[i] = <<active, e, e, e>>[i]
  BY <1>2
<1>6. <<active, e, e, e>> \in Seq({active, e}) /\ Len(<<active, e, e, e>>) = 4
  OBVIOUS
<1>7. <<active>> \o <<e, e, e>> = <<active, e, e, e>>
  BY <1>3, <1>4, <1>5, <1>6, SeqEqual
<1> QED
  BY <1>1, <1>7 DEF Whole

\* A step keeps the types, and finds a port of its own for a new server.
LEMMA TypeStep ==
  ASSUME TypeOK, Kept, [Next]_vars
  PROVE  TypeOK' /\ Kept'
<1> USE MockAssumption
    DEF TypeOK, Kept, Listening, Port, Free, Goto, Ends, cmd, user, server, client
<1>1. ASSUME NEW c \in Cmd, Work(c) PROVE TypeOK' /\ Kept'
  <2>1. CASE Check(c) BY <2>1 DEF Check
  <2>2. CASE ReadProject(c) BY <2>2 DEF ReadProject
  <2>3. CASE Query(c) BY <2>3 DEF Query
  <2>4. CASE Bind(c) BY <2>4 DEF Bind
  <2>5. CASE Commit(c) BY <2>5 DEF Commit
  <2>6. CASE Install(c) BY <2>6 DEF Install
  <2>7. CASE Take(c) BY <2>7 DEF Take
  <2>8. CASE Drained(c) BY <2>8 DEF Drained
  <2> QED BY <1>1, <2>1, <2>2, <2>3, <2>4, <2>5, <2>6, <2>7, <2>8 DEF Work
<1>2. ASSUME NEW c \in Cmd, NEW k \in {"start", "reload", "stop"}, Begin(c, k)
      PROVE  TypeOK' /\ Kept'
  BY <1>2 DEF Begin
<1>3. ASSUME NEW r \in Req, Arrive(r) \/ Answer(r) PROVE TypeOK' /\ Kept'
  BY <1>3 DEF Arrive, Answer
<1>4. ASSUME NEW p \in Project, Edit(p) PROVE TypeOK' /\ Kept'
  BY <1>4 DEF Edit
<1>5. CASE Switch BY <1>5 DEF Switch
<1>6. CASE UNCHANGED vars BY <1>6 DEF vars
<1> QED BY <1>1, <1>2, <1>3, <1>4, <1>5, <1>6 DEF Next

\* A step keeps the handle of every server that listens.
LEMMA StrayStep ==
  ASSUME TypeOK, Kept, NoStrayServer, [Next]_vars
  PROVE  NoStrayServer'
<1> USE MockAssumption
    DEF TypeOK, Kept, NoStrayServer, Listening, Port, Free, Goto, Ends, cmd, user,
       server, client
<1>1. ASSUME NEW c \in Cmd, Work(c) PROVE NoStrayServer'
  <2>1. CASE Check(c) BY <2>1 DEF Check
  <2>2. CASE ReadProject(c) BY <2>2 DEF ReadProject
  <2>3. CASE Query(c) BY <2>3 DEF Query
  <2>4. CASE Bind(c) BY <2>4 DEF Bind
  <2>5. CASE Commit(c) BY <2>5 DEF Commit
  <2>6. CASE Install(c) BY <2>6 DEF Install
  <2>7. CASE Take(c) BY <2>7 DEF Take
  <2>8. CASE Drained(c) BY <2>8 DEF Drained
  <2> QED BY <1>1, <2>1, <2>2, <2>3, <2>4, <2>5, <2>6, <2>7, <2>8 DEF Work
<1>2. ASSUME NEW c \in Cmd, NEW k \in {"start", "reload", "stop"}, Begin(c, k)
      PROVE  NoStrayServer'
  BY <1>2 DEF Begin
<1>3. ASSUME NEW r \in Req, Arrive(r) \/ Answer(r) PROVE NoStrayServer'
  BY <1>3 DEF Arrive, Answer
<1>4. ASSUME NEW p \in Project, Edit(p) PROVE NoStrayServer'
  BY <1>4 DEF Edit
<1>5. CASE Switch BY <1>5 DEF Switch
<1>6. CASE UNCHANGED vars BY <1>6 DEF vars
<1> QED BY <1>1, <1>2, <1>3, <1>4, <1>5, <1>6 DEF Next

\* A step does not forget a request.
LEMMA WaitStep ==
  ASSUME TypeOK, Kept, Waiting, StopWaitsForRequests, [Next]_vars
  PROVE  Waiting' /\ StopWaitsForRequests'
<1> USE MockAssumption
    DEF TypeOK, Kept, Waiting, StopWaitsForRequests, Listening, Busy, Port, Free,
       Goto, Ends, cmd, user, server, client
<1>1. ASSUME NEW c \in Cmd, Work(c) PROVE Waiting' /\ StopWaitsForRequests'
  <2>1. CASE Check(c) BY <2>1 DEF Check
  <2>2. CASE ReadProject(c) BY <2>2 DEF ReadProject
  <2>3. CASE Query(c) BY <2>3 DEF Query
  <2>4. CASE Bind(c) BY <2>4 DEF Bind
  <2>5. CASE Commit(c) BY <2>5 DEF Commit
  <2>6. CASE Install(c) BY <2>6 DEF Install
  <2>7. CASE Take(c) BY <2>7 DEF Take
  <2>8. CASE Drained(c) BY <2>8 DEF Drained
  <2> QED BY <1>1, <2>1, <2>2, <2>3, <2>4, <2>5, <2>6, <2>7, <2>8 DEF Work
<1>2. ASSUME NEW c \in Cmd, NEW k \in {"start", "reload", "stop"}, Begin(c, k)
      PROVE  Waiting' /\ StopWaitsForRequests'
  BY <1>2 DEF Begin
<1>3. ASSUME NEW r \in Req, Arrive(r) \/ Answer(r) PROVE Waiting' /\ StopWaitsForRequests'
  BY <1>3 DEF Arrive, Answer
<1>4. ASSUME NEW p \in Project, Edit(p) PROVE Waiting' /\ StopWaitsForRequests'
  BY <1>4 DEF Edit
<1>5. CASE Switch BY <1>5 DEF Switch
<1>6. CASE UNCHANGED vars BY <1>6 DEF vars
<1> QED BY <1>1, <1>2, <1>3, <1>4, <1>5, <1>6 DEF Next

\* A step ends the calm of the others.
LEMMA AloneStep ==
  ASSUME TypeOK, Alone, [Next]_vars
  PROVE  Alone'
<1> USE MockAssumption
    DEF TypeOK, Alone, Goto, Ends, cmd, user, server, client
<1>1. ASSUME NEW c \in Cmd, Work(c) PROVE Alone'
  <2>1. CASE Check(c) BY <2>1 DEF Check
  <2>2. CASE ReadProject(c) BY <2>2 DEF ReadProject
  <2>3. CASE Query(c) BY <2>3 DEF Query
  <2>4. CASE Bind(c) BY <2>4 DEF Bind
  <2>5. CASE Commit(c) BY <2>5 DEF Commit
  <2>6. CASE Install(c) BY <2>6 DEF Install
  <2>7. CASE Take(c) BY <2>7 DEF Take
  <2>8. CASE Drained(c) BY <2>8 DEF Drained
  <2> QED BY <1>1, <2>1, <2>2, <2>3, <2>4, <2>5, <2>6, <2>7, <2>8 DEF Work
<1>2. ASSUME NEW c \in Cmd, NEW k \in {"start", "reload", "stop"}, Begin(c, k)
      PROVE  Alone'
  BY <1>2 DEF Begin
<1>3. ASSUME NEW r \in Req, Arrive(r) \/ Answer(r) PROVE Alone'
  BY <1>3 DEF Arrive, Answer
<1>4. ASSUME NEW p \in Project, Edit(p) PROVE Alone'
  BY <1>4 DEF Edit
<1>5. CASE Switch BY <1>5 DEF Switch
<1>6. CASE UNCHANGED vars BY <1>6 DEF vars
<1> QED BY <1>1, <1>2, <1>3, <1>4, <1>5, <1>6 DEF Next

\* A step keeps what a calm command knows.
LEMMA ReadsStep ==
  ASSUME TypeOK, Kept, Alone, Kinds, ReadsTrue, [Next]_vars
  PROVE  Kinds' /\ ReadsTrue'
<1> USE MockAssumption
    DEF TypeOK, Kinds, Kept, Alone, ReadsTrue, Whole, Definitions, Goto, Ends,
       cmd, user, server, client
<1>1. ASSUME NEW c \in Cmd, Work(c) PROVE Kinds' /\ ReadsTrue'
  <2>1. CASE Check(c) BY <2>1 DEF Check
  <2>2. CASE ReadProject(c) BY <2>2, TimesNone DEF ReadProject
  <2>3. CASE Query(c)
    <3> DEFINE e == edits[active]
    <3>1. c \in calm => seen'[c] = Append(seen[c], e)
      BY <2>3 DEF Query
    <3>10. /\ at'[c] = "query" => Len(seen[c]) < 2
           /\ at'[c] # "query" => ~(Len(seen[c]) < 2)
      BY ONLY <2>3, at \in [Cmd -> {"idle", "check", "project", "query", "bind", "commit",
                                  "install", "take", "drain", "done"}]
      DEF Query
    <3>2. ASSUME NEW n \in 0 .. 2, seen[c] = Times(e, n), c \in calm
          PROVE  /\ at'[c] = "query" => n < 2 /\ seen'[c] = Times(e, n + 1)
                 /\ at'[c] # "query" => n = 2 /\ seen'[c] = Times(e, n + 1)
      <4>1. Len(seen[c]) = n
        BY ONLY <3>2, TimesLen
      <4>2. Append(Times(e, n), e) = Times(e, n + 1)
        <5> HIDE DEF e
        <5>1. n \in Nat
          OBVIOUS
        <5> QED BY ONLY <5>1, TimesAppend
      <4>3. seen'[c] = Times(e, n + 1)
        BY ONLY <3>1, <3>2, <4>2
      <4> QED
        BY ONLY <4>1, <4>3, <3>10, n \in 0 .. 2
    <3>3. c \in calm /\ at'[c] = "query" => \E n \in 0 .. 2 : seen'[c] = Times(e, n)
      BY <3>2, <2>3 DEF Query
    <3>4. c \in calm /\ at'[c] # "query" => seen'[c] = Times(e, 3)
      BY <3>2, <2>3 DEF Query
    <3>5. \A d \in calm : d = c
      BY <2>3 DEF Query
    <3>6. c \in calm => /\ at'[c] = "query" => project'[c] = active
                        /\ at'[c] \in {"bind", "install"} => project'[c] = active
      BY <2>3 DEF Query
    <3>7. at'[c] \in {"query", "bind", "install"}
      BY <2>3 DEF Query
    <3>8. Kinds'
      BY <2>3 DEF Query
    <3>9. ReadsTrue'
      BY ONLY <2>3, <3>3, <3>4, <3>5, <3>6, <3>7 DEF Query, ReadsTrue
    <3> QED BY <3>8, <3>9
  <2>4. CASE Bind(c) BY <2>4 DEF Bind
  <2>5. CASE Commit(c) BY <2>5 DEF Commit
  <2>6. CASE Install(c) BY <2>6 DEF Install
  <2>7. CASE Take(c) BY <2>7 DEF Take
  <2>8. CASE Drained(c) BY <2>8 DEF Drained
  <2> QED BY <1>1, <2>1, <2>2, <2>3, <2>4, <2>5, <2>6, <2>7, <2>8 DEF Work
<1>2. ASSUME NEW c \in Cmd, NEW k \in {"start", "reload", "stop"}, Begin(c, k)
      PROVE  Kinds' /\ ReadsTrue'
  BY <1>2 DEF Begin
<1>3. ASSUME NEW r \in Req, Arrive(r) \/ Answer(r) PROVE Kinds' /\ ReadsTrue'
  BY <1>3 DEF Arrive, Answer
<1>4. ASSUME NEW p \in Project, Edit(p) PROVE Kinds' /\ ReadsTrue'
  BY <1>4 DEF Edit
<1>5. CASE Switch BY <1>5 DEF Switch
<1>6. CASE UNCHANGED vars BY <1>6 DEF vars
<1> QED BY <1>1, <1>2, <1>3, <1>4, <1>5, <1>6 DEF Next

LEMMA Initially == Init => IInv
<1> SUFFICES ASSUME Init PROVE IInv
  OBVIOUS
<1>1. TypeOK /\ Kept /\ NoStrayServer
  BY MockAssumption DEF Init, TypeOK, Kept, NoStrayServer, Listening, Port
<1>2. Waiting /\ StopWaitsForRequests
  BY DEF Init, Waiting, StopWaitsForRequests
<1>3. Kinds /\ Alone /\ ReadsTrue
  BY DEF Init, Kinds, Alone, ReadsTrue
<1> QED
  BY <1>1, <1>2, <1>3 DEF IInv

LEMMA Invariant == Spec => []IInv
<1>1. IInv /\ [Next]_vars => IInv'
  BY TypeStep, StrayStep, WaitStep, AloneStep, ReadsStep DEF IInv
<1> QED
  BY <1>1, Initially, PTL DEF Spec

LEMMA Serial == IInv => SerialServesActive
<1> SUFFICES ASSUME IInv, NEW c \in calm, result[c] = "ok", kind[c] \in {"start", "reload"}
             PROVE  mock # None /\ store[mock] = Whole
  BY WholeIs DEF SerialServesActive
<1>1. at[c] = "done"
  BY DEF IInv, TypeOK, Alone
<1> QED
  BY <1>1 DEF IInv, ReadsTrue

(* Whatever commands overlap: a server that listens has a port of its own and its *)
(* handle is kept, about to be kept or its command about to stop it; no request   *)
(* in flight is forgotten by a stop; and a start or reload that nothing happened  *)
(* beside serves the active project as the database holds it.                     *)
THEOREM ServerFollows == Spec => []MockFollows
<1>1. IInv => MockFollows
  BY Serial DEF IInv, MockFollows
<1> QED
  BY <1>1, Invariant, PTL

-----------------------------------------------------------------------------
(* The control server of the agents: the ports it can have, the invariant *)

LEMMA LeastElement ==
  ASSUME NEW T \in SUBSET Nat, T # {} PROVE \E m \in T : \A n \in T : m <= n
<1> DEFINE R == {ss \in Nat \X Nat : ss[1] < ss[2]}
<1>1. IsWellFoundedOn(R, Nat)
  BY NatLessThanWellFounded DEF OpToRel
<1>2. PICK x \in T : \A y \in T : ~ (<<y, x>> \in R)
  <2> HIDE DEF R
  <2> QED  BY <1>1, WFMin
<1>3. ASSUME NEW y \in T PROVE x <= y
  <2>1. <<y, x>> \notin R
    BY <1>2
  <2> QED  BY <2>1
<1> QED  BY <1>3


\* What the control server's constants are.
LEMMA AA ==
  /\ Last \in Nat /\ Default \in A!Port /\ Tries \in Nat \ {0}
  /\ None \notin Control /\ Control \cap Bridge = {}
  BY ServersAssumption DEF A!Port

Places == {"idle", "read", "lock", "relock", "bind", "rebind", "unlock", "write", "rollback", "done"}
ControlKinds == {"none", "start", "stop", "enable", "port"}

Typed ==
  /\ order \in [Control -> ControlKinds] /\ arg \in [Control -> {0} \cup A!Port \cup {1}]
  /\ where \in [Control -> Places] /\ ended \in [Control -> {"none", "ok", "failed", "refused"}]
  /\ prev \in [Control -> {0} \cup A!Port] /\ was \in [Control -> {0} \cup A!Port]
  /\ tried \in [Control -> {0} \cup A!Port]
  /\ lock \in Control \cup {None} /\ listen \in {0} \cup A!Port /\ file \in {0} \cup A!Port
  /\ enabled \in {0, 1} /\ first \in A!Port /\ app \in {"up", "down"} /\ others \subseteq A!Port
  /\ look \in [Bridge -> {"idle", "file", "scan", "done"}] /\ probe \in [Bridge -> Nat]
  /\ found \in [Bridge -> {0} \cup A!Port]
  /\ quiet \subseteq Control \cup Bridge /\ before \in [Control \cup Bridge -> {0} \cup A!Port]

\* Where a command of each kind can be.
Ways ==
  \A c \in Control :
    /\ where[c] = "idle" => ended[c] = "none" /\ was[c] = 0 /\ order[c] = "none"
    /\ where[c] = "read" => order[c] = "port" /\ was[c] = 0
    /\ where[c] \in {"lock", "bind"} => order[c] \in {"start", "enable", "port"}
    /\ where[c] = "unlock" => order[c] \in {"stop", "enable", "port"}
    /\ where[c] = "write" => order[c] \in {"enable", "port"} /\ ended[c] = "ok"
    /\ where[c] \in {"rollback", "relock", "rebind"} => order[c] = "port"
    /\ order[c] = "port" => arg[c] \in A!Port /\ (where[c] # "read" => prev[c] \in A!Port \/ where[c] = "done")
    /\ order[c] = "enable" => arg[c] \in {0, 1}

\* The lock and the server behind it.
Locked ==
  /\ \A c \in Control : where[c] \in {"bind", "rebind"} <=> lock = c
  /\ lock # None => listen = 0
  /\ app = "down" => listen = 0 /\ \A c \in Control : where[c] \in {"idle", "done"}
  /\ listen \notin others

\* Who is calm is alone.
ControlAlone ==
  \A x \in quiet :
    /\ quiet = {x}
    /\ \A c \in Control : c # x => where[c] \in {"idle", "done"}
    /\ \A b \in Bridge : b # x => look[b] \in {"idle", "done"}
    /\ x \in Control => where[x] # "idle"
    /\ x \in Bridge => look[x] # "idle"

\* A command that switches the server on or off and is alone.
Switching(c) ==
  /\ where[c] \in {"lock", "bind"} => arg[c] = 1
  /\ where[c] = "unlock" => arg[c] = 0
  /\ where[c] = "write" => (listen # 0 <=> arg[c] = 1)
  /\ where[c] = "done" /\ ended[c] = "ok" => enabled = arg[c] /\ (listen # 0 <=> arg[c] = 1)

\* A command that changes the port and is alone.
Moving(c) ==
  /\ where[c] \in {"read", "unlock"} => listen = before[c] /\ was[c] = 0
  /\ where[c] \in {"write", "lock", "bind", "rollback", "relock", "rebind"} => listen = 0 /\ was[c] = before[c]
  /\ where[c] \in {"lock", "bind", "rollback", "relock", "rebind"} => was[c] # 0
  /\ where[c] \in {"unlock", "write"} => first = prev[c]
  /\ where[c] \in {"lock", "bind"} => first = arg[c]
  /\ where[c] = "bind" => tried[c] = first
  /\ where[c] \in {"relock", "rebind"} => first = prev[c]
  /\ where[c] = "rebind" => tried[c] = first
  /\ where[c] = "done" /\ ended[c] = "ok" =>
       /\ first = arg[c] /\ (listen # 0 <=> before[c] # 0)
       /\ listen # 0 /\ was[c] # 0 => listen \in A!Candidates(first)
  /\ where[c] = "done" /\ ended[c] = "failed" =>
       first = prev[c] /\ (A!Candidates(first) # {} => listen # 0)

\* A bridge that is alone.
Looking(b) ==
  /\ look[b] = "file" => probe[b] = file /\ file # 0
  /\ look[b] = "scan" =>
       /\ listen # 0 => file # listen
       /\ Default <= probe[b] /\ \A q \in A!Port : Default <= q /\ q < probe[b] => q # listen
  /\ look[b] = "done" /\ listen # 0
       /\ (file = listen \/ (Default <= listen /\ listen < Default + Tries))
     => found[b] = listen

ControlSerial ==
  /\ \A c \in quiet \cap Control : (order[c] = "enable" => Switching(c)) /\ (order[c] = "port" => Moving(c))
  /\ \A b \in quiet \cap Bridge : Looking(b)

ControlIInv == Typed /\ Ways /\ Locked /\ A!FileNamesServer /\ ControlAlone /\ ControlSerial

-----------------------------------------------------------------------------
(* The control server: its steps *)

LEMMA FirstFreeFits ==
  \A p : /\ A!Candidates(p) \subseteq A!Port \ others
         /\ A!Candidates(p) = {} => A!FirstFree(p) = 0
         /\ A!Candidates(p) # {} => A!FirstFree(p) \in A!Candidates(p) /\ A!FirstFree(p) # 0
<1> SUFFICES ASSUME NEW p
             PROVE  /\ A!Candidates(p) \subseteq A!Port \ others
                    /\ A!Candidates(p) = {} => A!FirstFree(p) = 0
                    /\ A!Candidates(p) # {} => A!FirstFree(p) \in A!Candidates(p) /\ A!FirstFree(p) # 0
  OBVIOUS
<1>1. A!Candidates(p) \subseteq A!Port \ others
  BY DEF A!Candidates
<1>2. \A q \in A!Port : q # 0 /\ q \in Nat
  BY AA DEF A!Port
<1>3. ASSUME A!Candidates(p) # {} PROVE A!FirstFree(p) \in A!Candidates(p)
  <2>1. A!Candidates(p) \in SUBSET Nat
    BY <1>1, <1>2
  <2>2. \E q \in A!Candidates(p) : \A r \in A!Candidates(p) : q <= r
    BY <1>3, <2>1, LeastElement
  <2> QED  BY <1>3, <2>2 DEF A!FirstFree
<1> QED  BY <1>1, <1>2, <1>3 DEF A!FirstFree

LEMMA InitIInv == A!Init => ControlIInv
<1> SUFFICES ASSUME A!Init PROVE ControlIInv
  OBVIOUS
<1>1. Typed
  BY AA DEF A!Init, Typed, ControlKinds, Places
<1>2. Ways
  BY DEF A!Init, Ways
<1>3. Locked /\ A!FileNamesServer
  BY AA DEF A!Init, Locked, A!FileNamesServer, A!Port
<1>4. ControlAlone /\ ControlSerial
  BY DEF A!Init, ControlAlone, ControlSerial
<1> QED  BY <1>1, <1>2, <1>3, <1>4 DEF ControlIInv

\* What a command is told to do, without the places it may go to.
LEMMA BeginFacts ==
  ASSUME NEW c \in Control,
         \/ A!Begin(c, "start", 0) \/ A!Begin(c, "stop", 0)
         \/ \E e \in {0, 1} : A!Begin(c, "enable", e)
         \/ \E p \in A!Port : A!Begin(c, "port", p)
  PROVE  \E k \in ControlKinds, a \in {0} \cup A!Port \cup {1}, to \in Places :
           /\ app = "up" /\ where[c] = "idle" /\ where' = [where EXCEPT ![c] = to]
           /\ order' = [order EXCEPT ![c] = k] /\ arg' = [arg EXCEPT ![c] = a]
           /\ A!Begins(c)
           /\ UNCHANGED <<ended, prev, was, tried, lock, listen, file, enabled, first,
                          app, others, look, probe, found>>
           /\ \/ k = "start" /\ to = "lock"
              \/ k = "stop" /\ to = "unlock"
              \/ k = "enable" /\ a = 1 /\ to = "lock"
              \/ k = "enable" /\ a = 0 /\ to = "unlock"
              \/ k = "port" /\ a \in A!Port /\ to = "read"
<1>1. CASE A!Begin(c, "start", 0)
  BY <1>1 DEF A!Begin, A!Goto, A!disk, A!bridge, ControlKinds, Places
<1>2. CASE A!Begin(c, "stop", 0)
  BY <1>2 DEF A!Begin, A!Goto, A!disk, A!bridge, ControlKinds, Places
<1>3. ASSUME NEW e \in {0, 1}, A!Begin(c, "enable", e)
      PROVE  \E k \in ControlKinds, a \in {0} \cup A!Port \cup {1}, to \in Places :
           /\ app = "up" /\ where[c] = "idle" /\ where' = [where EXCEPT ![c] = to]
           /\ order' = [order EXCEPT ![c] = k] /\ arg' = [arg EXCEPT ![c] = a]
           /\ A!Begins(c)
           /\ UNCHANGED <<ended, prev, was, tried, lock, listen, file, enabled, first,
                          app, others, look, probe, found>>
           /\ k = "enable" /\ ((a = 1 /\ to = "lock") \/ (a = 0 /\ to = "unlock"))
  <2>1. CASE e = 1
    <3>1. where[c] = "idle" /\ where' = [where EXCEPT ![c] = "lock"]
      BY <1>3, <2>1 DEF A!Begin, A!Goto
    <3>2. arg' = [arg EXCEPT ![c] = 1] /\ order' = [order EXCEPT ![c] = "enable"] /\ app = "up" /\ A!Begins(c)
      BY <1>3, <2>1 DEF A!Begin
    <3>3. UNCHANGED <<ended, prev, was, tried, lock, listen, file, enabled, first,
                      app, others, look, probe, found>>
      BY <1>3 DEF A!Begin, A!disk, A!bridge
    <3>4. "enable" \in ControlKinds /\ 1 \in {0} \cup A!Port \cup {1} /\ 0 \in {0} \cup A!Port \cup {1}
          /\ "lock" \in Places /\ "unlock" \in Places
      BY DEF ControlKinds, Places
    <3> QED  BY <3>1, <3>2, <3>3, <3>4
  <2>2. CASE e = 0
    <3>1. where[c] = "idle" /\ where' = [where EXCEPT ![c] = "unlock"]
      BY <1>3, <2>2 DEF A!Begin, A!Goto
    <3>2. arg' = [arg EXCEPT ![c] = 0] /\ order' = [order EXCEPT ![c] = "enable"] /\ app = "up" /\ A!Begins(c)
      BY <1>3, <2>2 DEF A!Begin
    <3>3. UNCHANGED <<ended, prev, was, tried, lock, listen, file, enabled, first,
                      app, others, look, probe, found>>
      BY <1>3 DEF A!Begin, A!disk, A!bridge
    <3>4. "enable" \in ControlKinds /\ 1 \in {0} \cup A!Port \cup {1} /\ 0 \in {0} \cup A!Port \cup {1}
          /\ "lock" \in Places /\ "unlock" \in Places
      BY DEF ControlKinds, Places
    <3> QED  BY <3>1, <3>2, <3>3, <3>4
  <2> QED  BY <2>1, <2>2
<1>4. ASSUME NEW p \in A!Port, A!Begin(c, "port", p)
      PROVE  \E k \in ControlKinds, a \in {0} \cup A!Port \cup {1}, to \in Places :
           /\ app = "up" /\ where[c] = "idle" /\ where' = [where EXCEPT ![c] = to]
           /\ order' = [order EXCEPT ![c] = k] /\ arg' = [arg EXCEPT ![c] = a]
           /\ A!Begins(c)
           /\ UNCHANGED <<ended, prev, was, tried, lock, listen, file, enabled, first,
                          app, others, look, probe, found>>
           /\ k = "port" /\ a \in A!Port /\ to = "read"
  BY <1>4 DEF A!Begin, A!Goto, A!disk, A!bridge, ControlKinds, Places
<1> QED  BY <1>1, <1>2, <1>3, <1>4

\* A new command or call is alone if everything else is at rest.
LEMMA BeginsAlone ==
  ASSUME Typed, NEW x \in Control \cup Bridge, A!Begins(x)
  PROVE  /\ quiet' \subseteq {x} /\ (quiet' # {} => quiet' = {x} /\ A!AtRest)
         /\ before' \in [Control \cup Bridge -> {0} \cup A!Port] /\ before'[x] = listen
  BY DEF Typed, A!Begins

LEMMA TypedWork == ASSUME Typed, Ways, NEW c \in Control, A!Work(c) PROVE Typed'
<1> USE DEF Typed, A!Goto, A!Ends, A!AfterLock, ControlKinds, Places
<1>1. A!FirstFree(tried[c]) \in {0} \cup A!Port
  BY FirstFreeFits
<1>2. first \in A!Port /\ first \in {0} \cup A!Port
  OBVIOUS
<1>ReadPort. CASE A!ReadPort(c)
  BY <1>1, <1>2, <1>ReadPort DEF A!ReadPort, A!disk, A!bridge
<1>Lock. CASE A!Lock(c)
  BY <1>1, <1>2, <1>Lock DEF A!Lock, A!disk, A!bridge
<1>Bind. CASE A!Bind(c)
  BY <1>1, <1>2, <1>Bind DEF A!Bind, A!disk, A!bridge
<1>Unlock. CASE A!Unlock(c)
  BY <1>1, <1>2, <1>Unlock DEF A!Unlock, A!disk, A!bridge
<1>Write. CASE A!Write(c)
  <2>1. (order[c] = "port" => arg[c] \in A!Port) /\ (order[c] = "enable" => arg[c] \in {0, 1})
    BY DEF Ways
  <2> QED  BY <2>1, <1>Write DEF A!Write, A!disk, A!bridge
<1>Rollback. CASE A!Rollback(c)
  <2>1. prev[c] \in A!Port
    BY <1>Rollback DEF A!Rollback, Ways
  <2> QED  BY <2>1, <1>Rollback DEF A!Rollback, A!bridge
<1> QED  BY <1>ReadPort, <1>Lock, <1>Bind, <1>Unlock, <1>Write, <1>Rollback DEF A!Work

LEMMA WaysWork == ASSUME Typed, Ways, NEW c \in Control, A!Work(c) PROVE Ways'
<1> USE DEF Typed, A!Goto, A!Ends, A!AfterLock, ControlKinds, Places
<1>1. arg[c] \in {0} \cup A!Port \cup {1}
  OBVIOUS
<1>ReadPort. CASE A!ReadPort(c)
  BY <1>1, <1>ReadPort DEF A!ReadPort, A!disk, A!bridge, Ways
<1>Lock. CASE A!Lock(c)
  BY <1>1, <1>Lock DEF A!Lock, A!disk, A!bridge, Ways
<1>Bind. CASE A!Bind(c)
  BY <1>1, <1>Bind DEF A!Bind, A!disk, A!bridge, Ways
<1>Unlock. CASE A!Unlock(c)
  BY <1>1, <1>Unlock DEF A!Unlock, A!disk, A!bridge, Ways
<1>Write. CASE A!Write(c)
  BY <1>1, <1>Write DEF A!Write, A!disk, A!bridge, Ways
<1>Rollback. CASE A!Rollback(c)
  BY <1>1, <1>Rollback DEF A!Rollback, A!disk, A!bridge, Ways
<1> QED  BY <1>ReadPort, <1>Lock, <1>Bind, <1>Unlock, <1>Write, <1>Rollback DEF A!Work

LEMMA LockedWork == ASSUME Typed, Ways, Locked, NEW c \in Control, A!Work(c) PROVE Locked'
<1> USE DEF Typed, A!Goto, A!Ends, A!AfterLock, ControlKinds, Places
<1>1. A!FirstFree(tried[c]) \in {0} \cup (A!Port \ others)
  BY FirstFreeFits
<1>2. c # None /\ 0 \notin A!Port /\ None \notin Control
  BY AA DEF A!Port
<1>ReadPort. CASE A!ReadPort(c)
  BY <1>1, <1>2, <1>ReadPort DEF A!ReadPort, A!disk, A!bridge, Locked
<1>Lock. CASE A!Lock(c)
  <2>1. \A d \in Control : d # c => where'[d] = where[d]
    BY <1>Lock DEF A!Lock
  <2>2. lock = None /\ app' = app /\ others' = others /\ listen' = listen /\ app = "up"
    BY <1>Lock DEF A!Lock, Locked
  <2>3. CASE listen = 0
    <3>1. lock' = c /\ where'[c] \in {"bind", "rebind"}
      BY <1>Lock, <2>3 DEF A!Lock
    <3> QED  BY <1>2, <2>1, <2>2, <2>3, <3>1 DEF Locked
  <2>4. CASE listen # 0
    <3>1. lock' = None /\ where'[c] \in {"write", "done"}
      BY <1>Lock, <2>2, <2>4 DEF A!Lock
    <3> QED  BY <1>2, <2>1, <2>2, <2>4, <3>1 DEF Locked
  <2> QED  BY <2>3, <2>4
<1>Bind. CASE A!Bind(c)
  <2>1. \A d \in Control : d # c => where'[d] = where[d]
    BY <1>Bind DEF A!Bind
  <2>2. lock = c /\ listen = 0 /\ lock' = None /\ app' = app /\ others' = others /\ app = "up"
    BY <1>2, <1>Bind DEF A!Bind, Locked
  <2>3. where'[c] \in {"write", "done", "rollback"}
    BY <1>Bind DEF A!Bind
  <2>4. listen' \notin others
    BY <1>1, <2>2, <1>Bind DEF A!Bind, Locked
  <2> QED  BY <1>2, <2>1, <2>2, <2>3, <2>4 DEF Locked
<1>Unlock. CASE A!Unlock(c)
  BY <1>1, <1>2, <1>Unlock DEF A!Unlock, A!disk, A!bridge, Locked
<1>Write. CASE A!Write(c)
  BY <1>1, <1>2, <1>Write DEF A!Write, A!disk, A!bridge, Locked
<1>Rollback. CASE A!Rollback(c)
  BY <1>1, <1>2, <1>Rollback DEF A!Rollback, A!disk, A!bridge, Locked
<1> QED  BY <1>ReadPort, <1>Lock, <1>Bind, <1>Unlock, <1>Write, <1>Rollback DEF A!Work

LEMMA FileWork ==
  ASSUME Typed, A!FileNamesServer, NEW c \in Control, A!Work(c)
  PROVE  A!FileNamesServer'
<1> USE DEF A!FileNamesServer, A!Goto, A!Ends
<1>ReadPort. CASE A!ReadPort(c)
  BY <1>ReadPort DEF A!ReadPort, A!disk, A!bridge
<1>Lock. CASE A!Lock(c)
  BY <1>Lock DEF A!Lock, A!disk, A!bridge
<1>Bind. CASE A!Bind(c)
  BY <1>Bind DEF A!Bind, A!disk, A!bridge
<1>Unlock. CASE A!Unlock(c)
  BY <1>Unlock DEF A!Unlock, A!disk, A!bridge
<1>Write. CASE A!Write(c)
  BY <1>Write DEF A!Write, A!disk, A!bridge
<1>Rollback. CASE A!Rollback(c)
  BY <1>Rollback DEF A!Rollback, A!disk, A!bridge
<1> QED  BY <1>ReadPort, <1>Lock, <1>Bind, <1>Unlock, <1>Write, <1>Rollback DEF A!Work

LEMMA AloneWork == ASSUME Typed, ControlAlone, NEW c \in Control, A!Work(c) PROVE ControlAlone'
<1> USE DEF Typed, A!Goto, A!Ends
<1>1. \A x \in quiet : x = c
  BY AA DEF ControlAlone, A!Work, A!ReadPort, A!Lock, A!Bind, A!Unlock, A!Write, A!Rollback
<1>2. where'[c] # "idle" /\ \A d \in Control : d # c => where'[d] = where[d]
  BY DEF A!Work, A!ReadPort, A!Lock, A!Bind, A!Unlock, A!Write, A!Rollback, A!AfterLock
<1>ReadPort. CASE A!ReadPort(c)
  BY <1>1, <1>2, <1>ReadPort DEF A!ReadPort, A!disk, A!bridge, ControlAlone
<1>Lock. CASE A!Lock(c)
  BY <1>1, <1>2, <1>Lock DEF A!Lock, A!disk, A!bridge, ControlAlone
<1>Bind. CASE A!Bind(c)
  BY <1>1, <1>2, <1>Bind DEF A!Bind, A!disk, A!bridge, ControlAlone
<1>Unlock. CASE A!Unlock(c)
  BY <1>1, <1>2, <1>Unlock DEF A!Unlock, A!disk, A!bridge, ControlAlone
<1>Write. CASE A!Write(c)
  BY <1>1, <1>2, <1>Write DEF A!Write, A!disk, A!bridge, ControlAlone
<1>Rollback. CASE A!Rollback(c)
  BY <1>1, <1>2, <1>Rollback DEF A!Rollback, A!disk, A!bridge, ControlAlone
<1> QED  BY <1>ReadPort, <1>Lock, <1>Bind, <1>Unlock, <1>Write, <1>Rollback DEF A!Work

LEMMA SerialWork ==
  ASSUME Typed, Ways, Locked, ControlAlone, ControlSerial, NEW c \in Control, A!Work(c)
  PROVE  ControlSerial'
<1> USE DEF A!Goto, A!Ends, A!AfterLock
<1>1. \A x \in quiet : x = c
  BY AA DEF ControlAlone, A!Work, A!ReadPort, A!Lock, A!Bind, A!Unlock, A!Write, A!Rollback
<1>2. quiet' \subseteq quiet
  BY DEF A!Work, A!ReadPort, A!Lock, A!Bind, A!Unlock, A!Write, A!Rollback
<1>3. c \notin Bridge /\ \A x \in quiet' : x = c
  BY <1>1, <1>2, AA
<1> SUFFICES ASSUME c \in quiet', c \in quiet
             PROVE  (order'[c] = "enable" => Switching(c)') /\ (order'[c] = "port" => Moving(c)')
  BY <1>2, <1>3, AA DEF ControlSerial, Typed
<1>4. (order[c] = "enable" => Switching(c)) /\ (order[c] = "port" => Moving(c))
  BY DEF ControlSerial
<1>5. order' = order /\ arg' = arg /\ before' = before
  BY DEF A!Work, A!ReadPort, A!Lock, A!Bind, A!Unlock, A!Write, A!Rollback
<1>6. \A p, q : first' = first /\ others' = others => A!Candidates(p)' = A!Candidates(p)
  BY DEF A!Candidates
<1>7. others' = others
  BY DEF A!Work, A!ReadPort, A!Lock, A!Bind, A!Unlock, A!Write, A!Rollback
<1>ReadPort. CASE A!ReadPort(c)
  <2>1. order[c] = "enable" => Switching(c)'
    BY <1>4, <1>5, <1>ReadPort DEF A!ReadPort, A!disk, Switching, Ways, Typed
  <2>2. order[c] = "port" => Moving(c)'
    BY <1>4, <1>5, <1>ReadPort DEF A!ReadPort, A!disk, Moving, Ways, Typed
  <2> QED  BY <1>5, <2>1, <2>2
<1>Lock. CASE A!Lock(c)
  <2>1. order[c] = "enable" => Switching(c)'
    BY <1>4, <1>5, <1>Lock DEF A!Lock, A!disk, Switching, Ways, Typed
  <2>2. order[c] = "port" => Moving(c)'
    BY <1>4, <1>5, <1>Lock DEF A!Lock, A!disk, Moving, Ways, Typed
  <2> QED  BY <1>5, <2>1, <2>2
<1>Bind. CASE A!Bind(c)
  <2>1. order[c] = "enable" => Switching(c)'
    BY <1>4, <1>5, <1>Bind DEF A!Bind, A!disk, Switching, Ways, Typed
  <2>2. ASSUME order[c] = "port" PROVE Moving(c)'
    <3>1. /\ where[c] \in {"bind", "rebind"} /\ first' = first /\ was' = was /\ prev' = prev /\ tried[c] = first
          /\ A!Candidates(first)' = A!Candidates(first)
      BY <1>4, <1>6, <1>7, <2>2, <1>Bind DEF A!Bind, Moving
    <3>2. was[c] # 0 /\ was[c] = before[c] /\ (where[c] = "bind" => first = arg[c]) /\ (where[c] = "rebind" => first = prev[c])
      BY <1>4, <2>2, <3>1 DEF Moving
    <3>3. CASE A!FirstFree(first) # 0
      <4>1. listen' = A!FirstFree(first) /\ listen' # 0 /\ listen' \in A!Candidates(first)'
        BY <3>1, <3>3, <1>Bind, FirstFreeFits DEF A!Bind
      <4>2. where'[c] = "done" /\ ended'[c] = (IF where[c] = "rebind" THEN "failed" ELSE "ok")
        BY <2>2, <3>1, <3>3, <1>Bind DEF A!Bind, Typed
      <4> QED  BY <1>5, <3>1, <3>2, <4>1, <4>2 DEF Moving
    <3>4. CASE A!FirstFree(first) = 0
      <4>1. listen' = listen /\ listen = 0 /\ A!Candidates(first) = {}
        BY <3>1, <3>4, <1>4, <2>2, <1>Bind, FirstFreeFits DEF A!Bind, Moving
      <4>2. ended'[c] = "failed" /\ where'[c] = (IF where[c] = "bind" THEN "rollback" ELSE "done")
        BY <2>2, <3>1, <3>4, <1>Bind DEF A!Bind, Typed
      <4> QED  BY <1>5, <3>1, <3>2, <4>1, <4>2 DEF Moving
    <3> QED  BY <3>3, <3>4
  <2> QED  BY <1>5, <2>1, <2>2
<1>Unlock. CASE A!Unlock(c)
  <2>1. order[c] = "enable" => Switching(c)'
    BY <1>4, <1>5, <1>Unlock DEF A!Unlock, A!disk, Switching, Ways, Typed
  <2>2. order[c] = "port" => Moving(c)'
    BY <1>4, <1>5, <1>Unlock DEF A!Unlock, A!disk, Moving, Ways, Typed
  <2> QED  BY <1>5, <2>1, <2>2
<1>Write. CASE A!Write(c)
  <2>1. order[c] = "enable" => Switching(c)'
    BY <1>4, <1>5, <1>Write DEF A!Write, A!disk, Switching, Ways, Typed
  <2>2. order[c] = "port" => Moving(c)'
    BY <1>4, <1>5, <1>Write DEF A!Write, A!disk, Moving, Ways, Typed
  <2> QED  BY <1>5, <2>1, <2>2
<1>Rollback. CASE A!Rollback(c)
  <2>1. order[c] = "enable" => Switching(c)'
    BY <1>4, <1>5, <1>Rollback DEF A!Rollback, A!disk, Switching, Ways, Typed
  <2>2. order[c] = "port" => Moving(c)'
    BY <1>4, <1>5, <1>Rollback DEF A!Rollback, A!disk, Moving, Ways, Typed
  <2> QED  BY <1>5, <2>1, <2>2
<1> QED  BY <1>ReadPort, <1>Lock, <1>Bind, <1>Unlock, <1>Write, <1>Rollback DEF A!Work

LEMMA BeginKeeps ==
  ASSUME ControlIInv, NEW c \in Control,
         \/ A!Begin(c, "start", 0) \/ A!Begin(c, "stop", 0)
         \/ \E e \in {0, 1} : A!Begin(c, "enable", e)
         \/ \E p \in A!Port : A!Begin(c, "port", p)
  PROVE  ControlIInv'
<1>0. Typed /\ Ways /\ Locked /\ A!FileNamesServer /\ ControlAlone /\ ControlSerial
  BY DEF ControlIInv
<1>1. PICK k \in ControlKinds, a \in {0} \cup A!Port \cup {1}, to \in Places :
           /\ app = "up" /\ where[c] = "idle" /\ where' = [where EXCEPT ![c] = to]
           /\ order' = [order EXCEPT ![c] = k] /\ arg' = [arg EXCEPT ![c] = a]
           /\ A!Begins(c)
           /\ UNCHANGED <<ended, prev, was, tried, lock, listen, file, enabled, first,
                          app, others, look, probe, found>>
           /\ \/ k = "start" /\ to = "lock"
              \/ k = "stop" /\ to = "unlock"
              \/ k = "enable" /\ a = 1 /\ to = "lock"
              \/ k = "enable" /\ a = 0 /\ to = "unlock"
              \/ k = "port" /\ a \in A!Port /\ to = "read"
  BY BeginFacts
<1>2. /\ quiet' \subseteq {c} /\ (quiet' # {} => quiet' = {c} /\ A!AtRest)
      /\ before' \in [Control \cup Bridge -> {0} \cup A!Port] /\ before'[c] = listen
  BY <1>0, <1>1, BeginsAlone
<1>3. Typed'
  BY <1>0, <1>1, <1>2 DEF Typed
<1>4. where'[c] = to /\ \A d \in Control : d # c => where'[d] = where[d] /\ order'[d] = order[d] /\ arg'[d] = arg[d]
  BY <1>0, <1>1 DEF Typed
<1>5. order'[c] = k /\ arg'[c] = a /\ ended[c] = "none" /\ was[c] = 0
  BY <1>0, <1>1 DEF Typed, Ways
<1>6. Ways'
  <2> SUFFICES ASSUME NEW d \in Control PROVE
    /\ where'[d] = "idle" => ended'[d] = "none" /\ was'[d] = 0 /\ order'[d] = "none"
    /\ where'[d] = "read" => order'[d] = "port" /\ was'[d] = 0
    /\ where'[d] \in {"lock", "bind"} => order'[d] \in {"start", "enable", "port"}
    /\ where'[d] = "unlock" => order'[d] \in {"stop", "enable", "port"}
    /\ where'[d] = "write" => order'[d] \in {"enable", "port"} /\ ended'[d] = "ok"
    /\ where'[d] \in {"rollback", "relock", "rebind"} => order'[d] = "port"
    /\ order'[d] = "port" => arg'[d] \in A!Port /\ (where'[d] # "read" => prev'[d] \in A!Port \/ where'[d] = "done")
    /\ order'[d] = "enable" => arg'[d] \in {0, 1}
    BY DEF Ways
  <2>1. CASE d = c
    BY <1>1, <1>4, <1>5, <2>1
  <2>2. CASE d # c
    BY <1>0, <1>1, <1>4, <2>2 DEF Ways
  <2> QED  BY <2>1, <2>2
<1>7. Locked' /\ A!FileNamesServer'
  <2>1. \A d \in Control : where'[d] \in {"bind", "rebind"} <=> where[d] \in {"bind", "rebind"}
    BY <1>1, <1>4
  <2> QED  BY <1>0, <1>1, <2>1 DEF Locked, A!FileNamesServer
<1>8. ControlAlone'
  BY <1>1, <1>2, <1>4, AA DEF ControlAlone, A!AtRest
<1>9. ControlSerial'
  <2>1. \A b \in Bridge : b \notin quiet'
    BY <1>2, AA
  <2>2. k = "enable" => Switching(c)'
    BY <1>1, <1>4, <1>5 DEF Switching
  <2>3. k = "port" => Moving(c)'
    BY <1>1, <1>2, <1>4, <1>5 DEF Moving
  <2> QED  BY <1>2, <1>5, <2>1, <2>2, <2>3 DEF ControlSerial
<1> QED  BY <1>3, <1>6, <1>7, <1>8, <1>9 DEF ControlIInv

LEMMA DiscoverKeeps ==
  ASSUME ControlIInv, NEW b \in Bridge, A!Discover(b) PROVE ControlIInv'
<1>0. Typed /\ Ways /\ Locked /\ A!FileNamesServer /\ ControlAlone /\ ControlSerial
  BY DEF ControlIInv
<1>1. /\ UNCHANGED <<order, arg, where, ended, prev, was, tried, lock, listen, file, enabled,
                     first, app, others, found>>
      /\ look[b] = "idle" /\ A!Begins(b)
      /\ \/ file # 0 /\ look' = [look EXCEPT ![b] = "file"] /\ probe' = [probe EXCEPT ![b] = file]
         \/ file = 0 /\ look' = [look EXCEPT ![b] = "scan"] /\ probe' = [probe EXCEPT ![b] = Default]
  BY DEF A!Discover, A!LookAt, A!cmd, A!disk
<1>2. /\ quiet' \subseteq {b} /\ (quiet' # {} => quiet' = {b} /\ A!AtRest)
      /\ before' \in [Control \cup Bridge -> {0} \cup A!Port]
  BY <1>0, <1>1, BeginsAlone
<1>3. (\A q \in A!Port : q \in Nat) /\ Default \in Nat /\ 0 \in Nat /\ file \in Nat
  BY <1>0, AA DEF A!Port, Typed
<1>4. Typed'
  BY <1>0, <1>1, <1>2, <1>3 DEF Typed
<1>5. Ways' /\ Locked' /\ A!FileNamesServer'
  BY <1>0, <1>1 DEF Ways, Locked, A!FileNamesServer
<1>6. look'[b] \in {"file", "scan"} /\ \A d \in Bridge : d # b => look'[d] = look[d]
  BY <1>0, <1>1 DEF Typed
<1>7. ControlAlone'
  BY <1>1, <1>2, <1>6, AA DEF ControlAlone, A!AtRest
<1>8. Looking(b)'
  <2>1. CASE file # 0
    <3>1. look'[b] = "file" /\ probe'[b] = file
      BY <1>0, <1>1, <2>1 DEF Typed
    <3> QED  BY <1>1, <2>1, <3>1 DEF Looking
  <2>2. CASE file = 0
    <3>1. look'[b] = "scan" /\ probe'[b] = Default
      BY <1>0, <1>1, <2>2 DEF Typed
    <3>2. Default <= Default /\ \A q \in A!Port : ~ (Default <= q /\ q < Default)
      BY ONLY <1>3
    <3> QED  BY <1>1, <2>2, <3>1, <3>2 DEF Looking
  <2> QED  BY <2>1, <2>2
<1>9. ControlSerial'
  BY <1>2, <1>8, AA DEF ControlSerial
<1> QED  BY <1>4, <1>5, <1>7, <1>9 DEF ControlIInv

LEMMA ProbeKeeps ==
  ASSUME ControlIInv, NEW b \in Bridge, A!Probe(b) PROVE ControlIInv'
<1>0. Typed /\ Ways /\ Locked /\ A!FileNamesServer /\ ControlAlone /\ ControlSerial
  BY DEF ControlIInv
<1>1. /\ UNCHANGED <<order, arg, where, ended, prev, was, tried, lock, listen, file, enabled,
                     first, app, others, quiet, before>>
      /\ look[b] \in {"file", "scan"}
      /\ \/ /\ probe[b] = listen /\ look' = [look EXCEPT ![b] = "done"]
            /\ probe' = [probe EXCEPT ![b] = probe[b]] /\ found' = [found EXCEPT ![b] = listen]
         \/ /\ probe[b] # listen /\ found' = found
            /\ \/ /\ look[b] = "file" /\ look' = [look EXCEPT ![b] = "scan"]
                  /\ probe' = [probe EXCEPT ![b] = Default]
               \/ /\ look[b] = "scan" /\ probe[b] + 1 < Default + Tries
                  /\ look' = [look EXCEPT ![b] = "scan"] /\ probe' = [probe EXCEPT ![b] = probe[b] + 1]
               \/ /\ look[b] = "scan" /\ ~ (probe[b] + 1 < Default + Tries)
                  /\ look' = [look EXCEPT ![b] = "done"] /\ probe' = [probe EXCEPT ![b] = probe[b]]
  BY <1>0 DEF A!Probe, A!LookAt, A!cmd, A!disk, Typed
<1>2. (\A q \in A!Port : q \in Nat) /\ Default \in Nat /\ probe[b] \in Nat /\ Tries \in Nat
  BY <1>0, AA DEF A!Port, Typed
<1>3. probe[b] + 1 \in Nat
  BY <1>2
<1>4. Typed'
  BY <1>0, <1>1, <1>2, <1>3 DEF Typed
<1>5. Ways' /\ Locked' /\ A!FileNamesServer'
  BY <1>0, <1>1 DEF Ways, Locked, A!FileNamesServer
<1>6. look'[b] # "idle" /\ \A d \in Bridge : d # b => look'[d] = look[d]
  BY <1>0, <1>1 DEF Typed
<1>7. \A x \in quiet : x = b
  BY <1>0, <1>1, AA DEF ControlAlone
<1>8. ControlAlone'
  BY <1>0, <1>1, <1>6, <1>7, AA DEF ControlAlone
<1>9. ASSUME b \in quiet PROVE Looking(b)'
  <2>0. Looking(b)
    BY <1>0, <1>9 DEF ControlSerial
  <2>1. CASE probe[b] = listen
    <3>1. look'[b] = "done" /\ found'[b] = listen
      BY <1>0, <1>1, <2>1 DEF Typed
    <3> QED  BY <1>1, <3>1 DEF Looking
  <2>2. CASE probe[b] # listen /\ look[b] = "file"
    <3>1. look'[b] = "scan" /\ probe'[b] = Default
      BY <1>0, <1>1, <2>2 DEF Typed
    <3>2. Default <= Default /\ \A q \in A!Port : ~ (Default <= q /\ q < Default)
      BY ONLY <1>2
    <3> QED  BY <1>1, <2>0, <2>2, <3>1, <3>2 DEF Looking
  <2>3. CASE probe[b] # listen /\ look[b] = "scan" /\ probe[b] + 1 < Default + Tries
    <3>1. look'[b] = "scan" /\ probe'[b] = probe[b] + 1
      BY <1>0, <1>1, <2>3 DEF Typed
    <3>2. Default <= probe[b] /\ \A q \in A!Port : Default <= q /\ q < probe[b] => q # listen
      BY <2>0, <2>3 DEF Looking
    <3>3. Default <= probe[b] + 1 /\ \A q \in A!Port : q < probe[b] + 1 => q < probe[b] \/ q = probe[b]
      <4>1. Default <= probe[b]
        BY <3>2
      <4> QED  BY ONLY <1>2, <4>1
    <3> QED  BY <1>1, <2>0, <2>3, <3>1, <3>2, <3>3 DEF Looking
  <2>4. CASE probe[b] # listen /\ look[b] = "scan" /\ ~ (probe[b] + 1 < Default + Tries)
    <3>1. look'[b] = "done"
      BY <1>0, <1>1, <2>4 DEF Typed
    <3>2. (listen # 0 => file # listen) /\ \A q \in A!Port : Default <= q /\ q < probe[b] => q # listen
      BY <2>0, <2>4 DEF Looking
    <3>3. \A q \in A!Port : q < Default + Tries => q < probe[b] \/ q = probe[b]
      BY <1>2, <2>4
    <3>4. listen \in {0} \cup A!Port
      BY <1>0 DEF Typed
    <3> QED  BY <1>1, <2>4, <3>1, <3>2, <3>3, <3>4 DEF Looking
  <2> QED  BY <1>1, <2>1, <2>2, <2>3, <2>4
<1>10. ControlSerial'
  BY <1>1, <1>7, <1>9, AA DEF ControlSerial
<1> QED  BY <1>4, <1>5, <1>8, <1>10 DEF ControlIInv

\* Nobody is alone where the application or its file is touched.
LEMMA OutsideKeeps == ASSUME ControlIInv, A!Start \/ A!Exit \/ A!RemoveFile PROVE ControlIInv'
<1>0. Typed /\ Ways /\ Locked /\ A!FileNamesServer /\ ControlAlone /\ ControlSerial
  BY DEF ControlIInv
<1>1. A!FirstFree(first) \in {0} \cup (A!Port \ others) /\ 0 \notin A!Port
  BY FirstFreeFits, AA DEF A!Port
<1>2. quiet' = {}
  BY DEF A!Start, A!Exit, A!RemoveFile
<1>3. ControlAlone' /\ ControlSerial'
  BY <1>2 DEF ControlAlone, ControlSerial
<1>4. CASE A!Start
  <2>1. Typed'
    BY <1>0, <1>1, <1>2, <1>4 DEF A!Start, Typed, A!cmd, A!bridge
  <2>2. Ways'
    BY <1>0, <1>4 DEF A!Start, Ways, A!cmd
  <2>3. lock = None
    BY <1>0, <1>4 DEF A!Start, Locked, Typed
  <2>4. Locked' /\ A!FileNamesServer'
    BY <1>0, <1>1, <1>4, <2>3, AA DEF A!Start, Locked, A!FileNamesServer, A!cmd
  <2> QED  BY <1>3, <2>1, <2>2, <2>4 DEF ControlIInv
<1>5. CASE A!Exit
  <2>1. \A c \in Control : where'[c] = (IF where[c] = "idle" THEN "idle" ELSE "done")
    BY <1>5 DEF A!Exit
  <2>2. Typed'
    BY <1>0, <1>2, <1>5 DEF A!Exit, Typed, A!disk, A!bridge, Places
  <2>3. Ways'
    BY <1>0, <1>5, <2>1 DEF A!Exit, Ways
  <2>4. Locked' /\ A!FileNamesServer'
    BY <1>0, <1>1, <1>5, <2>1, AA DEF A!Exit, Locked, A!FileNamesServer, Typed
  <2> QED  BY <1>3, <2>2, <2>3, <2>4 DEF ControlIInv
<1>6. CASE A!RemoveFile
  <2>1. Typed'
    BY <1>0, <1>2, <1>6 DEF A!RemoveFile, Typed, A!cmd, A!bridge
  <2>2. Ways' /\ Locked' /\ A!FileNamesServer'
    BY <1>0, <1>6 DEF A!RemoveFile, Ways, Locked, A!FileNamesServer, A!cmd
  <2> QED  BY <1>3, <2>1, <2>2 DEF ControlIInv
<1> QED  BY <1>4, <1>5, <1>6

LEMMA NextIInv == ControlIInv /\ [A!Next]_(A!vars) => ControlIInv'
<1> SUFFICES ASSUME ControlIInv, [A!Next]_(A!vars) PROVE ControlIInv'
  OBVIOUS
<1>1. ASSUME NEW c \in Control, A!Work(c) PROVE ControlIInv'
  BY <1>1, TypedWork, WaysWork, LockedWork, FileWork, AloneWork, SerialWork DEF ControlIInv
<1>2. CASE UNCHANGED A!vars
  <2>1. UNCHANGED <<order, arg, where, ended, prev, was, tried, lock, listen, file, enabled,
                    first, app, others, look, probe, found, quiet, before>>
    BY <1>2 DEF A!vars, A!cmd, A!disk, A!bridge
  <2>2. Typed' /\ Ways' /\ Locked' /\ A!FileNamesServer' /\ ControlAlone'
    BY <2>1 DEF ControlIInv, Typed, Ways, Locked, A!FileNamesServer, ControlAlone
  <2>3. ControlSerial'
    BY <2>1 DEF ControlIInv, ControlSerial, Switching, Moving, Looking, A!Candidates
  <2> QED  BY <2>2, <2>3 DEF ControlIInv
<1> QED  BY <1>1, <1>2, BeginKeeps, DiscoverKeeps, ProbeKeeps, OutsideKeeps DEF A!Next

LEMMA IInvGives ==
  ControlIInv => A!TypeOK /\ A!FileNamesServer /\ A!SerialSettingsApplied /\ A!SerialPortRolledBack /\ A!BridgeFindsServer
<1> SUFFICES ASSUME ControlIInv
             PROVE  A!TypeOK /\ A!FileNamesServer /\ A!SerialSettingsApplied /\ A!SerialPortRolledBack /\ A!BridgeFindsServer
  OBVIOUS
<1>0. Typed /\ Ways /\ Locked /\ A!FileNamesServer /\ ControlAlone /\ ControlSerial
  BY DEF ControlIInv
<1>1. A!TypeOK
  BY <1>0 DEF Typed, Locked, A!TypeOK
<1>2. A!SerialSettingsApplied
  BY <1>0 DEF ControlSerial, Switching, Moving, A!SerialSettingsApplied
<1>3. A!SerialPortRolledBack
  BY <1>0 DEF ControlSerial, Moving, A!SerialPortRolledBack
<1>4. A!BridgeFindsServer
  BY <1>0 DEF ControlSerial, Looking, A!BridgeFindsServer
<1> QED  BY <1>0, <1>1, <1>2, <1>3, <1>4

\* The control server is as its settings and its file say, for any number of
\* commands, calls of the bridge and ports: a command that is alone leaves it as it
\* was told to, a port that cannot be had is given back, and the bridge finds a
\* server that runs all the while. (agent.rs, portfile.rs, discovery.rs)
THEOREM ControlServerFollows == A!Spec => []ControlFollows
<1>1. A!Spec => []ControlIInv
  BY InitIInv, NextIInv, PTL DEF A!Spec
<1>2. ControlIInv => ControlFollows
  BY IInvGives DEF ControlFollows
<1> QED  BY <1>1, <1>2, PTL

-----------------------------------------------------------------------------
(* Imports that come in through the bridge *)

\* The instance names the operator anew.
LEMMA SameCardinality == \A S : I!Cardinality(S) = Cardinality(S)
  BY DEF I!Cardinality, Cardinality

Spots == {"idle", "resolve", "make", "base", "save", "tell", "done"}
Ends5 == {"none", "refused", "error", "ok", "gone"}
Url == Origin \cup {None}

ImportTyped ==
  /\ step \in [Import -> Spots] /\ answer \in [Import -> Ends5]
  /\ wants \in [Import -> Project \cup {None}] /\ origin \in [Import -> Origin]
  /\ chosen \in [Import -> Project \cup {None}]
  /\ base \in [Import -> Url] /\ other \in [Import -> Nat] /\ told \in [Import -> Url]
  /\ warned \subseteq Import /\ projects \subseteq Project
  /\ baseUrl \in [Project -> Url] /\ variable \in [Project -> Nat]
  /\ endpoints \subseteq Import /\ events \subseteq Import /\ lost \subseteq Import
  /\ made \subseteq Project /\ alone \subseteq Import

\* How an import that is under way has come where it is.
UnderWay ==
  \A i \in Import :
    /\ answer[i] # "none" => step[i] = "done"
    /\ step[i] \in {"base", "save", "tell"} => chosen[i] \in Project
    /\ step[i] \in {"idle", "resolve", "make"} => base[i] = None /\ other[i] = 0
    /\ step[i] \in {"idle", "resolve", "make", "base"} => i \notin warned
    /\ step[i] = "tell" => i \in endpoints \cup lost

Active(i) == step[i] \notin {"idle", "done"}

\* An import nothing has happened beside.
Calm ==
  \A i \in alone :
    /\ alone = {i} /\ step[i] # "idle" /\ \A j \in Import : j # i => ~ Active(j)
    /\ step[i] = "base" => base[i] = baseUrl[chosen[i]] /\ other[i] = variable[chosen[i]]
    /\ step[i] \in {"save", "tell"} \/ answer[i] = "ok" =>
         told[i] = baseUrl[chosen[i]] /\ (i \in warned <=> told[i] # origin[i])

\* While imports never overlapped and nothing was deleted.
Tidy ==
  tidy = "yes" =>
    /\ \A i, j \in Import : Active(i) /\ Active(j) => i = j
    /\ made \subseteq projects
    /\ \A i \in Import : step[i] = "make" => projects = {}
    /\ \E p : made \subseteq {p}

ImportIInv == ImportTyped /\ UnderWay /\ I!AnnouncedIsSaved /\ Calm /\ Tidy

Turn(i) == I!Begin(i) \/ I!Resolve(i) \/ I!Make(i) \/ I!SetBase(i) \/ I!Save(i) \/ I!Tell(i) \/ I!Abandon(i)

-----------------------------------------------------------------------------
(* Imports: their steps *)

LEMMA ImportInitIInv == I!Init => ImportIInv
<1> SUFFICES ASSUME I!Init PROVE ImportIInv
  OBVIOUS
<1>1. ImportTyped
  BY DEF I!Init, ImportTyped, Spots, Ends5, Url
<1>2. UnderWay /\ Calm /\ I!AnnouncedIsSaved
  BY DEF I!Init, UnderWay, Calm, I!AnnouncedIsSaved
<1>3. Tidy
  BY DEF I!Init, Tidy, Active
<1> QED  BY <1>1, <1>2, <1>3 DEF ImportIInv

\* What a look at the projects leads to.
LEMMA ResolveFacts ==
  ASSUME NEW i \in Import, I!Resolve(i)
  PROVE  /\ UNCHANGED <<wants, origin, told, warned, projects, baseUrl, variable, endpoints,
                        events, made, lost, tidy, alone>>
         /\ step[i] = "resolve"
         /\ \/ /\ step' = [step EXCEPT ![i] = "base"] /\ answer' = answer
               /\ \E p \in projects : /\ chosen' = [chosen EXCEPT ![i] = p]
                                      /\ base' = [base EXCEPT ![i] = baseUrl[p]]
                                      /\ other' = [other EXCEPT ![i] = variable[p]]
            \/ /\ step' = [step EXCEPT ![i] = "make"] /\ projects = {}
               /\ UNCHANGED <<answer, chosen, base, other>>
            \/ /\ step' = [step EXCEPT ![i] = "done"] /\ answer' = [answer EXCEPT ![i] = "refused"]
               /\ UNCHANGED <<chosen, base, other>>
<1> DEFINE fits == IF wants[i] # None THEN projects \cap {wants[i]} ELSE projects
<1>1. CASE I!Cardinality(fits) = 1
  BY <1>1 DEF I!Resolve, I!Goto, I!database
<1>2. CASE I!Cardinality(fits) # 1 /\ fits = {} /\ wants[i] = None
  BY <1>2 DEF I!Resolve, I!Goto, I!database
<1>3. CASE I!Cardinality(fits) # 1 /\ ~ (fits = {} /\ wants[i] = None)
  BY <1>3 DEF I!Resolve, I!Goto, I!Ends, I!database
<1> QED  BY <1>1, <1>2, <1>3

LEMMA TypedTurn == ASSUME ImportTyped, UnderWay, NEW i \in Import, Turn(i) PROVE ImportTyped'
<1> USE DEF ImportTyped, I!Goto, I!Ends, Spots, Ends5, Url
<1>Begin. CASE I!Begin(i)
  BY <1>Begin DEF I!Begin, I!database, I!import, UnderWay
<1>Resolve. CASE I!Resolve(i)
  BY <1>Resolve, ResolveFacts
<1>Make. CASE I!Make(i)
  BY <1>Make DEF I!Make, I!database, I!import, UnderWay
<1>SetBase. CASE I!SetBase(i)
  BY <1>SetBase DEF I!SetBase, I!database, I!import, UnderWay
<1>Save. CASE I!Save(i)
  BY <1>Save DEF I!Save, I!database, I!import, UnderWay
<1>Tell. CASE I!Tell(i)
  BY <1>Tell DEF I!Tell, I!database, I!import, UnderWay
<1>Abandon. CASE I!Abandon(i)
  BY <1>Abandon DEF I!Abandon, I!database, I!import, UnderWay
<1> QED  BY <1>Begin, <1>Resolve, <1>Make, <1>SetBase, <1>Save, <1>Tell, <1>Abandon DEF Turn

LEMMA UnderWayTurn == ASSUME ImportTyped, UnderWay, NEW i \in Import, Turn(i) PROVE UnderWay'
<1> USE DEF I!Goto, I!Ends, Spots, Ends5, Url
<1>Begin. CASE I!Begin(i)
  BY <1>Begin DEF I!Begin, I!database, UnderWay, ImportTyped
<1>Resolve. CASE I!Resolve(i)
  BY <1>Resolve, ResolveFacts DEF UnderWay, ImportTyped
<1>Make. CASE I!Make(i)
  BY <1>Make DEF I!Make, I!database, UnderWay, ImportTyped
<1>SetBase. CASE I!SetBase(i)
  BY <1>SetBase DEF I!SetBase, I!database, UnderWay, ImportTyped
<1>Save. CASE I!Save(i)
  BY <1>Save DEF I!Save, I!database, UnderWay, ImportTyped
<1>Tell. CASE I!Tell(i)
  BY <1>Tell DEF I!Tell, I!database, UnderWay, ImportTyped
<1>Abandon. CASE I!Abandon(i)
  BY <1>Abandon DEF I!Abandon, I!database, UnderWay, ImportTyped
<1> QED  BY <1>Begin, <1>Resolve, <1>Make, <1>SetBase, <1>Save, <1>Tell, <1>Abandon DEF Turn

LEMMA AnnouncedTurn ==
  ASSUME ImportTyped, UnderWay, I!AnnouncedIsSaved, NEW i \in Import, Turn(i)
  PROVE  I!AnnouncedIsSaved'
<1> USE DEF I!Goto, I!Ends, Ends5
<1>Begin. CASE I!Begin(i)
  BY <1>Begin DEF I!Begin, I!database, UnderWay, ImportTyped, I!AnnouncedIsSaved
<1>Resolve. CASE I!Resolve(i)
  BY <1>Resolve, ResolveFacts DEF UnderWay, ImportTyped, I!AnnouncedIsSaved
<1>Make. CASE I!Make(i)
  BY <1>Make DEF I!Make, I!database, UnderWay, ImportTyped, I!AnnouncedIsSaved
<1>SetBase. CASE I!SetBase(i)
  BY <1>SetBase DEF I!SetBase, I!database, UnderWay, ImportTyped, I!AnnouncedIsSaved
<1>Save. CASE I!Save(i)
  BY <1>Save DEF I!Save, I!database, UnderWay, ImportTyped, I!AnnouncedIsSaved
<1>Tell. CASE I!Tell(i)
  BY <1>Tell DEF I!Tell, I!database, UnderWay, ImportTyped, I!AnnouncedIsSaved
<1>Abandon. CASE I!Abandon(i)
  BY <1>Abandon DEF I!Abandon, I!database, UnderWay, ImportTyped, I!AnnouncedIsSaved
<1> QED  BY <1>Begin, <1>Resolve, <1>Make, <1>SetBase, <1>Save, <1>Tell, <1>Abandon DEF Turn

LEMMA CalmTurn == ASSUME ImportTyped, UnderWay, Calm, NEW i \in Import, Turn(i) PROVE Calm'
<1> USE DEF I!Goto, I!Ends, Spots, Ends5, Url, Active
<1>1. ASSUME ~ I!Begin(i), NEW j \in alone PROVE j = i
  BY <1>1, ResolveFacts DEF Turn, Calm, Active, I!Make, I!SetBase, I!Save, I!Tell, I!Abandon
<1>Begin. CASE I!Begin(i)
  BY <1>Begin DEF I!Begin, I!database, UnderWay, ImportTyped, Calm
<1>Resolve. CASE I!Resolve(i)
  BY <1>1, <1>Resolve, ResolveFacts DEF UnderWay, ImportTyped, Calm
<1>Make. CASE I!Make(i)
  BY <1>1, <1>Make DEF I!Make, I!database, UnderWay, ImportTyped, Calm
<1>SetBase. CASE I!SetBase(i)
  BY <1>1, <1>SetBase DEF I!SetBase, I!database, UnderWay, ImportTyped, Calm
<1>Save. CASE I!Save(i)
  BY <1>1, <1>Save DEF I!Save, I!database, UnderWay, ImportTyped, Calm
<1>Tell. CASE I!Tell(i)
  BY <1>1, <1>Tell DEF I!Tell, I!database, UnderWay, ImportTyped, Calm
<1>Abandon. CASE I!Abandon(i)
  BY <1>1, <1>Abandon DEF I!Abandon, I!database, UnderWay, ImportTyped, Calm
<1> QED  BY <1>Begin, <1>Resolve, <1>Make, <1>SetBase, <1>Save, <1>Tell, <1>Abandon DEF Turn

LEMMA TidyTurn == ASSUME ImportTyped, UnderWay, Tidy, NEW i \in Import, Turn(i) PROVE Tidy'
<1> USE DEF I!Goto, I!Ends, Spots, Ends5, Url
\* A step that goes on, and neither decides to make a project nor takes one away.
<1>On. ASSUME NEW t \in Spots \ {"make"}, step[i] \notin {"idle", "done"},
              step' = [step EXCEPT ![i] = t], tidy' = tidy, made' = made, projects \subseteq projects'
       PROVE  Tidy'
  <2>1. step'[i] # "make" /\ \A n \in Import \ {i} : step'[n] = step[n]
    BY ONLY <1>On, ImportTyped DEF ImportTyped
  <2>2. \A n \in Import : Active(n)' => Active(n)
    BY ONLY <2>1, <1>On DEF Active
  <2>3. \A n \in Import : tidy = "yes" => step'[n] # "make"
    BY ONLY <2>1, <1>On, Tidy, i \in Import DEF Tidy, Active
  <2> QED  BY ONLY <1>On, <2>2, <2>3, Tidy DEF Tidy
<1>Begin. CASE I!Begin(i)
  BY <1>Begin DEF I!Begin, I!database, UnderWay, ImportTyped, Tidy, Active
<1>Resolve. CASE I!Resolve(i)
  <2>1. /\ UNCHANGED <<projects, made, tidy>> /\ step[i] = "resolve"
        /\ \/ \E t \in {"base", "done"} : step' = [step EXCEPT ![i] = t]
           \/ step' = [step EXCEPT ![i] = "make"] /\ projects = {}
    BY <1>Resolve, ResolveFacts
  <2>2. CASE \E t \in {"base", "done"} : step' = [step EXCEPT ![i] = t]
    BY <2>1, <2>2, <1>On
  <2>3. CASE step' = [step EXCEPT ![i] = "make"] /\ projects = {}
    <3>1. \A n \in Import : Active(n)' => Active(n)
      BY ONLY <2>1, <2>3, ImportTyped DEF Active, ImportTyped
    <3> QED  BY ONLY <2>1, <2>3, <3>1, Tidy DEF Tidy
  <2> QED  BY <2>1, <2>2, <2>3
<1>Make. CASE I!Make(i)
  BY <1>Make DEF I!Make, I!database, UnderWay, ImportTyped, Tidy, Active
<1>SetBase. CASE I!SetBase(i)
  BY <1>SetBase, <1>On DEF I!SetBase, I!database
<1>Save. CASE I!Save(i)
  BY <1>Save, <1>On DEF I!Save, I!database
<1>Tell. CASE I!Tell(i)
  BY <1>Tell, <1>On DEF I!Tell, I!database
<1>Abandon. CASE I!Abandon(i)
  BY <1>Abandon, <1>On DEF I!Abandon, I!database
<1> QED  BY <1>Begin, <1>Resolve, <1>Make, <1>SetBase, <1>Save, <1>Tell, <1>Abandon DEF Turn

LEMMA UserKeeps ==
  ASSUME ImportIInv, NEW p \in Project, I!Delete(p) \/ \E u \in Url : I!Edit(p, u) PROVE ImportIInv'
<1>0. ImportTyped /\ UnderWay /\ I!AnnouncedIsSaved /\ Calm /\ Tidy
  BY DEF ImportIInv
<1>1. CASE I!Delete(p)
  <2>1. ImportTyped'
    BY <1>0, <1>1 DEF I!Delete, ImportTyped, I!import
  <2>2. UnderWay' /\ I!AnnouncedIsSaved'
    BY <1>0, <1>1 DEF I!Delete, UnderWay, I!AnnouncedIsSaved, I!import
  <2>3. Calm' /\ Tidy'
    BY <1>1 DEF I!Delete, Calm, Tidy
  <2> QED  BY <2>1, <2>2, <2>3 DEF ImportIInv
<1>2. ASSUME NEW u \in Url, I!Edit(p, u) PROVE ImportIInv'
  <2>1. ImportTyped'
    BY <1>0, <1>2 DEF I!Edit, ImportTyped, I!import
  <2>2. UnderWay' /\ I!AnnouncedIsSaved'
    BY <1>0, <1>2 DEF I!Edit, UnderWay, I!AnnouncedIsSaved, I!import
  <2>3. Calm' /\ Tidy'
    BY <1>0, <1>2 DEF I!Edit, Calm, Tidy, I!import, Active
  <2> QED  BY <2>1, <2>2, <2>3 DEF ImportIInv
<1> QED  BY <1>1, <1>2

LEMMA ImportNextIInv == ImportIInv /\ [I!Next]_(I!vars) => ImportIInv'
<1> SUFFICES ASSUME ImportIInv, [I!Next]_(I!vars) PROVE ImportIInv'
  OBVIOUS
<1>1. ASSUME NEW i \in Import, Turn(i) PROVE ImportIInv'
  BY <1>1, TypedTurn, UnderWayTurn, AnnouncedTurn, CalmTurn, TidyTurn DEF ImportIInv
<1>2. CASE UNCHANGED I!vars
  <2>1. ImportTyped' /\ UnderWay' /\ I!AnnouncedIsSaved'
    BY <1>2 DEF I!vars, I!import, I!database, ImportIInv, ImportTyped, UnderWay, I!AnnouncedIsSaved
  <2>2. Calm' /\ Tidy'
    BY <1>2 DEF I!vars, I!import, I!database, ImportIInv, Calm, Tidy, Active
  <2> QED  BY <2>1, <2>2 DEF ImportIInv
<1> QED  BY <1>1, <1>2, UserKeeps DEF I!Next, Turn, Url

LEMMA ImportIInvGives == ImportIInv => I!AnnouncedIsSaved /\ I!SerialAnswerIsTrue /\ I!SerialMakesOneProject
<1> SUFFICES ASSUME ImportIInv PROVE I!AnnouncedIsSaved /\ I!SerialAnswerIsTrue /\ I!SerialMakesOneProject
  OBVIOUS
<1>1. I!SerialAnswerIsTrue
  BY DEF ImportIInv, Calm, I!SerialAnswerIsTrue
<1>2. I!SerialMakesOneProject
  <2> SUFFICES ASSUME tidy = "yes" PROVE Cardinality(made) <= 1
    BY SameCardinality DEF I!SerialMakesOneProject
  <2>1. PICK p : made \subseteq {p}
    BY DEF ImportIInv, Tidy
  <2>2. IsFiniteSet({p}) /\ Cardinality({p}) = 1
    BY FS_Singleton
  <2>3. Cardinality(made) <= Cardinality({p})
    BY <2>1, <2>2, FS_Subset
  <2> QED  BY <2>2, <2>3
<1> QED  BY <1>1, <1>2 DEF ImportIInv

\* An import that is alone writes back what it read.
LEMMA StepKeepsVariables ==
  ImportIInv /\ [I!Next]_(I!vars) =>
    \A i \in alone : step[i] = "base" /\ step'[i] = "save" =>
       /\ variable' = variable
       /\ \A p \in Project : baseUrl'[p] # baseUrl[p] => baseUrl[p] = None
<1> SUFFICES ASSUME ImportIInv, [I!Next]_(I!vars), NEW i \in alone, step[i] = "base", step'[i] = "save"
             PROVE  /\ variable' = variable
                    /\ \A p \in Project : baseUrl'[p] # baseUrl[p] => baseUrl[p] = None
  OBVIOUS
<1>0. ImportTyped /\ UnderWay /\ Calm /\ i \in Import
  BY DEF ImportIInv, ImportTyped
<1>1. ASSUME NEW j \in Import, Turn(j) PROVE I!SetBase(i)
  <2>1. j = i
    BY <1>0, <1>1, ResolveFacts DEF Turn, I!Begin, I!Make, I!SetBase, I!Save, I!Tell, I!Abandon,
         I!Goto, I!Ends, ImportTyped
  <2> QED
    BY <1>0, <1>1, <2>1, ResolveFacts DEF Turn, I!Begin, I!Make, I!Save, I!Tell, I!Abandon,
         I!Goto, I!Ends, ImportTyped, Spots
<1>2. CASE I!SetBase(i)
  <2>1. base[i] = baseUrl[chosen[i]] /\ other[i] = variable[chosen[i]] /\ chosen[i] \in Project
    BY <1>0 DEF Calm, UnderWay
  <2> QED  BY <1>0, <1>2, <2>1 DEF I!SetBase, I!database, ImportTyped
<1>3. ASSUME NEW p \in Project, I!Delete(p) \/ \E u \in Origin \cup {None} : I!Edit(p, u) PROVE FALSE
  BY <1>3 DEF I!Delete, I!Edit, I!import
<1>4. ~ UNCHANGED I!vars
  BY DEF I!vars, I!import
<1> QED  BY <1>1, <1>2, <1>3, <1>4 DEF I!Next, Turn

\* Imports save what they announce, answer truly when they are alone, make one
\* project between them and keep the variables of others, for any number of imports,
\* projects and origins. (crates/fox-agent/server.rs)
THEOREM ImportsAreTrue == I!Spec => ImportsTrue
<1>1. I!Spec => []ImportIInv
  BY ImportInitIInv, ImportNextIInv, PTL DEF I!Spec
<1>2. I!Spec => [](I!AnnouncedIsSaved /\ I!SerialAnswerIsTrue /\ I!SerialMakesOneProject)
  BY <1>1, ImportIInvGives, PTL
<1>3. I!Spec => I!SerialImportKeepsVariables
  BY <1>1, StepKeepsVariables, PTL DEF I!Spec, I!SerialImportKeepsVariables
<1> QED  BY <1>2, <1>3 DEF ImportsTrue

===============================================================================
