------------------------------ MODULE HttpSession ------------------------------
(***************************************************************************)
(* What HTTP requests share: the jar of cookies (fox-http/src/cookie.rs),    *)
(* the clients that are rebuilt when the proxy changes (client.rs) and the  *)
(* setting that remembers it (commands/settings.rs).                        *)
(*                                                                          *)
(* Actors: requests, which take a client when they begin and meet the jar   *)
(* at every hop of a redirect; commands that set the proxy; the user, who   *)
(* lists and clears cookies; time; and an exit of the application.          *)
(***************************************************************************)
EXTENDS Naturals

CONSTANTS
  Req,      \* requests, each sent once
  Setter,   \* calls of set_http_proxy, of apply_saved_proxy at the start
  Proxy,    \* valid addresses of proxies
  Direct,   \* no proxy
  Host,     \* hosts, and the domains of cookies
  Above,    \* the pairs <<d, h>> of domains where h ends with .d
  Value,    \* values of cookies
  NoValue,  \* the empty one
  MaxTime,  \* bound: the hours that pass
  MaxCame   \* bound: the cookies that come

Name == {"sid"}
Path == {"/", "/api"}
Session == MaxTime + 1  \* the end of a cookie that has none

VARIABLES
  jar,      \* domain -> its cookies; the code keeps them in a list
  newest,   \* for the properties: what was last set under a domain, name and path
  came,     \* cookies that came
  clock,
  at,       \* of each request: "idle", "sent" or "done"
  client,   \* the client it took: its proxy, and whether it has the jar
  pair,     \* the proxy of the shared clients
  setting,  \* the one in the table
  step,     \* of each call that sets the proxy
  asked,    \* the proxy it sets
  calm      \* no two of them overlapped, and no write failed

cookies == <<jar, newest, came>>
proxies == <<pair, setting, step, asked, calm>>
vars == <<cookies, clock, at, client, proxies>>

Init ==
  /\ jar = [d \in Host |-> {}] /\ newest = << >> /\ came = 0 /\ clock = 0
  /\ at = [r \in Req |-> "idle"] /\ client = [r \in Req |-> [proxy |-> Direct, jar |-> "own"]]
  /\ pair = Direct /\ setting = Direct
  /\ step = [s \in Setter |-> "idle"] /\ asked = [s \in Setter |-> Direct] /\ calm = "yes"

---------------------------------------------------------------------------
(* The jar, under its lock. *)

Fresh(list) == {c \in list : c.ends > clock}

\* domain_matches
Matches(host, domain) == host = domain \/ <<domain, host>> \in Above

\* header_for: the cookies a request to a host carries.
HeaderFor(host) ==
  UNION {{[domain |-> d, name |-> c.name, path |-> c.path, value |-> c.value] :
            c \in {k \in Fresh(jar[d]) : k.value # NoValue}} :
         d \in {d \in Host : Matches(host, d)}}

\* Reading drops what has ended, of the domains that were looked at.
Read(domains) ==
  jar' = [d \in Host |-> IF d \in domains THEN Fresh(jar[d]) ELSE jar[d]]

Same(c, k) == c.name = k.name /\ c.path = k.path

\* Slip: cookies of one name replace each other.
StoredByName(list, cookie) == {c \in list : c.name # cookie.name} \cup {cookie}

\* store: the one with the same name and path is replaced, if there is one.
Stored(list, cookie) == {c \in list : ~Same(c, cookie)} \cup {cookie}

\* parse_set_cookie: the domain is the attribute or the host, the path the
\* attribute or the root.  One with Max-Age <= 0 is ignored, one that has ended
\* by its Expires is not.
Cookies(host) ==
  [domain : {host} \cup {d \in Host : <<d, host>> \in Above}, name : Name, path : Path,
   value : Value, ends : {0, 1, Session}]

---------------------------------------------------------------------------
(* Requests. *)

\* shared_client: the clients of the moment; with disable_cookies the empty jar.
Begin(r, host) ==
  /\ at[r] = "idle" /\ at' = [at EXCEPT ![r] = "sent"]
  /\ \E j \in {"own", "none"} :
       /\ client' = [client EXCEPT ![r] = [proxy |-> pair, jar |-> j]]
       /\ IF j = "own" THEN Read({d \in Host : Matches(host, d)}) ELSE UNCHANGED jar
  /\ UNCHANGED <<newest, came, clock, proxies>>

\* A response from a host, with a cookie or none; the last, or one that sends the
\* request on to another host.
Respond(r, host) ==
  /\ at[r] = "sent"
  /\ \/ UNCHANGED cookies
     \/ came < MaxCame /\ came' = came + 1 /\ \E c \in Cookies(host) :
          IF client[r].jar = "own"
          THEN /\ jar' = [jar EXCEPT ![c.domain] = Stored(@, c)]
               /\ newest' = [k \in DOMAIN newest \cup {<<c.domain, c.name, c.path>>} |->
                               IF k = <<c.domain, c.name, c.path>>
                               THEN [value |-> c.value, ends |-> c.ends] ELSE newest[k]]
          ELSE UNCHANGED <<jar, newest>>
  /\ at' \in {at, [at EXCEPT ![r] = "done"]}
  /\ UNCHANGED <<clock, client, proxies>>

\* cookie_list, with a part of the names of some domains.
List(domains) ==
  Read(domains) /\ UNCHANGED <<newest, came, clock, at, client, proxies>>

Covered(domain) == {d \in Host : d = domain \/ <<domain, d>> \in Above}

\* cookie_clear: a domain and those below it.
Clear(domain) ==
  /\ jar' = [d \in Host |-> IF d \in Covered(domain) THEN {} ELSE jar[d]]
  /\ newest' = [k \in {k \in DOMAIN newest : ~Matches(k[1], domain)} |-> newest[k]]
  /\ UNCHANGED <<came, clock, at, client, proxies>>

Pass == clock < MaxTime /\ clock' = clock + 1 /\ UNCHANGED <<cookies, at, client, proxies>>

---------------------------------------------------------------------------
(* set_http_proxy *)

Busy(s) == \E o \in Setter \ {s} : step[o] = "applied"

\* The address is checked and the clients rebuilt; the jar is another thing.
Apply(s) ==
  /\ step[s] = "idle" /\ step' = [step EXCEPT ![s] = "applied"]
  /\ \E p \in Proxy \cup {Direct} : asked' = [asked EXCEPT ![s] = p] /\ pair' = p
  /\ calm' = IF Busy(s) THEN "no" ELSE calm
  /\ UNCHANGED <<cookies, clock, at, client, setting>>

Persist(s) ==
  /\ step[s] = "applied" /\ step' = [step EXCEPT ![s] = "done"]
  /\ setting' = asked[s]
  /\ UNCHANGED <<cookies, clock, at, client, pair, asked, calm>>

\* The command fails with the proxy applied.
PersistFails(s) ==
  /\ step[s] = "applied" /\ step' = [step EXCEPT ![s] = "done"]
  /\ calm' = "no"
  /\ UNCHANGED <<cookies, clock, at, client, pair, setting, asked>>

\* The application exits and starts: the jar is gone, apply_saved_proxy.
Restart ==
  /\ jar' = [d \in Host |-> {}] /\ newest' = << >>
  /\ at' = [r \in Req |-> "done"] /\ step' = [s \in Setter |-> "done"]
  /\ pair' = setting
  /\ UNCHANGED <<came, clock, client, setting, asked, calm>>

Next ==
  \/ \E r \in Req, h \in Host : Begin(r, h) \/ Respond(r, h)
  \/ \E d \in Host : Clear(d)
  \/ \E D \in SUBSET Host : List(D)
  \/ \E s \in Setter : Apply(s) \/ Persist(s) \/ PersistFails(s)
  \/ Pass \/ Restart

Spec == Init /\ [][Next]_vars

---------------------------------------------------------------------------

\* A request to a host carries exactly what was last set under each domain, name
\* and path that concerns it, has not ended and was not cleared. (store,
\* header_for, clear)
CarriesNewest ==
  \A h \in Host :
    HeaderFor(h) =
      {[domain |-> k[1], name |-> k[2], path |-> k[3], value |-> newest[k].value] :
         k \in {k \in DOMAIN newest :
                  Matches(h, k[1]) /\ newest[k].ends > clock /\ newest[k].value # NoValue}}

\* At rest the clients use the proxy that a restart brings back, as long as no two
\* commands overlapped and no write failed. (set_http_proxy, apply_saved_proxy)
SerialProxyRestored ==
  calm = "yes" /\ (\A s \in Setter : step[s] # "applied") => pair = setting
=============================================================================
