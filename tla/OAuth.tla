--------------------------------- MODULE OAuth ---------------------------------
(***************************************************************************)
(* Tokens of OAuth: the refreshes of a token (client.rs) beside the flows   *)
(* in the browser that make one (authorize_inner).  What they share is the  *)
(* cache, in which OAuthRefresh has the tokens of authorizations appear.    *)
(***************************************************************************)
EXTENDS OAuthRefresh

CONSTANTS
  Flow,     \* calls of oauth_authorize
  Nobody    \* no flow

ASSUME FlowAssumption == Nobody \notin Flow

VARIABLES where, turn, server, inbox, brought, tabs, port

flow == <<where, turn, server, inbox, brought, tabs, port>>

F == INSTANCE OAuthFlow WITH at <- where

\* The code a flow exchanges was brought by its own tab, and one flow goes on at
\* a time.
CodeIsOwn == F!TypeOK /\ F!CodeIsOwn
================================================================================
