------------------------------ MODULE Sessions ------------------------------
(***************************************************************************)
(* How a connection's calls, which run at once in one worker, sign in and  *)
(* recover when the system has ended their session: a token, a login       *)
(* cookie or, for SAP, the session cookie and its CSRF token.  Each        *)
(* connector retries a refused request once; what is refused again is a    *)
(* permanent error, which no activity retries.                             *)
(*                                                                         *)
(* The system ends all its sessions at once, and a token given out before  *)
(* is refused from then on; so is one the connector still holds for live.  *)
(* A token is also replaced when its lifetime is over, which the connector *)
(* counts itself.  SAP starts a session for every request that names none, *)
(* a read's too, and its cookie is the one all later requests carry.       *)
(***************************************************************************)
EXTENDS Naturals, Sequences, FiniteSets

CONSTANTS
  SessionApi,     \* the systems checked
  SessionCall,    \* calls of the worker
  MaxEnded,       \* bound: times the system ends its sessions
  MaxGrants,      \* bound: tokens given out
  MaxSids         \* bound: SAP sessions

ASSUME SessionsAssumption == {MaxEnded, MaxGrants, MaxSids} \subseteq Nat

VARIABLES
  api,         \* the system the connection is for
  ended,       \* external: times the system ended its sessions
  revoked,     \* external: the credentials were taken back
  sids,        \* external: SAP sessions so far, and those that are open
  openSids,
  grants,      \* external: for each token, the endings before it
  cached,      \* the token or login cookie calls share, 0: none
  stale,       \* its lifetime is over
  csrf, jar,   \* SAP: the CSRF token and the session cookie, 0: none
  scall        \* the calls

tokenState == <<grants, cached, stale>>
sapState == <<sids, openSids, csrf, jar>>
sessionVars == <<api, ended, revoked, tokenState, sapState, scall>>

\* first, overlapped and endedAgain are history: the token of the first try,
\* whether another call was under way meanwhile, and whether the sessions
\* ended during the second try.
NoSend == [pc |-> "idle", reads |-> FALSE, token |-> 0, csrf |-> 0,
           retried |-> FALSE, answer |-> "none", cookie |-> 0,
           first |-> 0, overlapped |-> FALSE, endedAgain |-> FALSE]

\* Static credentials: an API key, a password or a signature per request.
Static == {"odoo", "netsuite", "hubspot", "stripe", "shop", "sap"}

\* Salesforce's token has no lifetime the connector knows of.
Lasting == {"salesforce"}

SessionsTypeOK ==
  /\ api \in SessionApi
  /\ ended \in 0..MaxEnded /\ revoked \in BOOLEAN
  /\ sids \in 0..MaxSids /\ openSids \subseteq 1..sids
  /\ grants \in Seq(0..ended) /\ Len(grants) <= MaxGrants
  /\ cached \in 0..Len(grants) /\ stale \in BOOLEAN
  /\ csrf \in 0..sids /\ jar \in 0..sids
  /\ \A c \in SessionCall :
       /\ scall[c].pc \in {"idle", "apply", "send", "answer", "ok", "refused", "failed"}
       /\ {scall[c].token, scall[c].first} \subseteq 0..Len(grants)
       /\ {scall[c].csrf, scall[c].cookie} \subseteq 0..sids
       /\ {scall[c].reads, scall[c].retried} \subseteq BOOLEAN
       /\ {scall[c].overlapped, scall[c].endedAgain} \subseteq BOOLEAN
       /\ scall[c].answer \in {"none", "ok", "unauthorized", "required"}

SessionsInit ==
  /\ api \in SessionApi
  /\ ended = 0 /\ revoked = FALSE /\ sids = 0 /\ openSids = {}
  /\ grants = <<>> /\ cached = 0 /\ stale = FALSE /\ csrf = 0 /\ jar = 0
  /\ scall = [c \in SessionCall |-> NoSend]

-----------------------------------------------------------------------------
(* The system. *)

InProgress(c) == scall[c].pc \in {"apply", "send", "answer"}

\* A restart, a timeout or an administrator ends every session.
EndSessions ==
  /\ ended < MaxEnded
  /\ ended' = ended + 1 /\ openSids' = {}
  /\ scall' = [c \in SessionCall |->
                 IF InProgress(c) /\ scall[c].retried
                   THEN [scall[c] EXCEPT !.endedAgain = TRUE] ELSE scall[c]]
  /\ UNCHANGED <<api, revoked, sids, tokenState, csrf, jar>>

Revoke ==
  /\ ~revoked /\ revoked' = TRUE
  /\ UNCHANGED <<api, ended, tokenState, sapState, scall>>

GoodToken(t) == grants[t] = ended

\* What each system accepts a request with.
BcServes(c) == GoodToken(scall[c].token)
DataverseServes(c) == GoodToken(scall[c].token)
QboServes(c) == GoodToken(scall[c].token)
XeroServes(c) == GoodToken(scall[c].token)
B1Serves(c) == GoodToken(scall[c].token)
SalesforceServes(c) == GoodToken(scall[c].token)
MeshServes(c) == GoodToken(scall[c].token)
NetsuiteServes(c) == ~revoked
HubspotServes(c) == ~revoked
StripeServes(c) == ~revoked
ShopServes(c) == ~revoked
OdooServes(c) == ~revoked

Accepted(c) ==
  CASE api = "bc"         -> BcServes(c)
    [] api = "dataverse"  -> DataverseServes(c)
    [] api = "qbo"        -> QboServes(c)
    [] api = "xero"       -> XeroServes(c)
    [] api = "b1"         -> B1Serves(c)
    [] api = "salesforce" -> SalesforceServes(c)
    [] api = "mesh"       -> MeshServes(c)
    [] api = "netsuite"   -> NetsuiteServes(c)
    [] api = "hubspot"    -> HubspotServes(c)
    [] api = "stripe"     -> StripeServes(c)
    [] api = "shop"       -> ShopServes(c)
    [] api = "odoo"       -> OdooServes(c)

SessionAnswers(c, answer, cookie) ==
  scall' = [scall EXCEPT ![c].pc = "answer", ![c].answer = answer, ![c].cookie = cookie]

TakesRequest(c) ==
  /\ scall[c].pc = "send" /\ api # "sap"
  /\ SessionAnswers(c, IF Accepted(c) THEN "ok" ELSE "unauthorized", 0)
  /\ UNCHANGED <<api, ended, revoked, tokenState, sapState>>

\* The session a request belongs to: the cookie's, or a new one.
S4Session ==
  IF jar \in openSids
    THEN UNCHANGED <<sids, openSids>>
    ELSE /\ sids < MaxSids /\ sids' = sids + 1
         /\ openSids' = openSids \cup {sids'}
S4Sid == IF jar \in openSids THEN jar ELSE sids + 1

\* A write must carry the CSRF token of its own session.
S4Serves(c) ==
  /\ scall[c].pc = "send" /\ api = "sap"
  /\ IF revoked
       THEN SessionAnswers(c, "unauthorized", 0) /\ UNCHANGED <<sids, openSids>>
       ELSE /\ S4Session
            /\ SessionAnswers(c, IF scall[c].reads \/ scall[c].csrf = S4Sid
                                   THEN "ok" ELSE "required",
                        IF S4Sid = jar THEN 0 ELSE S4Sid)
  /\ UNCHANGED <<api, ended, revoked, tokenState, csrf, jar>>

-----------------------------------------------------------------------------
(* The connectors. *)

\* Among the requests of SAP are reads, which carry no CSRF token.
StartCall(c) ==
  /\ scall[c].pc = "idle"
  /\ \E reads \in IF api = "sap" THEN BOOLEAN ELSE {FALSE} :
       scall' = [d \in SessionCall |->
                   IF d = c THEN [NoSend EXCEPT !.pc = "apply", !.reads = reads,
                                    !.overlapped = \E e \in SessionCall : InProgress(e)]
                   ELSE IF InProgress(d) THEN [scall[d] EXCEPT !.overlapped = TRUE]
                   ELSE scall[d]]
  /\ UNCHANGED <<api, ended, revoked, tokenState, sapState>>

Ends(c, how) == scall' = [scall EXCEPT ![c].pc = how]

Sends(c, token, cs) ==
  scall' = [scall EXCEPT ![c].pc = "send", ![c].token = token, ![c].csrf = cs,
                         ![c].first = IF @ = 0 THEN token ELSE @]

\* apply: a static credential, or the shared token, got first if there is
\* none that is live; the mutex is held while it is got.
ApplyStatic(c) ==
  /\ scall[c].pc = "apply" /\ api \in Static \ {"sap"}
  /\ Sends(c, 0, 0)
  /\ UNCHANGED <<api, ended, revoked, tokenState, sapState>>

\* time.Now().Before(a.expires) no longer holds.
Lapses ==
  /\ api \notin Static \cup Lasting
  /\ cached # 0 /\ ~stale /\ stale' = TRUE
  /\ UNCHANGED <<api, ended, revoked, grants, cached, sapState, scall>>

Logs(c) ==
  /\ scall[c].pc = "apply"
  /\ \/ /\ cached # 0 /\ ~stale
        /\ Sends(c, cached, 0) /\ UNCHANGED tokenState
     \/ /\ cached = 0 \/ stale
        /\ revoked /\ Ends(c, "refused") /\ UNCHANGED tokenState
     \/ /\ cached = 0 \/ stale
        /\ ~revoked /\ Len(grants) < MaxGrants
        /\ grants' = Append(grants, ended)
        /\ cached' = Len(grants') /\ stale' = FALSE
        /\ Sends(c, cached', 0)
  /\ UNCHANGED <<api, ended, revoked, sapState>>

ApplyOAuth2(c) == api \in {"bc", "dataverse", "mesh"} /\ Logs(c)
ApplyRefresh(c) == api \in {"qbo", "xero"} /\ Logs(c)
ApplySession(c) == api = "b1" /\ Logs(c)
ApplySalesforce(c) == api = "salesforce" /\ Logs(c)

\* A write's CSRF token: the one calls share, or one fetched for the
\* cookie's session.
CsrfToken(c) ==
  /\ scall[c].pc = "apply" /\ api = "sap"
  /\ \/ scall[c].reads /\ Sends(c, 0, 0) /\ UNCHANGED sapState
     \/ /\ ~scall[c].reads /\ csrf # 0
        /\ Sends(c, 0, csrf) /\ UNCHANGED sapState
     \/ /\ ~scall[c].reads /\ csrf = 0
        /\ revoked /\ Ends(c, "refused") /\ UNCHANGED sapState
     \/ /\ ~scall[c].reads /\ csrf = 0
        /\ ~revoked /\ S4Session
        /\ csrf' = S4Sid /\ jar' = S4Sid
        /\ Sends(c, 0, S4Sid)
  /\ UNCHANGED <<api, ended, revoked, tokenState>>

\* Mutant: the refused token stays the one to use.
InvalidateNothing(c) == UNCHANGED cached

\* invalidate: the refused token is dropped unless it was replaced since.
InvalidateSession(c) == cached' = IF cached = scall[c].token THEN 0 ELSE cached

TriesAgain(c) ==
  scall' = [scall EXCEPT ![c].pc = "apply", ![c].retried = TRUE, ![c].answer = "none"]

Closes(c) == Ends(c, IF scall[c].answer = "ok" THEN "ok" ELSE "refused")

Renewing(c) ==
  /\ scall[c].pc = "answer"
  /\ IF scall[c].answer = "unauthorized" /\ ~scall[c].retried
       THEN InvalidateSession(c) /\ TriesAgain(c)
       ELSE Closes(c) /\ UNCHANGED cached
  /\ UNCHANGED <<api, ended, revoked, grants, stale, sapState>>

RestDo(c) == api \in {"bc", "dataverse", "qbo", "xero", "b1"} /\ Renewing(c)
SalesforceSend(c) == api = "salesforce" /\ Renewing(c)
MeshCall(c) == api = "mesh" /\ Renewing(c)

\* A request with a static credential is not tried again.
StaticDo(c) ==
  /\ scall[c].pc = "answer" /\ api \in Static \ {"sap", "odoo"}
  /\ Closes(c)
  /\ UNCHANGED <<api, ended, revoked, tokenState, sapState>>
OdooCall(c) ==
  /\ scall[c].pc = "answer" /\ api = "odoo"
  /\ Closes(c)
  /\ UNCHANGED <<api, ended, revoked, tokenState, sapState>>

\* The answer's cookie replaces the jar's, and dropToken drops whatever
\* CSRF token is the current one.
SapDo(c) ==
  /\ scall[c].pc = "answer" /\ api = "sap"
  /\ jar' = IF scall[c].cookie = 0 THEN jar ELSE scall[c].cookie
  /\ IF scall[c].answer = "required" /\ ~scall[c].retried
       THEN csrf' = 0 /\ TriesAgain(c)
       ELSE Closes(c) /\ UNCHANGED csrf
  /\ UNCHANGED <<api, ended, revoked, sids, openSids, tokenState>>

\* No answer arrives: the activity is retried.
CallFails(c) ==
  /\ scall[c].pc = "answer"
  /\ Ends(c, "failed")
  /\ UNCHANGED <<api, ended, revoked, tokenState, sapState>>

SessionsNext ==
  \/ EndSessions \/ Revoke \/ Lapses
  \/ \E c \in SessionCall :
       \/ StartCall(c) \/ TakesRequest(c) \/ S4Serves(c)
       \/ ApplyStatic(c) \/ ApplyOAuth2(c) \/ ApplyRefresh(c) \/ ApplySession(c)
       \/ ApplySalesforce(c) \/ CsrfToken(c)
       \/ RestDo(c) \/ SalesforceSend(c) \/ MeshCall(c) \/ StaticDo(c)
       \/ OdooCall(c) \/ SapDo(c) \/ CallFails(c)

SessionsSpec == SessionsInit /\ [][SessionsNext]_sessionVars

-----------------------------------------------------------------------------
(* What calls give up on.  A request is refused for good (an error nothing *)
(* retries: writeguard.ErrInvalid) only if the credentials were revoked or *)
(* the sessions ended a second time: an ending the first try met costs no  *)
(* write, whenever it comes and whatever other calls do, but for two gaps. *)
(* The second try may go out with a token that another call got, after the *)
(* first one's lifetime, before the same ending: invalidate keeps it.  And *)
(* the cookie of another SAP call's answer may replace the one a write's   *)
(* CSRF token is for.  Both need another call under way.                   *)
OneEndingHealed ==
  \A c \in SessionCall :
    scall[c].pc = "refused" =>
      \/ revoked
      \/ api \notin Static /\ ended >= grants[scall[c].first] + 2
      \/ /\ api \notin Static \cup Lasting /\ scall[c].overlapped
         /\ scall[c].token # scall[c].first
         /\ grants[scall[c].token] = grants[scall[c].first]
      \/ api = "sap" /\ (scall[c].overlapped \/ scall[c].endedAgain)
=============================================================================
