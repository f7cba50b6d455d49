------------------------------- MODULE Tokens -------------------------------
(***************************************************************************)
(* An oauth2-refresh connection (pkg/connector/rest/auth.go) that several  *)
(* workers use: the server may replace the refresh token on every use, so  *)
(* the one in force lives in the database (pgstore.TokenVault), and a      *)
(* worker spends it and stores its successor under a lock all share.  A    *)
(* worker whose storing failed keeps the rotation in memory and hands it   *)
(* in on its next call.  The other connections that hold a token (client   *)
(* credentials, a login session, Salesforce's JWT) log in again, each      *)
(* worker for itself.                                                      *)
(*                                                                         *)
(* Refresh tokens are numbered, 1 being the seed in the secret, and so are *)
(* access tokens; 0 stands for none.                                       *)
(***************************************************************************)
EXTENDS Naturals

CONSTANTS
  TokenWorker,     \* worker processes
  AuthKind,        \* of "refresh", "oauth2", "session" and "salesforce"
  MaxAccess,       \* bound: access tokens the server gives out
  MaxTokenFaults   \* bound: lost answers, failed stores and crashes

ASSUME TokensAssumption == MaxAccess \in Nat /\ MaxTokenFaults \in Nat

VARIABLES
  auth,      \* how the connection authenticates
  live,      \* external: the refresh token the server accepts
  issued,    \* external: the access tokens it gave out are 1..issued
  expired,   \* access tokens past their expiry, which workers know
  row,       \* turgon_tokens: the stored tokens
  held,      \* the access token each worker uses
  rejected,  \* the access token the API last refused to a worker
  pending,   \* a rotation the store has not taken yet
  tpc,       \* where each worker's refreshed() is
  found,     \* the tokens it works with inside the transaction
  lost,      \* history: the server's last answer, or its only copy, was lost
  unsound,   \* history: some fault happened
  tokenFaults

serverVars == <<live, issued, expired>>
workerVars == <<held, rejected, pending>>
tokenVars == <<auth, serverVars, workerVars, row, tpc, found, lost, unsound,
               tokenFaults>>

Seed == 1
State == [refresh: Nat, access: Nat]
NoState == [refresh |-> 0, access |-> 0]
NoRotation == [spent |-> 0, state |-> NoState]

TokensTypeOK ==
  /\ auth \in AuthKind
  /\ live \in Nat /\ issued \in 0..MaxAccess
  /\ expired \subseteq 1..issued
  /\ row \in State
  /\ held \in [TokenWorker -> 0..issued]
  /\ rejected \in [TokenWorker -> 0..issued]
  /\ pending \in [TokenWorker -> [spent: Nat, state: State]]
  /\ tpc \in [TokenWorker -> {"idle", "grant", "store"}]
  /\ found \in [TokenWorker -> State]
  /\ lost \in BOOLEAN /\ unsound \in BOOLEAN
  /\ tokenFaults \in 0..MaxTokenFaults

TokensInit ==
  /\ auth \in AuthKind
  /\ live = Seed /\ issued = 0 /\ expired = {}
  /\ row = NoState
  /\ held = [w \in TokenWorker |-> 0]
  /\ rejected = [w \in TokenWorker |-> 0]
  /\ pending = [w \in TokenWorker |-> NoRotation]
  /\ tpc = [w \in TokenWorker |-> "idle"]
  /\ found = [w \in TokenWorker |-> NoState]
  /\ lost = FALSE /\ unsound = FALSE /\ tokenFaults = 0

TokenFault ==
  /\ tokenFaults < MaxTokenFaults
  /\ tokenFaults' = tokenFaults + 1
  /\ unsound' = TRUE

-----------------------------------------------------------------------------
(* refreshed(). *)

\* UpdateToken's advisory lock, for as long as the transaction runs.
VaultFree(w) == \A v \in TokenWorker : tpc[v] = "idle"

\* The stored tokens, or the seed of a connection that stored none yet.
Stored == IF row.refresh = 0 THEN [refresh |-> Seed, access |-> 0] ELSE row

\* A pending rotation whose spent token is still the stored one is the
\* rotation the store missed; otherwise the store moved on without it.
Missed(w) == pending[w].spent # 0 /\ Stored.refresh = pending[w].spent

Current(w) == IF Missed(w) THEN pending[w].state ELSE Stored

Usable(w, a) == a # 0 /\ a # rejected[w] /\ a \notin expired

NeedsToken(w) == held[w] = 0 \/ held[w] \in expired

\* A request needs a token and the worker has none that is good: the stored
\* tokens are read under the lock.
Refresh(w) ==
  /\ auth = "refresh" /\ VaultFree(w)
  /\ NeedsToken(w)
  /\ found' = [found EXCEPT ![w] = Current(w)]
  /\ pending' = [pending EXCEPT ![w] = IF Missed(w) THEN @ ELSE NoRotation]
  /\ tpc' = [tpc EXCEPT ![w] =
               IF Usable(w, Current(w).access) THEN "store" ELSE "grant"]
  /\ UNCHANGED <<auth, serverVars, row, held, rejected, lost, unsound,
                 tokenFaults>>

\* The token server takes the live refresh token, gives an access token and
\* may replace the refresh token.
ServerGrants(w) ==
  /\ found[w].refresh = live
  /\ issued < MaxAccess
  /\ issued' = issued + 1
  /\ live' \in {live, live + 1}
  /\ UNCHANGED expired

\* Mutant: a rotation that follows a pending one names the token it spent
\* itself, which the store never held.
SupersedeOwn(w) == found[w].refresh

\* What a stored token must be for this rotation to be the one it missed:
\* a rotation that follows a pending one supersedes it.
Supersede(w) ==
  IF pending[w].spent # 0 THEN pending[w].spent ELSE found[w].refresh

Grant(w) ==
  /\ tpc[w] = "grant"
  /\ ServerGrants(w)
  /\ LET state == [refresh |-> live', access |-> issued']
     IN  /\ found' = [found EXCEPT ![w] = state]
         /\ pending' = [pending EXCEPT ![w] = [spent |-> Supersede(w),
                                               state |-> state]]
  /\ tpc' = [tpc EXCEPT ![w] = "store"]
  /\ UNCHANGED <<auth, row, held, rejected, lost, unsound, tokenFaults>>

\* invalid_grant: the token was spent before.  Nothing is stored.
GrantRefused(w) ==
  /\ tpc[w] = "grant"
  /\ found[w].refresh # live
  /\ tpc' = [tpc EXCEPT ![w] = "idle"]
  /\ UNCHANGED <<auth, serverVars, workerVars, row, found, lost, unsound, tokenFaults>>

\* The server is out, or does its work and its answer never arrives.
GrantFails(w) ==
  /\ TokenFault
  /\ tpc[w] = "grant"
  /\ UNCHANGED serverVars \/ ServerGrants(w)
  /\ lost' = (lost \/ live' # live)
  /\ tpc' = [tpc EXCEPT ![w] = "idle"]
  /\ UNCHANGED <<auth, workerVars, row, found>>

\* The transaction commits: the worker has its token.
VaultStores(w) ==
  /\ tpc[w] = "store"
  /\ row' = found[w]
  /\ held' = [held EXCEPT ![w] = found[w].access]
  /\ pending' = [pending EXCEPT ![w] = NoRotation]
  /\ tpc' = [tpc EXCEPT ![w] = "idle"]
  /\ UNCHANGED <<auth, serverVars, rejected, found, lost, unsound,
                 tokenFaults>>

\* It rolls back, or commits without the worker hearing of it: the rotation
\* stays pending.
VaultFails(w) ==
  /\ TokenFault
  /\ tpc[w] = "store"
  /\ row' \in {row, found[w]}
  /\ tpc' = [tpc EXCEPT ![w] = "idle"]
  /\ UNCHANGED <<auth, serverVars, workerVars, found, lost>>

\* The worker process dies, with what it had in memory.
TokenWorkerDies(w) ==
  /\ TokenFault
  /\ lost' = \/ lost
             \/ pending[w].state.refresh = live /\ Stored.refresh # live
  /\ held' = [held EXCEPT ![w] = 0]
  /\ rejected' = [rejected EXCEPT ![w] = 0]
  /\ pending' = [pending EXCEPT ![w] = NoRotation]
  /\ tpc' = [tpc EXCEPT ![w] = "idle"]
  /\ UNCHANGED <<auth, serverVars, row, found>>

-----------------------------------------------------------------------------
(* The other authenticators: a login whenever there is no good token. *)

LogsIn(w) ==
  /\ NeedsToken(w) /\ issued < MaxAccess
  /\ issued' = issued + 1
  /\ held' = [held EXCEPT ![w] = issued']
  /\ UNCHANGED <<auth, live, expired, row, rejected, pending, tpc, found,
                 lost, unsound, tokenFaults>>

ClientCredentials(w) == auth = "oauth2" /\ LogsIn(w)
SessionLogin(w) == auth = "session" /\ LogsIn(w)
SalesforceLogin(w) == auth = "salesforce" /\ LogsIn(w)

-----------------------------------------------------------------------------
(* Access tokens end. *)

\* invalidate(): the API refuses a request that carried the worker's current
\* token.  A request with an older one changes nothing.
Invalidate(w) ==
  /\ tpc[w] = "idle" /\ held[w] # 0
  /\ rejected' = [rejected EXCEPT ![w] = held[w]]
  /\ held' = [held EXCEPT ![w] = 0]
  /\ UNCHANGED <<auth, serverVars, pending, row, tpc, found, lost, unsound,
                 tokenFaults>>

Expire(a) ==
  /\ expired' = expired \cup {a} /\ expired' # expired
  /\ UNCHANGED <<auth, live, issued, row, workerVars, tpc, found, lost, unsound,
                 tokenFaults>>

TokensNext ==
  \/ \E w \in TokenWorker :
       \/ Refresh(w) \/ Grant(w) \/ GrantRefused(w) \/ GrantFails(w)
       \/ VaultStores(w) \/ VaultFails(w) \/ TokenWorkerDies(w) \/ Invalidate(w)
       \/ ClientCredentials(w) \/ SessionLogin(w) \/ SalesforceLogin(w)
  \/ \E a \in 1..issued : Expire(a)

TokensSpec == TokensInit /\ [][TokensNext]_tokenVars

-----------------------------------------------------------------------------
(* Properties. *)

\* The connection survives: unless the server's answer or its only copy was
\* lost, the refresh token in force can be found, in the store or as the
\* pending rotation that its worker will hand in, also after several failed
\* stores in a row and with other workers refreshing in between.
RefreshTokenKept ==
  \/ lost
  \/ Stored.refresh = live
  \/ \E w \in TokenWorker : Missed(w) /\ pending[w].state.refresh = live

\* TokenStore's promise, "only one of them spends a single-use token": while
\* nothing failed, no worker offers the server a token that was spent.
SpentOnce == \A w \in TokenWorker : tpc[w] = "grant" =>
               unsound \/ found[w].refresh = live

\* The refresh token is kept and is spent once, whoever refreshes.
TokensSafe == RefreshTokenKept /\ SpentOnce
=============================================================================
