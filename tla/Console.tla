------------------------------- MODULE Console -------------------------------
(***************************************************************************)
(* The console: people sign in, look at a run, decide on the write it is   *)
(* waiting to have approved, and start failed runs again.  What a page     *)
(* shows, the check that the run still waits for it, and the signal are    *)
(* three requests to Temporal, between which the run goes on, fails and    *)
(* is retried.  `turgon approve` and `turgon retry` act on the same run.   *)
(***************************************************************************)
EXTENDS Naturals, Sequences, FiniteSets

CONSTANTS
  ConsoleUser,      \* people
  ConsoleAuth,      \* the sign-ins checked: "dev", "proxy", "oidc"
  WriteSteps,       \* writes of the run, one after the other
  MaxLogins,        \* bound: sign-ins started
  MaxGroupChanges,  \* bound: changes at the identity provider
  MaxRetries,       \* bound: times the run is started again
  MaxDecisions      \* bound: approval signals sent to one attempt

ASSUME ConsoleAssumption ==
  /\ ConsoleAuth \subseteq {"dev", "proxy", "oidc"}
  /\ WriteSteps \in Nat \ {0} /\ {MaxLogins, MaxGroupChanges, MaxRetries, MaxDecisions} \subseteq Nat

VARIABLES
  signIn,        \* --auth
  groups,        \* external: each person's groups at the provider
  changes,       \* bound: group changes so far
  logins,        \* sign-ins started so far: each has a state, a nonce and a verifier
  loginCookie,   \* each browser's login cookie, 0: none
  codes,         \* redirects with a code on their way back: sign-ins by browser
  sessionCookie, \* each browser's session: its roles, or none
  agentRun,      \* whose agent write the run is, or none: a recipe's
  wrun,          \* the run
  signals,       \* approval signals the run has not read
  tab,           \* each person's page and request
  decided        \* history: the last decision the run acted on

signInVars == <<signIn, groups, changes, logins, loginCookie, codes, sessionCookie>>
consoleVars == <<signInVars, agentRun, wrun, signals, tab, decided>>

Role == {"approver", "operator"}
Nobody == "nobody"
NoSession == {"signed out"}

\* A request names its step, its content and who asked for it; its digest
\* is of all of it.
RequestOf(step, content) == [step |-> step, content |-> content, of |-> agentRun]
NoPage == [step |-> 0, content |-> 0, of |-> Nobody]
NoTab == [pc |-> "idle", page |-> NoPage]
Requests == [step : 0..WriteSteps, content : 0..(MaxRetries + 1), of : ConsoleUser \cup {Nobody}]

ConsoleTypeOK ==
  /\ signIn \in ConsoleAuth
  /\ groups \in [ConsoleUser -> SUBSET Role] /\ changes \in 0..MaxGroupChanges
  /\ logins \in 0..MaxLogins /\ loginCookie \in [ConsoleUser -> 0..logins]
  /\ codes \in [ConsoleUser -> SUBSET (1..logins)]
  /\ \A u \in ConsoleUser : sessionCookie[u] = NoSession \/ sessionCookie[u] \subseteq Role
  /\ agentRun \in ConsoleUser \cup {Nobody}
  /\ wrun.state \in {"running", "waiting", "failed", "completed"}
  /\ wrun.step \in 1..(WriteSteps + 1) /\ wrun.attempt \in 1..(MaxRetries + 1)
  /\ wrun.content \in 1..wrun.attempt
  /\ Len(signals) <= MaxDecisions
  /\ \A u \in ConsoleUser : /\ tab[u].pc \in {"idle", "signal", "record", "retry", "cli"}
                            /\ tab[u].page \in Requests

NewRun(attempt, content) ==
  [state |-> "running", step |-> 1, attempt |-> attempt, content |-> content]

ConsoleInit ==
  /\ signIn \in ConsoleAuth
  /\ groups = [u \in ConsoleUser |-> Role] /\ changes = 0
  /\ logins = 0 /\ loginCookie = [u \in ConsoleUser |-> 0]
  /\ codes = [u \in ConsoleUser |-> {}]
  /\ sessionCookie = [u \in ConsoleUser |-> NoSession]
  /\ agentRun \in ConsoleUser \cup {Nobody}
  /\ wrun = NewRun(1, 1) /\ signals = <<>>
  /\ tab = [u \in ConsoleUser |-> NoTab]
  /\ decided = {}

-----------------------------------------------------------------------------
(* Signing in *)

GroupsChange(u) ==
  /\ signIn # "dev" /\ changes < MaxGroupChanges /\ changes' = changes + 1
  /\ \E g \in SUBSET Role : g # groups[u] /\ groups' = [groups EXCEPT ![u] = g]
  /\ UNCHANGED <<signIn, logins, loginCookie, codes, sessionCookie,
                 agentRun, wrun, signals, tab, decided>>

\* The provider sends the browser back with a code.
Authorize(u, n) == codes' = [codes EXCEPT ![u] = @ \cup {n}]

\* Another tab's sign-in takes the login cookie over.
Login(u) ==
  /\ signIn = "oidc" /\ logins < MaxLogins
  /\ logins' = logins + 1
  /\ loginCookie' = [loginCookie EXCEPT ![u] = logins']
  /\ Authorize(u, logins')
  /\ UNCHANGED <<signIn, groups, changes, sessionCookie,
                 agentRun, wrun, signals, tab, decided>>

\* The ID token names the person's groups at the moment the code, which is
\* taken once, is exchanged.
IdToken(u) == [groups |-> groups[u]]
UserOf(claims) == claims.groups \cap Role
Exchanged(u) == sessionCookie' = [sessionCookie EXCEPT ![u] = UserOf(IdToken(u))]

\* The login cookie is spent by the first redirect that arrives, also by
\* one it is not for.
Callback(u, n) ==
  /\ n \in codes[u]
  /\ codes' = [codes EXCEPT ![u] = @ \ {n}]
  /\ loginCookie' = [loginCookie EXCEPT ![u] = 0]
  /\ IF loginCookie[u] = n THEN Exchanged(u) ELSE UNCHANGED sessionCookie
  /\ UNCHANGED <<signIn, groups, changes, logins,
                 agentRun, wrun, signals, tab, decided>>

\* Signing out, or the end of --session-ttl.
SessionOver(u) ==
  /\ sessionCookie[u] # NoSession
  /\ sessionCookie' = [sessionCookie EXCEPT ![u] = NoSession]
  /\ UNCHANGED <<signIn, groups, changes, logins, loginCookie, codes,
                 agentRun, wrun, signals, tab, decided>>

\* Authenticate: the roles a request is made with.
ProxyRoles(u) == groups[u]
OidcRoles(u) == sessionCookie[u]
SignedIn(u) == signIn = "oidc" => sessionCookie[u] # NoSession
Roles(u) ==
  CASE signIn = "dev"   -> Role
    [] signIn = "proxy" -> ProxyRoles(u)
    [] OTHER            -> OidcRoles(u)

-----------------------------------------------------------------------------
(* The run, as Temporal runs it *)

Waiting == wrun.state = "waiting"
Pending == IF Waiting THEN RequestOf(wrun.step, wrun.content) ELSE NoPage

RunWaits ==
  /\ wrun.state = "running" /\ wrun.step <= WriteSteps
  /\ wrun' = [wrun EXCEPT !.state = "waiting"]
  /\ UNCHANGED <<signInVars, agentRun, signals, tab, decided>>

RunCompletes ==
  /\ wrun.state = "running" /\ wrun.step = WriteSteps + 1
  /\ wrun' = [wrun EXCEPT !.state = "completed"]
  /\ UNCHANGED <<signInVars, agentRun, signals, tab, decided>>

\* Nobody decided in time, or anything else failed.
RunFails ==
  /\ wrun.state \in {"running", "waiting"}
  /\ wrun' = [wrun EXCEPT !.state = "failed"]
  /\ signals' = <<>>
  /\ UNCHANGED <<signInVars, agentRun, tab, decided>>

\* Mutant: any decision about the step will do.
MatchesStep(sig) == sig.request.step = wrun.step

\* awaitApproval ignores a decision about another step or another request.
Matches(sig) == sig.request = Pending

AwaitApproval ==
  /\ Waiting /\ signals # <<>>
  /\ LET sig == Head(signals)
     IN  IF ~Matches(sig)
           THEN UNCHANGED <<wrun, decided>>
           ELSE /\ decided' =
                     {[made |-> Pending, about |-> sig.request, by |-> sig.by, via |-> sig.via]}
                /\ wrun' = IF sig.approve THEN [wrun EXCEPT !.state = "running", !.step = @ + 1]
                                          ELSE [wrun EXCEPT !.state = "failed"]
  /\ signals' = IF wrun'.state = "failed" THEN <<>> ELSE Tail(signals)
  /\ UNCHANGED <<signInVars, agentRun, tab>>

-----------------------------------------------------------------------------
(* The console's requests *)

Tab(u, t) == tab' = [tab EXCEPT ![u] = t]
Idle(u) == tab[u].pc = "idle"

GetRun(u) ==
  /\ Idle(u) /\ SignedIn(u)
  /\ tab[u].page # Pending
  /\ Tab(u, [tab[u] EXCEPT !.page = Pending])
  /\ UNCHANGED <<signInVars, agentRun, wrun, signals, decided>>

\* decide: an approver answers what the page shows, if the run still waits
\* for it and the write was not made for them.
Decide(u) ==
  /\ Idle(u) /\ "approver" \in Roles(u)
  /\ Waiting /\ tab[u].page = Pending
  /\ Pending.of # u
  /\ Tab(u, [tab[u] EXCEPT !.pc = "signal"])
  /\ UNCHANGED <<signInVars, agentRun, wrun, signals, decided>>

Signalled(u, sig) ==
  /\ IF wrun.state \in {"running", "waiting"}
       THEN Len(signals) < MaxDecisions /\ signals' = Append(signals, sig)
       ELSE UNCHANGED signals
  /\ Tab(u, NoTab)
  /\ UNCHANGED <<signInVars, agentRun, wrun, decided>>

Signal(u, approve) ==
  /\ tab[u].pc = "signal"
  /\ Signalled(u, [request |-> tab[u].page, by |-> u, via |-> "console", approve |-> approve])

\* `turgon approve` decides on whatever the run waits for.
ApproveCmd(u) ==
  /\ Idle(u) /\ Waiting
  /\ Tab(u, [tab[u] EXCEPT !.pc = "cli", !.page = Pending])
  /\ UNCHANGED <<signInVars, agentRun, wrun, signals, decided>>
ApproveSignal(u, approve) ==
  /\ tab[u].pc = "cli"
  /\ Signalled(u, [request |-> tab[u].page, by |-> u, via |-> "command", approve |-> approve])

Retryable == wrun.state = "failed"

\* retryRun: the run is looked up, the retry is recorded in the audit log
\* (which may fail), and only then made.
RetryRun(u) ==
  /\ Idle(u) /\ "operator" \in Roles(u) /\ Retryable
  /\ Tab(u, [tab[u] EXCEPT !.pc = "record"])
  /\ UNCHANGED <<signInVars, agentRun, wrun, signals, decided>>

RecordRetry(u) ==
  /\ tab[u].pc = "record"
  /\ \E pc \in {"retry", "idle"} : Tab(u, [tab[u] EXCEPT !.pc = pc])
  /\ UNCHANGED <<signInVars, agentRun, wrun, signals, decided>>

\* A new attempt may ask for something else: another master record, or the
\* mapping of another spec.  An agent's write is not started again.
Restarted ==
  /\ Retryable /\ agentRun = Nobody /\ wrun.attempt <= MaxRetries
  /\ \E content \in {wrun.content, wrun.content + 1} : wrun' = NewRun(wrun.attempt + 1, content)

Retry(u) ==
  /\ tab[u].pc = "retry"
  /\ Restarted \/ UNCHANGED wrun
  /\ Tab(u, [tab[u] EXCEPT !.pc = "idle"])
  /\ UNCHANGED <<signInVars, agentRun, signals, decided>>

RetryCmd ==
  /\ Restarted
  /\ UNCHANGED <<signInVars, agentRun, signals, tab, decided>>

ConsoleNext ==
  \/ RunWaits \/ RunCompletes \/ RunFails \/ AwaitApproval \/ RetryCmd
  \/ \E u \in ConsoleUser :
       \/ GroupsChange(u) \/ Login(u) \/ SessionOver(u)
       \/ \E n \in 1..MaxLogins : Callback(u, n)
       \/ GetRun(u) \/ Decide(u) \/ ApproveCmd(u)
       \/ \E approve \in BOOLEAN : Signal(u, approve) \/ ApproveSignal(u, approve)
       \/ RetryRun(u) \/ RecordRetry(u) \/ Retry(u)

ConsoleSpec == ConsoleInit /\ [][ConsoleNext]_consoleVars

-----------------------------------------------------------------------------
(* "A decision always refers to the exact request shown", and nobody       *)
(* decides on a write made on their own behalf: whatever the run did       *)
(* between the page, the check and the signal, a decision that it acts on  *)
(* and that came through the console is about the very request the person  *)
(* was looking at, which is somebody else's.                               *)
DecidedAsShown ==
  \A d \in decided :
    d.via = "console" => d.about = d.made /\ d.by # d.made.of
=============================================================================
