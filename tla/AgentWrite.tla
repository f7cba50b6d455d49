----------------------------- MODULE AgentWrite -----------------------------
(***************************************************************************)
(* The write of an AI agent (pkg/engine/agent.go, agentpush.go and         *)
(* pkg/agent): a workflow named after the agent's request ID prepares the  *)
(* write, waits for a person where the policy asks for one and commits it. *)
(* The agent starts it, asks again, follows it in a stream and registers   *)
(* URLs that are told where it stands; every one of these may come at any  *)
(* time and more than once.                                                *)
(*                                                                         *)
(* One request ID is modelled, under which callers may ask for different   *)
(* requests.  CommitWrite is the guard of WriteGuard: it has its effect at *)
(* most once for a key, and once its outcome is stored repeats that.  An   *)
(* attempt may be refused although an earlier one, whose answer was lost,  *)
(* has written the document: the policy and the target are asked again.    *)
(* (A key committed before, under another workflow, and a call that        *)
(* outlives its attempt are WriteGuard's.)                                 *)
(***************************************************************************)
EXTENDS Naturals, Sequences, FiniteSets

CONSTANTS
  AwCaller,        \* calls in progress: tool calls, polls and streams
  AwRequest,       \* requests they make under the ID
  NoRequest,
  PushId,          \* push configurations, by ID
  MaxPushConfigs,  \* MaxPushConfigs
  MaxPushSignals,  \* bound: changes of the push configurations
  MaxCommitTries,  \* bound: attempts of CommitWrite (8 in the code)
  MaxNotices       \* bound: copies of a notice a receiver may get

ASSUME AgentWriteAssumption ==
  /\ MaxPushConfigs \in Nat /\ MaxPushSignals \in Nat
  /\ MaxCommitTries \in Nat \ {0} /\ MaxNotices \in Nat

VARIABLES
  awRun,      \* the workflow: its request, where it is, how it ended
  awTries,    \* attempts of CommitWrite
  awDoc,      \* the request the target holds a document of
  awStored,   \* whether the guard's store has the outcome
  pushOn,     \* pushes.configs
  pushSets,   \* unhandled signals that set a configuration
  pushDels,   \* unhandled signals that delete one
  notifying,  \* receivers the pending notice still goes to
  outcomeTo,  \* receivers the "#outcome" workflow still serves
  inbox,      \* what each receiver got
  awCall,     \* the callers: what each asks and how far it is
  awTold      \* history: outcomes reported, and for which request

commitVars == <<awTries, awDoc, awStored>>
pushVars == <<pushOn, pushSets, pushDels>>
noticeVars == <<notifying, outcomeTo, inbox>>
agentWriteVars == <<awRun, commitVars, pushVars, noticeVars, awCall, awTold>>

Ended == {"committed", "denied", "rejected", "invalid", "failed"}
RunAt == {"none", "prepare", "notify", "wait", "commit", "outcome", "done"}
Running == RunAt \ {"none", "done"}
IdleCall == [at |-> "idle", req |-> NoRequest, push |-> {}]

AgentWriteTypeOK ==
  /\ awRun \in [req: AwRequest \cup {NoRequest}, at: RunAt,
                end: Ended \cup {"none"}, approved: BOOLEAN]
  /\ awTries \in 0..MaxCommitTries
  /\ awDoc \in AwRequest \cup {NoRequest} /\ awStored \in BOOLEAN
  /\ pushOn \subseteq PushId /\ Cardinality(pushOn) <= MaxPushConfigs
  /\ pushSets \in Seq(PushId) /\ pushDels \in Seq(PushId)
  /\ notifying \subseteq PushId /\ outcomeTo \subseteq PushId
  /\ inbox \in [PushId -> Seq({"pending", "outcome"})]
  /\ awCall \in [AwCaller -> [at: {"idle", "wait", "describe", "query", "set"},
                              req: AwRequest \cup {NoRequest},
                              push: SUBSET PushId]]
  /\ awTold \subseteq [req: AwRequest, state: Ended]

AgentWriteInit ==
  /\ awRun = [req |-> NoRequest, at |-> "none", end |-> "none", approved |-> FALSE]
  /\ awTries = 0 /\ awDoc = NoRequest /\ awStored = FALSE
  /\ pushOn = {} /\ pushSets = <<>> /\ pushDels = <<>>
  /\ notifying = {} /\ outcomeTo = {}
  /\ inbox = [p \in PushId |-> <<>>]
  /\ awCall = [c \in AwCaller |-> IdleCall]
  /\ awTold = {}

-----------------------------------------------------------------------------
(* AgentWriteWorkflow. *)

\* The write ends; AgentWriteWorkflow hands its outcome to push.outcome.
EndWith(state) == awRun' = [awRun EXCEPT !.at = "outcome", !.end = state]

\* PrepareAgentWrite refuses, or fails in every attempt.
PrepareAgentFails(state) ==
  /\ awRun.at = "prepare"
  /\ state \in {"denied", "invalid", "failed"}
  /\ EndWith(state)
  /\ UNCHANGED <<commitVars, pushVars, noticeVars, awCall, awTold>>

\* Without approval, the write is committed at once; with it, the receivers
\* registered so far are told that it waits.
PrepareAgentOk(needsApproval) ==
  /\ awRun.at = "prepare"
  /\ awRun' = [awRun EXCEPT !.at = IF needsApproval THEN "notify" ELSE "commit",
                            !.approved = ~needsApproval]
  /\ notifying' = IF needsApproval THEN pushOn ELSE {}
  /\ UNCHANGED <<commitVars, pushVars, outcomeTo, inbox, awCall, awTold>>

\* deliver waits for every receiver, or for its last attempt.
Notified == notifying = {}

AwaitAgentApproval ==
  /\ awRun.at = "notify" /\ Notified
  /\ awRun' = [awRun EXCEPT !.at = "wait"]
  /\ UNCHANGED <<commitVars, pushVars, noticeVars, awCall, awTold>>

\* A person decides, or nobody within the timeout, which rejects.
AgentDecided(ok) ==
  /\ awRun.at = "wait"
  /\ awRun' = [awRun EXCEPT !.at = "commit", !.approved = ok]
  /\ UNCHANGED <<commitVars, pushVars, noticeVars, awCall, awTold>>

\* An attempt of CommitWrite: it commits, or finds that it had; it finds the
\* approval missing; it is refused for good, whatever an attempt before has
\* done, unless that was stored; or it fails, with or without its effect.
CommitAgentWrite ==
  /\ awRun.at = "commit"
  /\ awTries' = awTries + 1
  /\ \/ /\ awRun.approved
        /\ awDoc' = awRun.req /\ awStored' = TRUE /\ EndWith("committed")
     \/ /\ ~awRun.approved
        /\ UNCHANGED <<awDoc, awStored>> /\ EndWith("rejected")
     \/ /\ ~awStored
        /\ \E s \in {"denied", "invalid"} : EndWith(s)
        /\ UNCHANGED <<awDoc, awStored>>
     \/ /\ \/ UNCHANGED <<awDoc, awStored>>
           \/ awRun.approved /\ awDoc' = awRun.req /\ awStored' \in {awStored, TRUE}
        /\ IF awTries' < MaxCommitTries THEN UNCHANGED awRun ELSE EndWith("failed")
  /\ UNCHANGED <<pushVars, noticeVars, awCall, awTold>>

\* push.outcome starts the detached workflow for the receivers of this
\* moment, and the write's own workflow ends.
StartOutcome ==
  /\ awRun.at = "outcome"
  /\ outcomeTo' = pushOn
  /\ awRun' = [awRun EXCEPT !.at = "done"]
  /\ UNCHANGED <<commitVars, pushVars, notifying, inbox, awCall, awTold>>

-----------------------------------------------------------------------------
(* Push configurations and notices. *)

\* Mutant: the cap is left to OnSetTaskPushConfig.
RoomForAnyway(p) == TRUE

RoomFor(p) == p \in pushOn \/ Cardinality(pushOn) < MaxPushConfigs

\* The workflow's own coroutine.  The selector asks the channel of the set
\* signals first: of signals that arrived together, the order between
\* setting and deleting is lost.
HandlePushSignal ==
  /\ awRun.at \in Running
  /\ \/ /\ pushSets # <<>>
        /\ pushOn' = pushOn \cup (IF RoomFor(Head(pushSets))
                                  THEN {Head(pushSets)} ELSE {})
        /\ pushSets' = Tail(pushSets)
        /\ UNCHANGED pushDels
     \/ /\ pushSets = <<>> /\ pushDels # <<>>
        /\ pushOn' = pushOn \ {Head(pushDels)}
        /\ pushDels' = Tail(pushDels)
        /\ UNCHANGED pushSets
  /\ UNCHANGED <<awRun, commitVars, noticeVars, awCall, awTold>>

Received(p, notice) ==
  /\ Len(inbox[p]) < MaxNotices
  /\ inbox' = [inbox EXCEPT ![p] = Append(@, notice)]

\* Pusher.Push, for one receiver: the notice arrives, arrives without an
\* answer and is sent again, or is given up.
PushPending(p) ==
  /\ p \in notifying
  /\ \/ Received(p, "pending") /\ notifying' \in {notifying, notifying \ {p}}
     \/ notifying' = notifying \ {p} /\ UNCHANGED inbox
  /\ UNCHANGED <<awRun, commitVars, pushVars, outcomeTo, awCall, awTold>>

PushOutcome(p) ==
  /\ p \in outcomeTo
  /\ \/ Received(p, "outcome") /\ outcomeTo' \in {outcomeTo, outcomeTo \ {p}}
     \/ outcomeTo' = outcomeTo \ {p} /\ UNCHANGED inbox
  /\ UNCHANGED <<awRun, commitVars, pushVars, notifying, awCall, awTold>>

MorePush == Len(pushSets) + Len(pushDels) < MaxPushSignals

\* SetPush: the signal of a workflow that ended is refused.
SetPush(ps) ==
  IF awRun.at \in Running THEN \/ ps = {} /\ UNCHANGED pushSets
                               \/ /\ MorePush
                                  /\ \E p \in ps : pushSets' = Append(pushSets, p)
  ELSE UNCHANGED pushSets

\* OnSetTaskPushConfig asks for the configurations and, when there is room,
\* signals; others may have signalled in between.
OnSetTaskPushConfig(c, p) ==
  /\ awCall[c] = IdleCall /\ awRun.at # "none" /\ RoomFor(p)
  /\ awCall' = [awCall EXCEPT ![c] = [IdleCall EXCEPT !.at = "set", !.push = {p}]]
  /\ UNCHANGED <<awRun, commitVars, pushVars, noticeVars, awTold>>

SignalPushSet(c) ==
  /\ awCall[c].at = "set"
  /\ SetPush(awCall[c].push)
  /\ awCall' = [awCall EXCEPT ![c] = IdleCall]
  /\ UNCHANGED <<awRun, commitVars, pushOn, pushDels, noticeVars, awTold>>

OnDeleteTaskPushConfig(p) ==
  /\ awRun.at \in Running /\ MorePush
  /\ pushDels' = Append(pushDels, p)
  /\ UNCHANGED <<awRun, commitVars, pushOn, pushSets, noticeVars, awCall, awTold>>

-----------------------------------------------------------------------------
(* AgentWrites: asking for a write, and asking about it. *)

\* Mutant: any request under the ID is taken for the one started.
SameRequestAny(r) == TRUE

\* sameRequest: what the workflow was started with is what is asked.
SameRequest(r) == awRun.req = r

\* Submit starts the write, or joins the one started under the ID; it adds
\* its push configuration either way.
Submit(c, r, ps) ==
  /\ awCall[c] = IdleCall
  /\ \/ /\ awRun.at = "none"
        /\ awRun' = [awRun EXCEPT !.req = r, !.at = "prepare"]
        /\ pushOn' = {p \in ps : RoomFor(p)}
        /\ UNCHANGED pushSets
     \/ /\ awRun.at # "none" /\ SameRequest(r)
        /\ SetPush(ps)
        /\ UNCHANGED <<awRun, pushOn>>
  /\ awCall' = [awCall EXCEPT ![c] = [at |-> "wait", req |-> r, push |-> {}]]
  /\ UNCHANGED <<commitVars, pushDels, noticeVars, awTold>>

\* A tool call over MCP, which has no push configuration, and a message
\* over A2A, which may have one.
McpWrite(c, r) == Submit(c, r, {})
OnSendMessage(c, r, p) == Submit(c, r, {p})

\* Status and Watch.
AskAgain(c) ==
  /\ awCall[c] = IdleCall /\ awRun.at # "none"
  /\ awCall' = [awCall EXCEPT ![c] = [at |-> "wait", req |-> awRun.req, push |-> {}]]
  /\ UNCHANGED <<awRun, commitVars, pushVars, noticeVars, awTold>>

\* A poll of the task, and one round of a stream, as long as the stream has
\* not reported the outcome.
OnGetTask(c) == AskAgain(c)
Follow(c) == AskAgain(c) /\ \A t \in awTold : t.req # awRun.req

\* The report to the agent: a state in which the write is still under way
\* is no outcome.
Answer(c, states) ==
  /\ awTold' = awTold \cup [req: {awCall[c].req}, state: states \cap Ended]
  /\ awCall' = [awCall EXCEPT ![c] = IdleCall]
  /\ UNCHANGED <<awRun, commitVars, pushVars, noticeVars>>

\* run.Get returns how the write ended.
AwaitDone(c) ==
  /\ awCall[c].at = "wait" /\ awRun.at = "done"
  /\ Answer(c, {awRun.end})

\* The wait ends before the write does: await asks whether it still runs.
WaitEnded(c) ==
  /\ awCall[c].at = "wait"
  /\ awCall' = [awCall EXCEPT ![c].at = "describe"]
  /\ UNCHANGED <<awRun, commitVars, pushVars, noticeVars, awTold>>

Describe(c) ==
  /\ awCall[c].at = "describe"
  /\ \/ /\ awRun.at \in Running
        /\ awCall' = [awCall EXCEPT ![c].at = "query"]
        /\ UNCHANGED <<awRun, commitVars, pushVars, noticeVars, awTold>>
     \/ /\ awRun.at = "done"
        /\ Answer(c, {awRun.end})

\* The pending query, answered also by a write that has ended since.
QueryPending(c) ==
  /\ awCall[c].at = "query"
  /\ Answer(c, {IF awRun.at \in {"notify", "wait"} THEN "pending" ELSE "running"})

AgentWriteNext ==
  \/ \E s \in Ended : PrepareAgentFails(s)
  \/ \E b \in BOOLEAN : PrepareAgentOk(b) \/ AgentDecided(b)
  \/ AwaitAgentApproval \/ CommitAgentWrite \/ StartOutcome
  \/ HandlePushSignal
  \/ \E p \in PushId :
       \/ PushPending(p) \/ PushOutcome(p) \/ OnDeleteTaskPushConfig(p)
       \/ \E c \in AwCaller : OnSetTaskPushConfig(c, p)
  \/ \E c \in AwCaller :
       \/ SignalPushSet(c) \/ OnGetTask(c) \/ Follow(c)
       \/ AwaitDone(c) \/ WaitEnded(c) \/ Describe(c) \/ QueryPending(c)
       \/ \E r \in AwRequest :
            McpWrite(c, r) \/ \E p \in PushId : OnSendMessage(c, r, p)

AgentWriteSpec == AgentWriteInit /\ [][AgentWriteNext]_agentWriteVars

-----------------------------------------------------------------------------
(* Properties. *)

\* What agents are told is the truth and never changes: every outcome
\* reported, to whoever asked under the ID, however late, is the one the
\* write had; "committed" means that the document the caller asked for is
\* in the target, a person's rejection that there is none, and any other
\* refusal that the first attempt wrote none and that none was stored.
OneOutcome == \A t \in awTold :
  /\ t.state = awRun.end
  /\ t.state = "committed" => awDoc = t.req
  /\ t.state = "rejected" => awDoc = NoRequest
  /\ t.state \in {"denied", "invalid"} => ~awStored /\ (awTries <= 1 => awDoc = NoRequest)

\* notify's promise, "the outcome is then always sent after it": no
\* receiver hears that the write waits for approval after its outcome.
PendingBeforeOutcome == \A p \in PushId : \A i, j \in DOMAIN inbox[p] :
  i < j /\ inbox[p][j] = "pending" => inbox[p][i] = "pending"

\* Neither an answer nor a notice misleads an agent.
AgentsToldTruth == OneOutcome /\ PendingBeforeOutcome
=============================================================================
