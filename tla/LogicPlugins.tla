---------------------------- MODULE LogicPlugins ----------------------------
(***************************************************************************)
(* One RunPlugin activity (pkg/engine/plugins.go): the runner of           *)
(* pkg/plugin/runner invokes a plugin on a model event, then, depth first, *)
(* the plugins subscribed to what it published; each invocation is one     *)
(* WebAssembly instance (pkg/plugin/wasm.go) that calls the host within    *)
(* limits and grants, and a request of its own goes out through            *)
(* pkg/netguard.                                                           *)
(*                                                                         *)
(* What a plugin computes is free: any sequence of host calls, and any end.*)
(* A plugin's grants are free too: a call outside them is answered Denied. *)
(* Plugins are numbered in the order of their names, and each publishes    *)
(* on one topic.                                                           *)
(***************************************************************************)
EXTENDS Naturals, Sequences, FiniteSets, SequencesExt

CONSTANTS Plugins,         \* number of plugins deployed with the spec
          Subscribes,      \* the <<subscriber, publisher>> pairs of the spec
          RecordChange,          \* the changes a plugin may propose
          MaxChain,        \* maxChain
          MaxHostCalls,    \* maxHostCalls
          MaxPluginTries   \* MaximumAttempts of the activity

Plugin == 1..Plugins

ASSUME PluginsAssumption ==
    /\ Plugins \in Nat \ {0} /\ Subscribes \subseteq Plugin \X Plugin
    /\ {MaxChain, MaxHostCalls, MaxPluginTries} \subseteq Nat \ {0}

VARIABLES activity,   \* "running", "done" or "failed", and the attempt
          stack,      \* deliveries still to make: the chains that lead to them
          call,       \* the invocation that runs, or NoInvocation
          writes,     \* the governed writes proposals started, by workflow ID
          resolves,   \* what the name a plugin calls resolves to just now
          reached     \* the kinds of addresses requests were sent to

pluginVars == <<activity, stack, call, writes, resolves, reached>>

\* An invocation: the chain of plugins that led to it, ending in its own
\* plugin, the host calls and publications so far, and whether a request has
\* passed CheckURL.
NoInvocation == [chain |-> <<>>, calls |-> 0, pubs |-> 0, checked |-> FALSE]
InvocationRuns == call.chain # <<>>
Own == Last(call.chain)

PluginsTypeOK ==
    /\ activity \in [state : {"running", "done", "failed"}, attempt : 1..MaxPluginTries]
    /\ \A i \in DOMAIN stack : stack[i] \in SeqOf(Plugin, MaxChain)
    /\ call \in [chain : SeqOf(Plugin, MaxChain), calls : 0..MaxHostCalls,
                 pubs : 0..MaxHostCalls, checked : BOOLEAN]
    /\ writes \subseteq [plugin : Plugin, change : RecordChange, id : Plugin \X RecordChange \X (0..MaxPluginTries)]
    /\ resolves \in {"public", "private"} /\ reached \subseteq {"public", "private"}

PluginsInit ==
    /\ activity = [state |-> "running", attempt |-> 1]
    /\ stack = <<>> /\ call = NoInvocation /\ writes = {}
    /\ resolves \in {"public", "private"} /\ reached = {}

\* Handle: a fresh instance.
Invoked(chain) == [NoInvocation EXCEPT !.chain = chain]

\* Run: the activity's own plugin first.
RunPlugin(p) ==
    /\ activity.state = "running" /\ ~InvocationRuns /\ stack = <<>>
    /\ call' = Invoked(<<p>>)
    /\ UNCHANGED <<activity, stack, writes, resolves, reached>>

-----------------------------------------------------------------------------
(***************************************************************************)
(* Host calls.  begin counts them; one too many stops the plugin.          *)
(***************************************************************************)

HostCall == InvocationRuns /\ ~call.checked /\ call.calls < MaxHostCalls

\* Get, and every call the host answers with an error code (Denied,
\* NotFound, Invalid, Unavailable): the plugin goes on.
Answered ==
    /\ HostCall
    /\ call' = [call EXCEPT !.calls = @ + 1]
    /\ UNCHANGED <<activity, stack, writes, resolves, reached>>

\* A defect to compare with: an ID per attempt.
ProposalIdPerAttempt(p, ch) == <<p, ch, activity.attempt>>

\* The ID of a proposal's workflow: the digest of the run, the step, the
\* entity and the change, after the plugin's name.
ProposalId(p, ch) == <<p, ch, 0>>

\* ProposeChange: Submit starts the write, or finds the one under the ID.
Proposed(p, ch) == [plugin |-> p, change |-> ch, id |-> ProposalId(p, ch)]
ProposeChange(ch) ==
    /\ HostCall
    /\ call' = [call EXCEPT !.calls = @ + 1]
    /\ writes' = writes \cup {Proposed(Own, ch)}
    /\ UNCHANGED <<activity, stack, resolves, reached>>

Publish ==
    /\ HostCall
    /\ call' = [call EXCEPT !.calls = @ + 1, !.pubs = @ + 1]
    /\ UNCHANGED <<activity, stack, writes, resolves, reached>>

\* permitted: a public address (or a range the operators allow).
Permitted(address) == address = "public"

\* Send: CheckURL looks the name up; a name that resolves to a private
\* address is answered as Invalid.
CheckURL ==
    /\ HostCall /\ Permitted(resolves)
    /\ call' = [call EXCEPT !.calls = @ + 1, !.checked = TRUE]
    /\ UNCHANGED <<activity, stack, writes, resolves, reached>>

\* The client looks the name up again, and the dialer checks the address it
\* is about to connect to; a refusal is answered as Invalid.
Dial ==
    /\ call.checked
    /\ reached' = IF Permitted(resolves) THEN reached \cup {resolves} ELSE reached
    /\ call' = [call EXCEPT !.checked = FALSE]
    /\ UNCHANGED <<activity, stack, writes, resolves>>

\* The name is given another address at any time.
NameMoves ==
    /\ resolves' \in {"public", "private"} \ {resolves}
    /\ UNCHANGED <<activity, stack, call, writes, reached>>

-----------------------------------------------------------------------------
(***************************************************************************)
(* The end of an invocation.                                               *)
(***************************************************************************)

\* deliver: the plugins subscribed to each publication, in the order of
\* their names, unless they are in the chain already or it is at its limit.
Deliveries(chain, pubs) ==
    LET to == SelectSeq([i \in 1..Plugins |-> i],
                        LAMBDA q : <<q, Last(chain)>> \in Subscribes /\ ~Contains(chain, q))
        one == [i \in 1..Len(to) |-> Append(chain, to[i])]
    IN IF Len(chain) >= MaxChain THEN <<>>
       ELSE FlattenSeq([i \in 1..pubs |-> one])

\* The next delivery of the stack, or the end of the activity.
Resume(st) ==
    IF st = <<>>
    THEN call' = NoInvocation /\ stack' = <<>> /\ activity' = [activity EXCEPT !.state = "done"]
    ELSE call' = Invoked(Head(st)) /\ stack' = Tail(st) /\ UNCHANGED activity

\* handle returned ok and the invocation was audited as plugin.handled.
Handled ==
    /\ InvocationRuns /\ ~call.checked
    /\ Resume(Deliveries(call.chain, call.pubs) \o stack)
    /\ UNCHANGED <<writes, resolves, reached>>

\* What the activity reports of its own plugin's failure: ErrPlugin is not
\* retried, a failing host is, for as many attempts as there are.
ActivityEnds(state) == call' = NoInvocation /\ stack' = <<>> /\ activity' = [activity EXCEPT !.state = state]
TryAgain ==
    IF activity.attempt = MaxPluginTries THEN ActivityEnds("failed")
    ELSE call' = NoInvocation /\ stack' = <<>> /\ activity' = [activity EXCEPT !.attempt = @ + 1]

\* A trap, a limit (calls, time, memory), the plugin's own error: audited as
\* plugin.failed.  In a chain the publisher is not failed by it.
PluginFails ==
    /\ InvocationRuns
    /\ IF Len(call.chain) = 1 THEN ActivityEnds("failed") ELSE Resume(stack)
    /\ UNCHANGED <<writes, resolves, reached>>

\* The target of a read, Temporal or the audit log fails; a proposal may
\* have been started all the same.
HostFails ==
    /\ InvocationRuns
    /\ writes' \in {writes} \cup {writes \cup {Proposed(Own, ch)} : ch \in RecordChange}
    /\ IF Len(call.chain) = 1 THEN TryAgain ELSE Resume(stack)
    /\ UNCHANGED <<resolves, reached>>

\* The worker dies, or the attempt runs into its timeout.
AttemptLost ==
    /\ InvocationRuns /\ TryAgain
    /\ UNCHANGED <<writes, resolves, reached>>

PluginsNext ==
    \/ RunPlugin(1)
    \/ Answered \/ Publish \/ CheckURL \/ Dial \/ NameMoves
    \/ \E ch \in RecordChange : ProposeChange(ch)
    \/ Handled \/ PluginFails \/ HostFails \/ AttemptLost

PluginsSpec == PluginsInit /\ [][PluginsNext]_pluginVars

-----------------------------------------------------------------------------
\* However often the activity is attempted and however a plugin is reached,
\* one change a plugin proposes in a step of a run is one governed write.
\* (runner.go ProposeChange: "retries and redeliveries find the first".)
OneProposal ==
    \A v, w \in writes : v.plugin = w.plugin /\ v.change = w.change => v = w

\* A request a plugin makes is never sent to an address that is not
\* permitted, though the name may resolve differently after it was checked.
\* (netguard.go Client.)
OnlyPermitted == \A address \in reached : Permitted(address)

\* A plugin writes what it proposed once, and reaches only what it may.
PluginsContained == OneProposal /\ OnlyPermitted
=============================================================================
