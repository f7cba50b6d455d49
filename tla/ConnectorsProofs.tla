-------------------------- MODULE ConnectorsProofs --------------------------
(***************************************************************************)
(* What the connectors keep, for any number of workers, calls and faults.  *)
(***************************************************************************)
EXTENDS MCConnectors, FiniteSetTheorems, SequenceTheorems,
        WellFoundedInduction, TLAPS

-----------------------------------------------------------------------------
(* Refresh tokens. *)

TokensShape ==
  /\ live \in Nat /\ live > 0 /\ issued \in Nat
  /\ row \in State
  /\ pending \in [TokenWorker -> [spent: Nat, state: State]]
  /\ tpc \in [TokenWorker -> {"idle", "grant", "store"}]
  /\ found \in [TokenWorker -> State]
  /\ lost \in BOOLEAN /\ unsound \in BOOLEAN /\ (lost => unsound)

\* The advisory lock: one worker at a time is between the read of the stored
\* tokens and its commit.
OneInVault == \A v, w \in TokenWorker : tpc[v] # "idle" /\ tpc[w] # "idle" => v = w

\* That worker goes on from the rotation it holds for the stored token, or
\* from the stored token.
FoundIsCurrent == \A w \in TokenWorker : tpc[w] # "idle" =>
  IF pending[w].spent # 0
    THEN /\ pending[w].spent = Stored.refresh
         /\ found[w].refresh = pending[w].state.refresh
    ELSE found[w].refresh = Stored.refresh

\* A rotation leads from a token the store holds, or held, to a later one.
RotationsGoOn == \A w \in TokenWorker : pending[w].spent # 0 =>
  /\ pending[w].spent <= Stored.refresh
  /\ pending[w].spent <= pending[w].state.refresh

\* A rotation the store missed that leads on leads to the live token, and
\* one worker holds it.
OneLeadsOn == ~lost =>
  /\ \A w \in TokenWorker : Missed(w) /\ pending[w].state.refresh # Stored.refresh =>
       pending[w].state.refresh = live
  /\ \A v, w \in TokenWorker :
       /\ Missed(v) /\ pending[v].state.refresh # Stored.refresh
       /\ Missed(w) /\ pending[w].state.refresh # Stored.refresh
       => v = w

\* While nothing fails, a rotation is pending only until it is stored.
NonePends == ~unsound =>
  \A w \in TokenWorker : pending[w].spent # 0 => tpc[w] = "store"

TokensInv ==
  /\ TokensShape /\ OneInVault /\ FoundIsCurrent /\ RotationsGoOn /\ OneLeadsOn
  /\ NonePends /\ RefreshTokenKept /\ SpentOnce

\* The store always names a token, the seed at least.
LEMMA StoredNamesToken ==
  ASSUME row \in State
  PROVE  Stored \in State /\ Stored.refresh \in Nat /\ Stored.refresh > 0
BY DEF Stored, State, Seed

\* What the rest of the invariant needs of a worker's memory.
LEMMA TokenTypes ==
  ASSUME TokensShape
  PROVE  /\ live \in Nat /\ issued \in Nat /\ Stored.refresh \in Nat /\ Stored.refresh > 0
         /\ \A w \in TokenWorker :
              /\ pending[w] \in [spent: Nat, state: State]
              /\ pending[w].spent \in Nat /\ pending[w].state \in State
              /\ pending[w].state.refresh \in Nat
              /\ found[w] \in State /\ found[w].refresh \in Nat
         /\ NoRotation \in [spent: Nat, state: State] /\ NoRotation.spent = 0
<1>1. Stored.refresh \in Nat /\ Stored.refresh > 0
  BY StoredNamesToken DEF TokensShape
<1>2. \A w \in TokenWorker :
        /\ pending[w] \in [spent: Nat, state: State]
        /\ found[w] \in State
  BY DEF TokensShape
<1>3. \A w \in TokenWorker :
        pending[w].spent \in Nat /\ pending[w].state \in State
  BY <1>2
<1>4. \A s \in State : s.refresh \in Nat
  BY DEF State
<1>5. NoRotation \in [spent: Nat, state: State] /\ NoRotation.spent = 0
  BY DEF NoRotation, NoState, State
<1> QED BY <1>1, <1>2, <1>3, <1>4, <1>5 DEF TokensShape

\* The stored tokens are read under the lock.
LEMMA RefreshSteps ==
  ASSUME TokensInv, NEW w \in TokenWorker, Refresh(w)
  PROVE  TokensInv'
<1>1. /\ TokensShape /\ OneInVault /\ FoundIsCurrent /\ RotationsGoOn /\ OneLeadsOn
      /\ NonePends /\ RefreshTokenKept /\ SpentOnce
  BY DEF TokensInv
<1>2. /\ \A v \in TokenWorker : tpc[v] = "idle"
      /\ found' = [found EXCEPT ![w] = Current(w)]
      /\ pending' = [pending EXCEPT ![w] = IF Missed(w) THEN @ ELSE NoRotation]
      /\ tpc' \in {[tpc EXCEPT ![w] = "store"], [tpc EXCEPT ![w] = "grant"]}
      /\ UNCHANGED <<live, issued, row, lost, unsound>>
  BY DEF Refresh, VaultFree, serverVars
<1>3. /\ live \in Nat /\ issued \in Nat /\ Stored.refresh \in Nat /\ Stored.refresh > 0
      /\ \A v \in TokenWorker :
           /\ pending[v] \in [spent: Nat, state: State]
           /\ pending[v].spent \in Nat /\ pending[v].state \in State
           /\ pending[v].state.refresh \in Nat
           /\ found[v] \in State /\ found[v].refresh \in Nat
      /\ NoRotation \in [spent: Nat, state: State] /\ NoRotation.spent = 0
      /\ Stored \in State
  BY <1>1, TokenTypes, StoredNamesToken DEF TokensShape
<1>4. /\ Stored' = Stored
      /\ pending'[w] = IF Missed(w) THEN pending[w] ELSE NoRotation
      /\ found'[w] = IF Missed(w) THEN pending[w].state ELSE Stored
      /\ tpc'[w] \in {"grant", "store"}
      /\ \A v \in TokenWorker : v # w =>
           pending'[v] = pending[v] /\ found'[v] = found[v] /\ tpc'[v] = "idle"
      /\ Missed(w) <=> (pending[w].spent # 0 /\ Stored.refresh = pending[w].spent)
  BY <1>1, <1>2 DEF TokensShape, Stored, Current, Missed
<1>5. \A v \in TokenWorker :
        /\ Missed(v)' <=> Missed(v)
        /\ Missed(v) => pending'[v] = pending[v]
        /\ pending'[v].spent # 0 => pending'[v] = pending[v]
  <2>1. ASSUME NEW v \in TokenWorker
        PROVE  Missed(v)' <=> (pending'[v].spent # 0 /\ Stored.refresh = pending'[v].spent)
    BY <1>4 DEF Missed
  <2> QED BY <1>3, <1>4, <2>1 DEF Missed
<1>6. TokensShape'
  <2>1. /\ pending' \in [TokenWorker -> [spent: Nat, state: State]]
        /\ found' \in [TokenWorker -> State]
        /\ tpc' \in [TokenWorker -> {"idle", "grant", "store"}]
    BY <1>1, <1>2, <1>3 DEF TokensShape, Current
  <2> QED BY <1>1, <1>2, <2>1 DEF TokensShape
<1>7. OneInVault'
  BY <1>4 DEF OneInVault
<1>8. FoundIsCurrent'
  BY <1>3, <1>4 DEF FoundIsCurrent
<1>9. RotationsGoOn'
  BY <1>1, <1>4, <1>5 DEF RotationsGoOn
<1>10. OneLeadsOn'
  BY <1>1, <1>2, <1>4, <1>5 DEF OneLeadsOn
<1>11. NonePends'
  <2>1. ~unsound => pending[w].spent = 0
    BY <1>1, <1>2 DEF NonePends
  <2>2. ~unsound => \A v \in TokenWorker : pending[v].spent = 0
    BY <1>1, <1>2 DEF NonePends
  <2> QED BY <1>2, <1>3, <1>5, <2>2 DEF NonePends
<1>12. RefreshTokenKept'
  <2>1. CASE lost
    BY <1>2, <2>1 DEF RefreshTokenKept
  <2>2. CASE Stored.refresh = live
    BY <1>2, <1>4, <2>2 DEF RefreshTokenKept
  <2>3. CASE \E v \in TokenWorker : Missed(v) /\ pending[v].state.refresh = live
    <3>1. \E v \in TokenWorker : Missed(v)' /\ pending'[v].state.refresh = live'
      BY <1>2, <1>5, <2>3
    <3> QED BY <3>1 DEF RefreshTokenKept
  <2> QED BY <1>1, <2>1, <2>2, <2>3 DEF RefreshTokenKept
<1>13. SpentOnce'
  <2> SUFFICES ASSUME ~unsound PROVE found'[w].refresh = live
    BY <1>2, <1>4 DEF SpentOnce
  <2>1. \A v \in TokenWorker : ~Missed(v)
    BY <1>1, <1>2 DEF NonePends, Missed
  <2>2. Stored.refresh = live
    BY <1>1, <2>1 DEF RefreshTokenKept, TokensShape
  <2> QED BY <1>4, <2>1, <2>2
<1> QED BY <1>6, <1>7, <1>8, <1>9, <1>10, <1>11, <1>12, <1>13 DEF TokensInv

\* The server takes the token, and the worker holds the rotation.
LEMMA GrantSteps ==
  ASSUME TokensInv, NEW w \in TokenWorker, Grant(w)
  PROVE  TokensInv'
<1>1. /\ TokensShape /\ OneInVault /\ FoundIsCurrent /\ RotationsGoOn /\ OneLeadsOn
      /\ NonePends /\ RefreshTokenKept /\ SpentOnce
  BY DEF TokensInv
<1> DEFINE s == Stored.refresh
           state == [refresh |-> live', access |-> issued']
<1>2. /\ tpc[w] = "grant" /\ found[w].refresh = live /\ live' \in {live, live + 1}
      /\ issued' = issued + 1
      /\ found' = [found EXCEPT ![w] = state]
      /\ pending' = [pending EXCEPT ![w] = [spent |-> Supersede(w), state |-> state]]
      /\ tpc' = [tpc EXCEPT ![w] = "store"]
      /\ UNCHANGED <<row, lost, unsound>>
  BY DEF Grant, ServerGrants
<1>3. /\ live \in Nat /\ issued \in Nat /\ s \in Nat /\ s > 0
      /\ \A v \in TokenWorker :
           /\ pending[v] \in [spent: Nat, state: State]
           /\ pending[v].spent \in Nat /\ pending[v].state \in State
           /\ pending[v].state.refresh \in Nat
           /\ found[v] \in State /\ found[v].refresh \in Nat
  BY <1>1, TokenTypes
<1>4. /\ live' \in Nat /\ live <= live' /\ live' > 0 /\ issued' \in Nat /\ state \in State
  BY <1>1, <1>2, <1>3 DEF State, TokensShape
<1>5. Supersede(w) = s /\ s <= live
  <2>1. CASE pending[w].spent # 0
    BY <1>1, <1>2, <1>3, <2>1 DEF FoundIsCurrent, RotationsGoOn, Supersede
  <2>2. CASE pending[w].spent = 0
    BY <1>1, <1>2, <1>3, <2>2 DEF FoundIsCurrent, Supersede
  <2> QED BY <2>1, <2>2
<1>6. /\ pending'[w].spent = s /\ pending'[w].state.refresh = live' /\ found'[w].refresh = live'
      /\ Stored' = Stored /\ Stored'.refresh = s
      /\ tpc'[w] = "store"
      /\ \A v \in TokenWorker : v # w =>
           /\ pending'[v] = pending[v] /\ found'[v] = found[v]
           /\ tpc'[v] = "idle" /\ tpc[v] = "idle"
  <2>1. \A v \in TokenWorker : v # w => tpc[v] = "idle"
    BY <1>1, <1>2 DEF OneInVault
  <2> QED BY <1>1, <1>2, <1>5, <2>1 DEF TokensShape, Stored
<1>7. /\ \A v \in TokenWorker : v # w => (Missed(v)' <=> Missed(v))
      /\ Missed(w)'
      /\ \A v \in TokenWorker : Missed(v) <=> (pending[v].spent # 0 /\ pending[v].spent = s)
  BY <1>3, <1>6 DEF Missed
<1> HIDE DEF s, state
<1>8. TokensShape'
  <2>1. [spent |-> Supersede(w), state |-> state] \in [spent: Nat, state: State]
    BY <1>3, <1>4, <1>5
  <2>2. /\ pending' \in [TokenWorker -> [spent: Nat, state: State]]
        /\ found' \in [TokenWorker -> State]
        /\ tpc' \in [TokenWorker -> {"idle", "grant", "store"}]
    BY <1>1, <1>2, <1>4, <2>1 DEF TokensShape
  <2> QED BY <1>1, <1>2, <1>4, <2>2 DEF TokensShape
<1>9. OneInVault'
  BY <1>6 DEF OneInVault
<1>10. FoundIsCurrent'
  BY <1>3, <1>6 DEF FoundIsCurrent
<1>11. RotationsGoOn'
  <2>1. s <= live' /\ s <= s
    BY <1>3, <1>4, <1>5
  <2> QED BY <1>1, <1>6, <2>1 DEF RotationsGoOn, s
<1>12. OneLeadsOn'
  <2> SUFFICES ASSUME ~lost
               PROVE  \A v \in TokenWorker :
                        Missed(v)' /\ pending'[v].state.refresh # s => v = w
    BY <1>2, <1>6 DEF OneLeadsOn
  <2> SUFFICES ASSUME NEW v \in TokenWorker, v # w, Missed(v), pending[v].state.refresh # s
               PROVE  FALSE
    BY <1>6, <1>7
  <2>1. pending[v].state.refresh = live
    BY <1>1 DEF OneLeadsOn, s
  <2>2. live # s
    BY <2>1
  <2>3. Missed(w) /\ pending[w].state.refresh = live
    <3>1. pending[w].spent # 0
      BY <1>1, <1>2, <2>2 DEF FoundIsCurrent, s
    <3> QED BY <1>1, <1>2, <1>7, <3>1 DEF FoundIsCurrent, s
  <2> QED BY <1>1, <2>1, <2>2, <2>3 DEF OneLeadsOn, s
<1>13. NonePends'
  BY <1>1, <1>2, <1>6 DEF NonePends
<1>14. RefreshTokenKept'
  BY <1>6, <1>7 DEF RefreshTokenKept
<1>15. SpentOnce'
  BY <1>6 DEF SpentOnce
<1> QED BY <1>8, <1>9, <1>10, <1>11, <1>12, <1>13, <1>14, <1>15 DEF TokensInv

\* The store takes what the worker found, or only looks as if it had not.
LEMMA StoreSteps ==
  ASSUME TokensInv, NEW w \in TokenWorker, tpc[w] = "store", row' \in {row, found[w]},
         tpc' = [tpc EXCEPT ![w] = "idle"], UNCHANGED <<live, issued, found, lost>>,
         \/ UNCHANGED pending /\ unsound' = TRUE
         \/ /\ row' = found[w] /\ unsound' = unsound
            /\ pending' = [pending EXCEPT ![w] = NoRotation]
  PROVE  TokensInv'
<1>1. /\ TokensShape /\ OneInVault /\ FoundIsCurrent /\ RotationsGoOn /\ OneLeadsOn
      /\ NonePends /\ RefreshTokenKept /\ SpentOnce
  BY DEF TokensInv
<1> DEFINE s == Stored.refresh
           t == Stored'.refresh
<1>2. /\ live \in Nat /\ s \in Nat /\ s > 0
      /\ \A v \in TokenWorker :
           /\ pending[v] \in [spent: Nat, state: State]
           /\ pending[v].spent \in Nat /\ pending[v].state \in State
           /\ pending[v].state.refresh \in Nat
           /\ found[v] \in State /\ found[v].refresh \in Nat
      /\ NoRotation \in [spent: Nat, state: State] /\ NoRotation.spent = 0
  BY <1>1, TokenTypes
<1>3. \A v \in TokenWorker : tpc'[v] = "idle"
  BY <1>1 DEF OneInVault, TokensShape
<1>4. TokensShape'
  <2>1. row' \in State /\ tpc' \in [TokenWorker -> {"idle", "grant", "store"}]
    BY <1>1, <1>2 DEF TokensShape
  <2>2. pending' \in [TokenWorker -> [spent: Nat, state: State]]
    BY <1>1, <1>2 DEF TokensShape
  <2>3. unsound' \in BOOLEAN /\ (lost => unsound')
    BY <1>1 DEF TokensShape
  <2> QED BY <1>1, <2>1, <2>2, <2>3 DEF TokensShape
<1>5. /\ pending[w].spent # 0 => /\ pending[w].spent = s /\ Missed(w)
                                 /\ found[w].refresh = pending[w].state.refresh
                                 /\ s <= found[w].refresh
      /\ pending[w].spent = 0 => found[w].refresh = s
      /\ found[w].refresh > 0 /\ found[w].refresh \in Nat
  <2>1. /\ pending[w].spent # 0 => /\ pending[w].spent = s
                                   /\ found[w].refresh = pending[w].state.refresh
        /\ pending[w].spent = 0 => found[w].refresh = s
    BY <1>1 DEF FoundIsCurrent
  <2>2. pending[w].spent # 0 => s <= found[w].refresh /\ Missed(w)
    BY <1>1, <2>1 DEF RotationsGoOn, Missed
  <2> QED BY <1>2, <2>1, <2>2
<1>6. /\ t \in {s, found[w].refresh} /\ t \in Nat /\ s <= t
      /\ row' = found[w] => t = found[w].refresh
  <2>1. row' = found[w] => t = found[w].refresh
    BY <1>5 DEF Stored
  <2>2. row' = row => t = s
    BY DEF Stored
  <2> QED BY <1>2, <1>5, <2>1, <2>2
<1>7. \A v \in TokenWorker :
        /\ pending'[v] = pending[v] \/ (v = w /\ pending'[v] = NoRotation)
        /\ Missed(v)' <=> (pending'[v].spent # 0 /\ pending'[v].spent = t)
        /\ Missed(v) <=> (pending[v].spent # 0 /\ pending[v].spent = s)
  BY <1>1 DEF TokensShape, Missed
<1> HIDE DEF s, t
<1>8. t # s /\ ~lost => t = live
  BY <1>1, <1>5, <1>6 DEF OneLeadsOn, s
<1>9. t # s => \A v \in TokenWorker : ~Missed(v)'
  <2> SUFFICES ASSUME t # s, NEW v \in TokenWorker, pending[v].spent # 0,
                      pending[v].spent = t
               PROVE  FALSE
    BY <1>2, <1>7
  <2>1. pending[v].spent <= s
    BY <1>1 DEF RotationsGoOn, s
  <2> QED BY <1>2, <1>6, <2>1
<1>10. OneInVault' /\ FoundIsCurrent' /\ SpentOnce'
  BY <1>3 DEF OneInVault, FoundIsCurrent, SpentOnce
<1>11. RotationsGoOn'
  <2> SUFFICES ASSUME NEW v \in TokenWorker, pending[v].spent # 0
               PROVE  pending[v].spent <= t /\ pending[v].spent <= pending[v].state.refresh
    BY <1>2, <1>7 DEF RotationsGoOn, t
  <2>1. pending[v].spent <= s /\ pending[v].spent <= pending[v].state.refresh
    BY <1>1 DEF RotationsGoOn, s
  <2> QED BY <1>2, <1>6, <2>1
<1>12. OneLeadsOn'
  <2>1. CASE t # s
    BY <1>9, <2>1 DEF OneLeadsOn
  <2>2. CASE t = s
    <3>1. \A v \in TokenWorker : Missed(v)' => Missed(v) /\ pending'[v] = pending[v]
      BY <1>2, <1>7, <2>2
    <3> QED BY <1>1, <2>2, <3>1 DEF OneLeadsOn, s, t
  <2> QED BY <2>1, <2>2
<1>13. NonePends'
  <2> SUFFICES ASSUME ~unsound' PROVE \A v \in TokenWorker : pending'[v].spent = 0
    BY DEF NonePends
  <2>1. ~unsound /\ pending' = [pending EXCEPT ![w] = NoRotation]
    OBVIOUS
  <2>2. \A v \in TokenWorker : v # w => pending[v].spent = 0
    BY <1>1, <2>1 DEF NonePends, OneInVault
  <2> QED BY <1>1, <1>2, <2>1, <2>2 DEF TokensShape
<1>14. RefreshTokenKept'
  <2> SUFFICES ASSUME ~lost, t = s, t # live PROVE RefreshTokenKept'
    BY <1>8 DEF RefreshTokenKept, t
  <2>1. PICK v \in TokenWorker : Missed(v) /\ pending[v].state.refresh = live
    BY <1>1 DEF RefreshTokenKept, s
  <2>2. pending'[v] = pending[v]
    <3>1. CASE pending' = pending
      BY <3>1
    <3>2. CASE row' = found[w] /\ v = w
      BY <1>5, <1>6, <1>7, <2>1, <3>2
    <3>3. CASE v # w
      BY <1>7, <3>3
    <3> QED BY <3>1, <3>2, <3>3
  <2>3. Missed(v)'
    BY <1>7, <2>1, <2>2
  <2> QED BY <2>1, <2>2, <2>3 DEF RefreshTokenKept
<1> QED BY <1>4, <1>10, <1>11, <1>12, <1>13, <1>14 DEF TokensInv

\* The exchange ends without a token, or the worker with what it held.
LEMMA FailSteps ==
  ASSUME TokensInv, NEW w \in TokenWorker,
         GrantRefused(w) \/ GrantFails(w) \/ TokenWorkerDies(w)
  PROVE  TokensInv'
<1>1. /\ TokensShape /\ OneInVault /\ FoundIsCurrent /\ RotationsGoOn /\ OneLeadsOn
      /\ NonePends /\ RefreshTokenKept /\ SpentOnce
  BY DEF TokensInv
<1>2. /\ live \in Nat /\ issued \in Nat /\ Stored.refresh \in Nat
      /\ \A v \in TokenWorker : pending[v] \in [spent: Nat, state: State]
      /\ NoRotation \in [spent: Nat, state: State] /\ NoRotation.spent = 0
  BY <1>1, TokenTypes
<1>3. /\ tpc' = [tpc EXCEPT ![w] = "idle"] /\ UNCHANGED <<row, found>>
      /\ pending' \in {pending, [pending EXCEPT ![w] = NoRotation]}
      /\ unsound' \in {unsound, TRUE}
      /\ live' \in {live, live + 1} /\ issued' \in {issued, issued + 1}
      /\ unsound' = TRUE \/ (unsound' = unsound /\ UNCHANGED <<live, issued, lost, pending>>)
      /\ lost' \in BOOLEAN /\ (lost => lost')
      /\ live' # live => lost' /\ tpc[w] = "grant" /\ UNCHANGED pending
      /\ pending' = pending
           \/ pending[w].state.refresh # live \/ Stored.refresh = live \/ lost'
      /\ tpc[w] = "store" => unsound'
  BY <1>1 DEF GrantRefused, GrantFails, TokenWorkerDies, TokenFault, ServerGrants, serverVars,
              workerVars, TokensShape
<1>4. /\ Stored' = Stored
      /\ tpc'[w] = "idle" /\ \A v \in TokenWorker : v # w => tpc'[v] = tpc[v]
      /\ \A v \in TokenWorker :
           /\ pending'[v] = pending[v] \/ (v = w /\ pending'[v] = NoRotation)
           /\ Missed(v)' => Missed(v) /\ pending'[v] = pending[v]
           /\ Missed(v) /\ pending'[v] = pending[v] => Missed(v)'
  <2>1. Stored' = Stored
    BY <1>3 DEF Stored
  <2>2. tpc'[w] = "idle" /\ \A v \in TokenWorker : v # w => tpc'[v] = tpc[v]
    BY <1>1, <1>3 DEF TokensShape
  <2>3. \A v \in TokenWorker : pending'[v] = pending[v] \/ (v = w /\ pending'[v] = NoRotation)
    BY <1>1, <1>3 DEF TokensShape
  <2> QED BY <1>2, <2>1, <2>2, <2>3 DEF Missed
<1>5. TokensShape'
  <2>1. /\ pending' \in [TokenWorker -> [spent: Nat, state: State]]
        /\ tpc' \in [TokenWorker -> {"idle", "grant", "store"}]
    BY <1>1, <1>2, <1>3 DEF TokensShape
  <2>2. live' \in Nat /\ live' > 0 /\ issued' \in Nat
    BY <1>1, <1>2, <1>3 DEF TokensShape
  <2>3. unsound' \in BOOLEAN /\ (lost' => unsound')
    <3>1. CASE unsound' = TRUE
      BY <3>1
    <3>2. CASE unsound' = unsound /\ lost' = lost
      BY <1>1, <3>2 DEF TokensShape
    <3> QED BY <1>3, <3>1, <3>2
  <2> QED BY <1>1, <1>3, <2>1, <2>2, <2>3 DEF TokensShape
<1>6. OneInVault'
  BY <1>1, <1>4 DEF OneInVault
<1>7. FoundIsCurrent' /\ RotationsGoOn'
  BY <1>1, <1>2, <1>3, <1>4 DEF FoundIsCurrent, RotationsGoOn
<1>8. OneLeadsOn'
  BY <1>1, <1>3, <1>4 DEF OneLeadsOn
<1>9. NonePends'
  BY <1>1, <1>2, <1>3, <1>4 DEF NonePends
<1>10. RefreshTokenKept'
  <2> SUFFICES ASSUME ~lost', Stored.refresh # live PROVE RefreshTokenKept'
    BY <1>3, <1>4 DEF RefreshTokenKept
  <2>1. ~lost /\ live' = live
    BY <1>3
  <2>2. PICK v \in TokenWorker : Missed(v) /\ pending[v].state.refresh = live
    BY <1>1, <2>1 DEF RefreshTokenKept
  <2>3. pending'[v] = pending[v]
    BY <1>3, <1>4, <2>2
  <2> QED BY <1>4, <2>1, <2>2, <2>3 DEF RefreshTokenKept
<1>11. SpentOnce'
  <2> SUFFICES ASSUME NEW v \in TokenWorker, tpc'[v] = "grant", ~unsound'
               PROVE  found'[v].refresh = live'
    BY DEF SpentOnce
  <2> QED BY <1>1, <1>3, <1>4 DEF SpentOnce
<1> QED BY <1>5, <1>6, <1>7, <1>8, <1>9, <1>10, <1>11 DEF TokensInv

\* However many workers refresh, and whatever answers, commits and processes
\* are lost in between, the refresh token in force can be found unless the
\* server's answer or its only copy was lost; and while nothing failed no
\* worker offers a token that was spent.
THEOREM TokensStaySafe == TokensSpec => []TokensSafe
<1>1. TokensInit => TokensInv
  <2> SUFFICES ASSUME TokensInit PROVE TokensInv
    OBVIOUS
  <2>1. /\ NoRotation \in [spent: Nat, state: State] /\ NoRotation.spent = 0
        /\ NoState \in State /\ NoState.refresh = 0
    BY DEF NoRotation, NoState, State
  <2>2. Stored.refresh = live /\ live = 1
    BY <2>1 DEF TokensInit, Stored, Seed
  <2>3. TokensShape
    <3>1. live \in Nat /\ live > 0 /\ issued \in Nat
      BY <2>2 DEF TokensInit
    <3>2. /\ row \in State /\ found \in [TokenWorker -> State]
          /\ pending \in [TokenWorker -> [spent: Nat, state: State]]
          /\ tpc \in [TokenWorker -> {"idle", "grant", "store"}]
      BY <2>1 DEF TokensInit
    <3> QED BY <3>1, <3>2 DEF TokensInit, TokensShape
  <2>4. \A w \in TokenWorker : tpc[w] = "idle" /\ pending[w].spent = 0
    BY <2>1 DEF TokensInit
  <2> QED BY <2>2, <2>3, <2>4 DEF TokensInv, OneInVault, FoundIsCurrent, RotationsGoOn,
             OneLeadsOn, Missed, NonePends, RefreshTokenKept, SpentOnce
<1>2. ASSUME TokensInv, [TokensNext]_tokenVars PROVE TokensInv'
  <2>1. ASSUME UNCHANGED <<live, row, pending, tpc, found, lost, unsound>>,
               issued' \in {issued, issued + 1}
        PROVE  TokensInv'
    <3>1. Stored' = Stored /\ \A w \in TokenWorker : Missed(w)' <=> Missed(w)
      BY <2>1 DEF Stored, Missed
    <3>2. TokensShape'
      BY <1>2, <2>1 DEF TokensInv, TokensShape
    <3> QED BY <1>2, <2>1, <3>1, <3>2 DEF TokensInv, OneInVault, FoundIsCurrent,
               RotationsGoOn, OneLeadsOn, NonePends, RefreshTokenKept, SpentOnce
  <2>2. ASSUME NEW w \in TokenWorker, VaultStores(w) \/ VaultFails(w) PROVE TokensInv'
    BY <1>2, <2>2, StoreSteps DEF VaultStores, VaultFails, TokenFault, serverVars, workerVars
  <2>3. ASSUME NEW w \in TokenWorker,
               \/ Invalidate(w) \/ ClientCredentials(w) \/ SessionLogin(w)
               \/ SalesforceLogin(w)
        PROVE  TokensInv'
    BY <2>1, <2>3 DEF Invalidate, ClientCredentials, SessionLogin, SalesforceLogin, LogsIn,
                      serverVars
  <2>4. ASSUME NEW a \in 1..issued, Expire(a) PROVE TokensInv'
    BY <2>1, <2>4 DEF Expire, workerVars
  <2>5. CASE UNCHANGED tokenVars
    BY <2>1, <2>5 DEF tokenVars, serverVars, workerVars
  <2> QED BY <1>2, <2>2, <2>3, <2>4, <2>5, RefreshSteps, GrantSteps, FailSteps DEF TokensNext
<1>3. TokensInv => TokensSafe
  BY DEF TokensInv, TokensSafe
<1> QED BY <1>1, <1>2, <1>3, PTL DEF TokensSpec

-----------------------------------------------------------------------------
(* Calls of a sidecar. *)

RemoteRecord ==
  [op: Capability \cup {"none", "commit"},
   pc: {"idle", "sent", "runs", "answered", "configure", "done"},
   took: BOOLEAN, repeated: BOOLEAN,
   answer: {"none", "ok", "bad", "refused", "aborted", "unavailable", "unsupported"},
   effects: Nat]

\* Before the sidecar runs a call, and again when the call is repeated, the
\* system has done nothing for it; while it runs, at most what it took.
EffectOf(r) ==
  /\ r \in RemoteRecord
  /\ r.pc \in {"idle", "sent", "configure"} => r.effects = 0
  /\ r.pc = "runs" => r.effects = IF r.took THEN 1 ELSE 0
  /\ r.pc \in {"answered", "done"} /\ r.answer \in {"refused", "unsupported", "aborted"}
       => r.effects = 0
  /\ r.pc \in {"answered", "done"} /\ r.answer = "ok" => r.effects = 1
  /\ r.effects <= 1

RemoteInv ==
  /\ rcall \in [RemoteCall -> RemoteRecord]
  /\ \A c \in RemoteCall : EffectOf(rcall[c])

\* A step of one call.
LEMMA CallChanges ==
  ASSUME RemoteInv, NEW c \in RemoteCall, NEW r, EffectOf(r),
         rcall' = [rcall EXCEPT ![c] = r]
  PROVE  RemoteInv'
<1>1. rcall' \in [RemoteCall -> RemoteRecord]
  BY DEF RemoteInv, EffectOf
<1>2. \A d \in RemoteCall : rcall'[d] = rcall[d] \/ rcall'[d] = r
  BY DEF RemoteInv
<1>3. \A d \in RemoteCall : EffectOf(rcall'[d])
  BY <1>2 DEF RemoteInv
<1> QED BY <1>1, <1>3 DEF RemoteInv

\* Every step of a call keeps what is known of its effect.
LEMMA CallsStaySound == RemoteSpec => []RemoteInv
<1>1. RemoteInit => RemoteInv
  <2>1. EffectOf(NoCall) /\ NoCall \in RemoteRecord
    BY DEF EffectOf, NoCall, RemoteRecord
  <2> QED BY <2>1 DEF RemoteInit, RemoteInv
<1>2. ASSUME RemoteInv, [RemoteNext]_remoteVars PROVE RemoteInv'
  <2>0. /\ \A c \in RemoteCall : EffectOf(rcall[c]) /\ rcall[c] \in RemoteRecord
        /\ rcall \in [RemoteCall -> RemoteRecord]
    BY <1>2 DEF RemoteInv
  <2>1. CASE UNCHANGED rcall
    BY <1>2, <2>1 DEF RemoteInv
  <2>2. CASE SidecarDies
    <3>1. \A c \in RemoteCall :
            EffectOf(IF rcall[c].pc \in {"sent", "runs"}
                       THEN [rcall[c] EXCEPT !.pc = "answered", !.answer = "unavailable"]
                       ELSE rcall[c])
      <4> SUFFICES ASSUME NEW c \in RemoteCall, rcall[c].pc \in {"sent", "runs"}
                   PROVE  EffectOf([rcall[c] EXCEPT !.pc = "answered", !.answer = "unavailable"])
        BY <2>0
      <4> QED BY <2>0 DEF EffectOf, RemoteRecord
    <3>2. rcall' = [c \in RemoteCall |->
                     IF rcall[c].pc \in {"sent", "runs"}
                       THEN [rcall[c] EXCEPT !.pc = "answered", !.answer = "unavailable"]
                       ELSE rcall[c]]
      BY <2>2 DEF SidecarDies
    <3>3. \A c \in RemoteCall : EffectOf(rcall'[c]) /\ rcall'[c] \in RemoteRecord
      BY <3>1, <3>2 DEF EffectOf
    <3>4. rcall' \in [RemoteCall -> RemoteRecord]
      BY <3>2, <3>3
    <3> QED BY <3>3, <3>4 DEF RemoteInv
  <2>3. ASSUME NEW c \in RemoteCall, SidecarTakes(c) PROVE RemoteInv'
    <3> DEFINE r == IF ~bound THEN [rcall[c] EXCEPT !.pc = "answered", !.answer = "aborted"]
                              ELSE [rcall[c] EXCEPT !.pc = "runs", !.took = FALSE]
    <3>1. EffectOf(r)
      BY <2>0, <2>3 DEF SidecarTakes, EffectOf, RemoteRecord
    <3>2. rcall' = [rcall EXCEPT ![c] = r]
      BY <2>0, <2>3 DEF SidecarTakes
    <3> QED BY <1>2, <3>1, <3>2, CallChanges
  <2>4. ASSUME NEW c \in RemoteCall, TakesEffect(c) PROVE RemoteInv'
    <3> DEFINE r == [rcall[c] EXCEPT !.took = TRUE, !.effects = @ + 1]
    <3>1. EffectOf(r)
      BY <2>0, <2>4 DEF TakesEffect, EffectOf, RemoteRecord
    <3>2. rcall' = [rcall EXCEPT ![c] = r]
      BY <2>0, <2>4 DEF TakesEffect
    <3> QED BY <1>2, <3>1, <3>2, CallChanges
  <2>5. ASSUME NEW c \in RemoteCall, SidecarAnswers(c) PROVE RemoteInv'
    <3>1. PICK a \in {"ok", "bad", "refused", "unavailable"} :
            /\ a \in {"ok", "bad"} => rcall[c].took
            /\ a = "refused" => ~rcall[c].took
            /\ rcall' = [rcall EXCEPT ![c].pc = "answered", ![c].answer = a]
      BY <2>5 DEF SidecarAnswers
    <3> DEFINE r == [rcall[c] EXCEPT !.pc = "answered", !.answer = a]
    <3>2. EffectOf(r)
      <4>1. rcall[c].pc = "runs" /\ EffectOf(rcall[c]) /\ rcall[c] \in RemoteRecord
        BY <2>0, <2>5 DEF SidecarAnswers, EffectOf
      <4>2. r \in RemoteRecord
        BY <4>1 DEF RemoteRecord
      <4>3. r.pc = "answered" /\ r.answer = a /\ r.effects = rcall[c].effects
        BY <4>1 DEF RemoteRecord
      <4> HIDE DEF r
      <4> QED BY <3>1, <4>1, <4>2, <4>3 DEF EffectOf
    <3>3. rcall' = [rcall EXCEPT ![c] = r]
      BY <2>0, <3>1
    <3> QED BY <1>2, <3>2, <3>3, CallChanges
  <2>6. ASSUME NEW c \in RemoteCall, NEW what \in Capability \cup {"commit"}, Calls(c, what)
        PROVE  RemoteInv'
    <3> DEFINE r == IF what \in caps \cup {"commit"}
                      THEN [NoCall EXCEPT !.op = what, !.pc = "sent"]
                      ELSE [NoCall EXCEPT !.op = what, !.pc = "done", !.answer = "unsupported"]
    <3>1. EffectOf(r)
      <4>1. /\ DOMAIN NoCall = {"op", "pc", "took", "repeated", "answer", "effects"}
            /\ NoCall.took = FALSE /\ NoCall.repeated = FALSE /\ NoCall.effects = 0
            /\ NoCall.answer = "none" /\ NoCall \in RemoteRecord
        BY DEF NoCall, RemoteRecord
      <4>2. what \in Capability \cup {"none", "commit"}
        OBVIOUS
      <4>3. \A k \in RemoteRecord, p \in {"sent", "done"} :
              [k EXCEPT !.op = what, !.pc = p] \in RemoteRecord
        BY <4>2 DEF RemoteRecord
      <4>4. [NoCall EXCEPT !.op = what, !.pc = "sent"] \in RemoteRecord
        BY <4>1, <4>3
      <4>5. [NoCall EXCEPT !.op = what, !.pc = "done", !.answer = "unsupported"] \in RemoteRecord
        BY <4>1, <4>2 DEF RemoteRecord
      <4> QED BY <4>1, <4>4, <4>5 DEF EffectOf
    <3>2. rcall' = [rcall EXCEPT ![c] = r]
      BY <2>6 DEF Calls
    <3> QED BY <1>2, <3>1, <3>2, CallChanges
  <2>7. ASSUME NEW c \in RemoteCall,
               \/ RemoteSimulate(c) \/ RemoteCommit(c) \/ RemoteConfirm(c) \/ RemoteRead(c)
               \/ RemotePoll(c) \/ RemoteExport(c) \/ RemoteCheck(c) \/ RemoteReceive(c)
               \/ RemoteDiscover(c)
        PROVE  RemoteInv'
    BY <2>6, <2>7 DEF RemoteSimulate, RemoteCommit, RemoteConfirm, RemoteRead, RemotePoll,
                      RemoteExport, RemoteCheck, RemoteReceive, RemoteDiscover, Capability
  <2>8. ASSUME NEW c \in RemoteCall, CallAgain(c) PROVE RemoteInv'
    <3> DEFINE r == [rcall[c] EXCEPT !.pc = "configure", !.repeated = TRUE]
    <3>1. EffectOf(r)
      BY <2>0, <2>8 DEF CallAgain, Repeated, EffectOf, RemoteRecord
    <3>2. rcall' = [rcall EXCEPT ![c] = r]
      BY <2>0, <2>8 DEF CallAgain
    <3> QED BY <1>2, <3>1, <3>2, CallChanges
  <2>9. ASSUME NEW c \in RemoteCall, ConfigureAgain(c) PROVE RemoteInv'
    <3> DEFINE r == [rcall[c] EXCEPT !.pc = "sent", !.answer = "none"]
    <3>1. EffectOf(r)
      BY <2>0, <2>9 DEF ConfigureAgain, EffectOf, RemoteRecord
    <3>2. rcall' = [rcall EXCEPT ![c] = r]
      BY <2>0, <2>9 DEF ConfigureAgain
    <3> QED BY <1>2, <3>1, <3>2, CallChanges
  <2>10. ASSUME NEW c \in RemoteCall, ConfigureAgainFails(c) PROVE RemoteInv'
    <3>1. PICK a \in {"refused", "unavailable"} :
            rcall' = [rcall EXCEPT ![c].pc = "done", ![c].answer = a]
      BY <2>10 DEF ConfigureAgainFails
    <3> DEFINE r == [rcall[c] EXCEPT !.pc = "done", !.answer = a]
    <3>2. EffectOf(r)
      BY <2>0, <2>10 DEF ConfigureAgainFails, EffectOf, RemoteRecord
    <3>3. rcall' = [rcall EXCEPT ![c] = r]
      BY <2>0, <3>1
    <3> QED BY <1>2, <3>2, <3>3, CallChanges
  <2>11. ASSUME NEW c \in RemoteCall, Wrapped(c) PROVE RemoteInv'
    <3> DEFINE r == [rcall[c] EXCEPT !.pc = "done"]
    <3>1. EffectOf(r)
      BY <2>0, <2>11 DEF Wrapped, EffectOf, RemoteRecord
    <3>2. rcall' = [rcall EXCEPT ![c] = r]
      BY <2>0, <2>11 DEF Wrapped
    <3> QED BY <1>2, <3>1, <3>2, CallChanges
  <2>12. CASE ConfigureRemote \/ CloseRemote \/ UNCHANGED remoteVars
    BY <2>1, <2>12 DEF ConfigureRemote, CloseRemote, remoteVars
  <2> QED BY <1>2, <2>2, <2>3, <2>4, <2>5, <2>7, <2>8, <2>9, <2>10, <2>11, <2>12
          DEF RemoteNext
<1> QED BY <1>1, <1>2, PTL DEF RemoteSpec

\* Wherever the sidecar dies and however its instance is replaced under a
\* call, a refused, unsupported or unknown call changed nothing, one that is
\* ok changed the system, and none changed it twice.
THEOREM AnswersTellEffects == RemoteSpec => []AnswerTellsEffect
<1>1. RemoteInv => AnswerTellsEffect
  BY DEF RemoteInv, EffectOf, AnswerTellsEffect
<1> QED BY <1>1, CallsStaySound, PTL

-----------------------------------------------------------------------------
(* Subscriptions. *)

SessionRecord ==
  [pc: {"standby", "resume", "fix", "recv", "received", "delivered"},
   from: Nat, next: Nat, pending: Nat]

\* Of the events owed from first on, those before p are in the inbox or were
\* passed by the source's retention.
GoneBy(p, first, events, oldest, inbox) == \A e \in 1..Len(events) :
  first <= e /\ e < p /\ events[e] = "wanted" => e \in inbox \/ e < oldest

Past(p) == GoneBy(p, owedFrom, log, kept, streamInbox)

StreamsShape ==
  /\ log \in Seq(Message) /\ kept \in Nat /\ kept <= Tip
  /\ acked \subseteq 1..Len(log)
  /\ committed \in Nat /\ committed >= 1 /\ committed <= Tip
  /\ stored \in Nat /\ stored <= Tip
  /\ session \in [Subscriber -> SessionRecord]
  /\ owedFrom \in Nat /\ kept >= 1

\* Where a subscription begins: only one that starts at the latest event owes
\* nothing before its position is stored.
StartsInv ==
  /\ kind \in {"managed"} \cup Queues => start = "earliest"
  /\ start = "earliest" => owedFrom > 0
  /\ owedFrom > 0 => start = "earliest" \/ stored > 0
  /\ kind # "managed" => committed = 1

\* What was delivered is in the inbox, and nothing before the place a session
\* reads at is missing from it, also when another session reads elsewhere.
SessionSound(s) ==
  /\ s.from <= s.next /\ s.next <= Tip
  /\ s.pc \notin {"standby", "resume"} => s.from >= 1
  /\ s.pc \in {"fix", "recv"} => s.next = s.from
  /\ s.pc = "fix" => kind = "kafka"
  /\ s.pc \notin {"standby", "resume"} /\ owedFrom > 0 /\ kind \notin Queues => Past(s.from)
  /\ s.pc = "delivered" =>
       \A e \in 1..Len(log) : s.from <= e /\ e < s.next /\ log[e] = "wanted" => e \in streamInbox
SessionsSound == \A w \in Subscriber : SessionSound(session[w])

\* So is nothing before a position that is stored or committed, and no
\* message that was acknowledged.
PositionsInv ==
  /\ owedFrom > 0 /\ kind \notin Queues => Past(stored) /\ Past(committed)
  /\ \A e \in acked : log[e] = "wanted" => e \in streamInbox

StreamsInv ==
  StreamsShape /\ StartsInv /\ SessionsSound /\ PositionsInv

\* The greater of two numbers.
LEMMA MaxOfTwo ==
  ASSUME NEW a \in Nat, NEW b \in Nat
  PROVE  Max({a, b}) \in {a, b} /\ Max({a, b}) >= a /\ Max({a, b}) >= b
<1>1. \E x \in {a, b} : \A y \in {a, b} : x >= y
  <2>1. CASE a >= b
    BY <2>1
  <2>2. CASE b >= a
    BY <2>2
  <2> QED BY <2>1, <2>2
<1> QED BY <1>1 DEF Max

\* More events, more of them in the inbox and a later oldest one leave
\* nothing missing that was not.
LEMMA GoneStays ==
  ASSUME NEW p \in Nat, NEW f \in Nat, NEW l1, NEW l2, NEW k1 \in Nat, NEW k2 \in Nat, NEW i1, NEW i2,
         Len(l1) \in Nat, Len(l2) \in Nat, p <= Len(l1) + 1, Len(l1) <= Len(l2),
         \A e \in 1..Len(l1) : l2[e] = l1[e],
         k1 <= k2, i1 \subseteq i2, GoneBy(p, f, l1, k1, i1)
  PROVE  GoneBy(p, f, l2, k2, i2)
<1> SUFFICES ASSUME NEW e \in 1..Len(l2), f <= e, e < p, l2[e] = "wanted", e \notin i2
             PROVE  e < k2
  BY DEF GoneBy
<1>1. e \in 1..Len(l1) /\ l1[e] = "wanted"
  OBVIOUS
<1>2. e < k1
  BY <1>1 DEF GoneBy
<1> QED BY <1>2

\* What every step may use of the types.
LEMMA StreamTypes ==
  ASSUME StreamsInv
  PROVE  /\ Len(log) \in Nat /\ Tip = Len(log) + 1 /\ Tip \in Nat
         /\ kept \in Nat /\ committed \in Nat /\ stored \in Nat /\ owedFrom \in Nat
         /\ kept <= Tip /\ committed <= Tip /\ stored <= Tip
         /\ kept >= 1 /\ committed >= 1
         /\ session \in [Subscriber -> SessionRecord]
         /\ \A w \in Subscriber :
              /\ session[w] \in SessionRecord /\ SessionSound(session[w])
              /\ session[w].from \in Nat /\ session[w].next \in Nat
              /\ session[w].pending \in Nat
              /\ session[w].from <= session[w].next /\ session[w].next <= Tip
              /\ session[w].from <= Tip
<1>1. /\ Len(log) \in Nat /\ Tip = Len(log) + 1 /\ Tip \in Nat
      /\ session \in [Subscriber -> SessionRecord]
      /\ kept \in Nat /\ committed \in Nat /\ stored \in Nat /\ owedFrom \in Nat
      /\ kept <= Tip /\ committed <= Tip /\ stored <= Tip
      /\ kept >= 1 /\ committed >= 1
  BY DEF StreamsInv, StreamsShape, Tip
<1>2. ASSUME NEW w \in Subscriber
      PROVE  /\ session[w] \in SessionRecord /\ SessionSound(session[w])
             /\ session[w].from \in Nat /\ session[w].next \in Nat
             /\ session[w].pending \in Nat
             /\ session[w].from <= session[w].next /\ session[w].next <= Tip
             /\ session[w].from <= Tip
  <2>1. session[w] \in SessionRecord /\ SessionSound(session[w])
    BY <1>1 DEF StreamsInv, SessionsSound
  <2>2. session[w].from \in Nat /\ session[w].next \in Nat /\ session[w].pending \in Nat
    BY <2>1 DEF SessionRecord
  <2>3. session[w].from <= session[w].next /\ session[w].next <= Tip
    BY <2>1 DEF SessionSound
  <2>4. session[w].from <= Tip
    BY <1>1, <2>2, <2>3
  <2> QED BY <2>1, <2>2, <2>3, <2>4
<1> QED BY <1>1, <1>2

\* A step that only moves a session, to a place it may read at.
LEMMA SessionMoves ==
  ASSUME StreamsInv, NEW w \in Subscriber, NEW s \in SessionRecord, SessionSound(s),
         session' = [session EXCEPT ![w] = s],
         UNCHANGED <<sourceVars, acked, committed, stored, streamInbox, owedFrom>>
  PROVE  StreamsInv'
<1>1. UNCHANGED <<kind, start, log, kept>>
  BY DEF sourceVars
<1>2. session' \in [Subscriber -> SessionRecord]
  BY DEF StreamsInv, StreamsShape
<1>3. \A v \in Subscriber : session'[v] = session[v] \/ session'[v] = s
  BY DEF StreamsInv, StreamsShape
<1>4. \A v \in Subscriber : SessionSound(session'[v])
  BY <1>3 DEF StreamsInv, SessionsSound
<1>5. SessionsSound'
  BY <1>1, <1>4 DEF SessionsSound, SessionSound, Past, Tip
<1>6. StreamsShape' /\ StartsInv' /\ PositionsInv'
  BY <1>1, <1>2 DEF StreamsInv, StreamsShape, StartsInv, PositionsInv, Past, Tip
<1> QED BY <1>5, <1>6 DEF StreamsInv

\* An event is published, or retention passes the oldest one.
LEMMA SourceSteps ==
  ASSUME StreamsInv,
         \/ RetentionPasses
         \/ \E m \in Message : PublishChange(m) \/ PublishRecord(m) \/ PublishMessage(m)
  PROVE  StreamsInv'
<1>1. /\ UNCHANGED <<kind, start, acked, committed, stored, streamInbox, session, owedFrom>>
      /\ \/ UNCHANGED log /\ kept < Tip /\ kept' = kept + 1
         \/ UNCHANGED kept /\ \E m \in Message : log' = Append(log, m)
  BY DEF RetentionPasses, PublishChange, PublishRecord, PublishMessage, Published
<1>2. /\ Len(log) \in Nat /\ Tip = Len(log) + 1 /\ Tip \in Nat
      /\ kept \in Nat /\ committed \in Nat /\ stored \in Nat /\ owedFrom \in Nat
      /\ kept <= Tip /\ committed <= Tip /\ stored <= Tip
      /\ session \in [Subscriber -> SessionRecord]
      /\ \A w \in Subscriber :
           /\ session[w] \in SessionRecord /\ SessionSound(session[w])
           /\ session[w].from \in Nat /\ session[w].next \in Nat
           /\ session[w].from <= session[w].next /\ session[w].next <= Tip
           /\ session[w].from <= Tip
  BY StreamTypes
<1>3. /\ log' \in Seq(Message) /\ Len(log') \in Nat /\ Len(log) <= Len(log')
      /\ \A e \in 1..Len(log) : log'[e] = log[e]
  <2>0. log \in Seq(Message)
    BY DEF StreamsInv, StreamsShape
  <2>1. CASE log' = log
    BY <1>2, <2>0, <2>1
  <2>2. ASSUME NEW m \in Message, log' = Append(log, m)
        PROVE  /\ log' \in Seq(Message) /\ Len(log') \in Nat /\ Len(log) <= Len(log')
               /\ \A e \in 1..Len(log) : log'[e] = log[e]
    BY <1>2, <2>0, <2>2, AppendProperties
  <2> QED BY <1>1, <2>1, <2>2
<1>4. /\ kept' \in Nat /\ kept <= kept' /\ Tip' = Len(log') + 1 /\ Tip <= Tip' /\ Tip' \in Nat
      /\ kept' <= Tip'
  <2>1. Tip' = Len(log') + 1 /\ Tip <= Tip' /\ Tip' \in Nat
    BY <1>2, <1>3 DEF Tip
  <2>2. CASE kept' = kept
    BY <1>2, <2>1, <2>2
  <2>3. CASE kept < Tip /\ kept' = kept + 1
    BY <1>2, <2>1, <2>3
  <2> QED BY <1>1, <2>1, <2>2, <2>3
<1>5. ASSUME NEW p \in Nat, p <= Tip, Past(p)
      PROVE  GoneBy(p, owedFrom, log', kept', streamInbox)
  <2>1. p <= Len(log) + 1 /\ GoneBy(p, owedFrom, log, kept, streamInbox)
    BY <1>2, <1>5 DEF Past
  <2> QED BY <1>2, <1>3, <1>4, <2>1, GoneStays
<1>6. StreamsShape'
  <2>1. acked \subseteq 1..Len(log')
    BY <1>2, <1>3 DEF StreamsInv, StreamsShape
  <2>2. committed <= Tip' /\ stored <= Tip' /\ kept' >= 1
    BY <1>2, <1>4, StreamTypes
  <2> QED BY <1>1, <1>2, <1>3, <1>4, <2>1, <2>2, StreamTypes DEF StreamsShape
<1>7. StartsInv'
  BY <1>1 DEF StreamsInv, StartsInv
<1>8. SessionsSound'
  <2> SUFFICES ASSUME NEW w \in Subscriber PROVE SessionSound(session[w])'
    BY DEF SessionsSound
  <2> DEFINE s == session[w]
  <2>0. s' = s
    BY <1>1
  <2>1. s.from <= s.next /\ s.next <= Tip'
    BY <1>2, <1>4
  <2>2. s.pc \notin {"standby", "resume"} /\ owedFrom > 0 /\ kind \notin Queues =>
          GoneBy(s.from, owedFrom, log', kept', streamInbox)
    BY <1>2, <1>5 DEF SessionSound
  <2>3. s.pc = "delivered" =>
          \A e \in 1..Len(log') : s.from <= e /\ e < s.next /\ log'[e] = "wanted" => e \in streamInbox
    <3> SUFFICES ASSUME s.pc = "delivered", NEW e \in 1..Len(log'), s.from <= e, e < s.next,
                        log'[e] = "wanted"
                 PROVE  e \in streamInbox
      OBVIOUS
    <3>1. e \in 1..Len(log)
      BY <1>2, <1>3
    <3> QED BY <1>2, <1>3, <3>1 DEF SessionSound
  <2>4. /\ s.pc \notin {"standby", "resume"} => s.from >= 1
        /\ s.pc \in {"fix", "recv"} => s.next = s.from
        /\ s.pc = "fix" => kind = "kafka"
    BY <1>2 DEF SessionSound
  <2> HIDE DEF s
  <2>5. SessionSound(s)'
    BY <1>1, <2>0, <2>1, <2>2, <2>3, <2>4 DEF SessionSound, Past
  <2> QED BY <2>5 DEF s
<1>9. PositionsInv'
  <2>1. owedFrom > 0 /\ kind \notin Queues =>
          /\ GoneBy(stored, owedFrom, log', kept', streamInbox)
          /\ GoneBy(committed, owedFrom, log', kept', streamInbox)
    BY <1>2, <1>5 DEF StreamsInv, PositionsInv
  <2>2. \A e \in acked : log'[e] = "wanted" => e \in streamInbox
    BY <1>3 DEF StreamsInv, PositionsInv, StreamsShape
  <2> QED BY <1>1, <2>1, <2>2 DEF PositionsInv, Past
<1> QED BY <1>6, <1>7, <1>8, <1>9 DEF StreamsInv

\* A subscription opens where nothing before it is missing.
LEMMA OpenSteps ==
  ASSUME StreamsInv, NEW w \in Subscriber,
         \/ OpenReplay(w) \/ OpenManaged(w) \/ OpenKafka(w) \/ OpenQueue(w) \/ OpenSidecar(w)
  PROVE  StreamsInv'
<1>1. /\ Len(log) \in Nat /\ Tip = Len(log) + 1 /\ Tip \in Nat
      /\ kept \in Nat /\ committed \in Nat /\ stored \in Nat /\ owedFrom \in Nat
      /\ kept <= Tip /\ committed <= Tip /\ stored <= Tip
      /\ kept >= 1 /\ committed >= 1
  BY StreamTypes
<1>2. owedFrom > 0 /\ kind \notin Queues => Past(stored) /\ Past(committed)
  BY DEF StreamsInv, PositionsInv
<1>3. Past(kept)
  BY <1>1 DEF Past, GoneBy
<1>4. StreamBatch \in Nat
  BY StreamsAssumption
<1>5. ASSUME NEW pc \in {"fix", "recv"}, NEW from \in Nat, Opened(w, pc, from),
             from >= 1, from <= Tip, owedFrom > 0 /\ kind \notin Queues => Past(from),
             pc = "fix" => kind = "kafka"
      PROVE  StreamsInv'
  <2> DEFINE s == [pc |-> pc, from |-> from, next |-> from, pending |-> StreamBatch]
  <2>1. /\ s \in SessionRecord /\ s.from = from /\ s.next = from /\ s.pc = pc
    BY <1>4 DEF SessionRecord
  <2>2. session' = [session EXCEPT ![w] = s]
        /\ UNCHANGED <<sourceVars, acked, committed, stored, streamInbox, owedFrom>>
    BY <1>5 DEF Opened, Becomes
  <2> HIDE DEF s
  <2>3. SessionSound(s)
    BY <1>1, <1>5, <2>1 DEF SessionSound
  <2> QED BY <2>1, <2>2, <2>3, SessionMoves
<1>6. /\ stored = 0 => /\ StartsAt \in Nat /\ StartsAt >= 1 /\ StartsAt <= Tip
                       /\ owedFrom > 0 => Past(StartsAt)
  <2>1. stored = 0 /\ owedFrom > 0 => start = "earliest"
    BY <1>1 DEF StreamsInv, StartsInv
  <2>2. StartsAt \in {kept, Tip} /\ (start = "earliest" => StartsAt = kept)
    BY DEF StartsAt
  <2>3. Tip >= 1
    BY <1>1
  <2> QED BY <1>1, <1>3, <2>1, <2>2, <2>3
<1>7. CASE OpenReplay(w)
  <2>1. CASE stored = 0
    <3>1. Opened(w, "recv", StartsAt)
      BY <1>7, <2>1 DEF OpenReplay, ReplayRejected
    <3> QED BY <1>5, <1>6, <2>1, <3>1
  <2>2. CASE stored # 0 /\ stored < kept
    BY <1>1, <1>3, <1>5, <1>7, <2>2 DEF OpenReplay, ReplayRejected
  <2>3. CASE stored # 0 /\ ~(stored < kept)
    <3>1. Opened(w, "recv", stored)
      BY <1>7, <2>3 DEF OpenReplay, ReplayRejected
    <3>2. stored >= 1
      BY <1>1, <2>3
    <3> QED BY <1>1, <1>2, <1>5, <3>1, <3>2
  <2> QED BY <2>1, <2>2, <2>3
<1>8. CASE OpenManaged(w)
  <2> DEFINE m == Max({committed, kept})
  <2>1. m \in {committed, kept} /\ Opened(w, "recv", m)
    BY <1>1, <1>8, MaxOfTwo DEF OpenManaged
  <2> HIDE DEF m
  <2> QED BY <1>1, <1>2, <1>3, <1>5, <2>1
<1>9. CASE OpenKafka(w)
  <2>1. CASE stored = 0
    BY <1>5, <1>6, <1>9, <2>1 DEF OpenKafka
  <2>2. CASE stored # 0
    <3>1. Opened(w, "recv", stored) /\ stored >= 1
      BY <1>1, <1>9, <2>2 DEF OpenKafka
    <3> QED BY <1>1, <1>2, <1>5, <3>1
  <2> QED BY <2>1, <2>2
<1>10. CASE OpenQueue(w) \/ OpenSidecar(w)
  <2>1. Opened(w, "recv", 1) /\ kind \in Queues
    BY <1>10 DEF OpenQueue, OpenSidecar, Queues
  <2>2. 1 \in Nat /\ 1 >= 1 /\ 1 <= Tip
    BY <1>1
  <2> QED BY <1>5, <2>1, <2>2
<1> QED BY <1>7, <1>8, <1>9, <1>10

\* Events arrive.
LEMMA ReceiveSteps ==
  ASSUME StreamsInv, NEW w \in Subscriber,
         \/ \E n \in 0..StreamBatch :
              Subscribe(w, n) \/ ManagedSubscribe(w, n) \/ PollFetches(w, n)
         \/ \E e \in 1..Len(log) : Consume(w, e) \/ ReceiveBatch(w, e)
  PROVE  StreamsInv'
<1> DEFINE s == session[w]
<1>1. /\ Len(log) \in Nat /\ Tip = Len(log) + 1 /\ Tip \in Nat
      /\ kept \in Nat /\ owedFrom \in Nat /\ kept <= Tip /\ kept >= 1
      /\ s \in SessionRecord /\ SessionSound(s)
      /\ s.from \in Nat /\ s.next \in Nat /\ s.pending \in Nat
      /\ s.from <= s.next /\ s.next <= Tip
  BY StreamTypes
<1>2. ASSUME NEW n \in 0..StreamBatch, Receive(w, n), kind \notin Queues PROVE StreamsInv'
  <2> DEFINE first == Max({s.next, kept})
             t == [s EXCEPT !.pc = "received", !.from = first, !.next = first + n,
                            !.pending = @ - n]
  <2>1. /\ s.pc = "recv" /\ n <= s.pending /\ first + n <= Tip
        /\ session' = [session EXCEPT ![w] = t]
        /\ UNCHANGED <<sourceVars, acked, committed, stored, streamInbox, owedFrom>>
    BY <1>2 DEF Receive, Is, Becomes
  <2>2. first \in {s.next, kept} /\ first >= s.next /\ first >= kept
    BY <1>1, MaxOfTwo
  <2> HIDE DEF first
  <2>3. n \in Nat
    BY StreamsAssumption
  <2>4. first \in Nat /\ first + n \in Nat /\ s.pending - n \in Nat /\ first >= 1
    <3>1. /\ s.next \in Nat /\ kept \in Nat /\ kept >= 1 /\ s.pending \in Nat /\ n <= s.pending
      BY <1>1, <2>1
    <3>2. first \in Nat
      BY <2>2, <3>1
    <3> HIDE DEF s
    <3> QED BY <2>2, <2>3, <3>1, <3>2
  <2>5. t \in SessionRecord /\ t.pc = "received" /\ t.from = first /\ t.next = first + n
    <3>1. s \in SessionRecord
      BY <1>1
    <3> HIDE DEF s
    <3>2. t \in SessionRecord
      BY <2>4, <3>1 DEF SessionRecord
    <3>3. t.pc = "received" /\ t.from = first /\ t.next = first + n
      BY <3>1 DEF SessionRecord
    <3> QED BY <3>2, <3>3
  <2>6. owedFrom > 0 => Past(first)
    <3>1. s.next = s.from /\ s.from >= 1 /\ (owedFrom > 0 => Past(s.from))
      BY <1>1, <1>2, <2>1 DEF SessionSound
    <3>2. CASE first = s.next
      BY <3>1, <3>2
    <3>3. CASE first = kept
      BY <1>1, <3>3 DEF Past, GoneBy
    <3> QED BY <2>2, <3>2, <3>3
  <2> HIDE DEF t, s
  <2>7. first <= first + n
    BY <2>3, <2>4
  <2>8. SessionSound(t)
    BY <2>1, <2>4, <2>5, <2>6, <2>7 DEF SessionSound
  <2> QED BY <2>1, <2>5, <2>8, SessionMoves
<1>3. ASSUME NEW e \in 1..Len(log), TakeMessage(w, e), kind \in Queues PROVE StreamsInv'
  <2> DEFINE t == [s EXCEPT !.pc = "received", !.from = e, !.next = e + 1]
  <2>1. /\ session' = [session EXCEPT ![w] = t]
        /\ UNCHANGED <<sourceVars, acked, committed, stored, streamInbox, owedFrom>>
    BY <1>3 DEF TakeMessage, Becomes
  <2>2. e \in Nat /\ e + 1 \in Nat /\ e >= 1 /\ e <= e + 1 /\ e + 1 <= Tip
    BY <1>1
  <2>3. t \in SessionRecord /\ t.pc = "received" /\ t.from = e /\ t.next = e + 1
    BY <1>1, <2>2 DEF SessionRecord
  <2> HIDE DEF t, s
  <2>4. SessionSound(t)
    BY <1>3, <2>2, <2>3 DEF SessionSound
  <2> QED BY <2>1, <2>3, <2>4, SessionMoves
<1> QED BY <1>2, <1>3 DEF Subscribe, ManagedSubscribe, PollFetches, Consume, ReceiveBatch, Queues

\* A position is stored, with the events before it that are wanted: another
\* session keeps what it had, and what is owed begins at this one at most.
LEMMA StoredSteps ==
  ASSUME StreamsInv, NEW w \in Subscriber, NEW pc \in {"recv", "delivered"}, NEW new,
         session[w].pc \notin {"standby", "resume"},
         session' = [session EXCEPT ![w] = [session[w] EXCEPT !.pc = pc]],
         streamInbox' = streamInbox \cup new, Owes(w),
         UNCHANGED <<sourceVars, acked, committed>>,
         kind \in Queues => stored' = stored,
         \/ pc = "recv" /\ session[w].pc = "fix" /\ stored' = session[w].from
         \/ /\ pc = "delivered" /\ stored' \in {stored, session[w].next}
            /\ kind \notin Queues => stored' = session[w].next
            /\ \A e \in 1..Len(log) :
                 session[w].from <= e /\ e < session[w].next /\ log[e] = "wanted" => e \in new
  PROVE  StreamsInv'
<1> DEFINE s == session[w]
           t == [s EXCEPT !.pc = pc]
<1>1. /\ Len(log) \in Nat /\ Tip = Len(log) + 1 /\ Tip \in Nat
      /\ kept \in Nat /\ committed \in Nat /\ stored \in Nat /\ owedFrom \in Nat
      /\ kept <= Tip /\ committed <= Tip /\ stored <= Tip
      /\ kept >= 1 /\ committed >= 1
      /\ session \in [Subscriber -> SessionRecord]
      /\ \A v \in Subscriber :
           /\ session[v] \in SessionRecord /\ SessionSound(session[v])
           /\ session[v].from \in Nat /\ session[v].next \in Nat
           /\ session[v].from <= session[v].next /\ session[v].next <= Tip
           /\ session[v].from <= Tip
  BY StreamTypes
<1>2. UNCHANGED <<kind, start, log, kept>>
  BY DEF sourceVars
<1>3. /\ s.from \in Nat /\ s.next \in Nat /\ s.from <= s.next /\ s.next <= Tip /\ s.from >= 1
      /\ s.from <= Tip
      /\ s.pc = "fix" => s.next = s.from
      /\ owedFrom > 0 /\ kind \notin Queues => Past(s.from)
  BY <1>1 DEF SessionSound
<1>4. t \in SessionRecord /\ t.pc = pc /\ t.from = s.from /\ t.next = s.next
  BY <1>1 DEF SessionRecord
<1>5. /\ session' \in [Subscriber -> SessionRecord] /\ session'[w] = t
      /\ \A v \in Subscriber : v # w => session'[v] = session[v]
  BY <1>1, <1>4
<1> HIDE DEF s, t
<1>6. /\ stored' \in Nat /\ stored' <= Tip /\ stored' \in {stored, s.from, s.next}
      /\ kind \notin Queues => stored' > 0 /\ (stored' = s.from \/ (stored' = s.next /\ pc = "delivered"))
  BY <1>1, <1>3 DEF s
<1>7. \/ owedFrom' = owedFrom /\ owedFrom > 0
      \/ owedFrom' = owedFrom /\ owedFrom = 0
      \/ /\ owedFrom = 0 /\ owedFrom' = s.from /\ kind \notin Queues /\ kind # "managed"
         /\ \A v \in Subscriber : v # w => session[v].pc = "standby"
  <2>1. owedFrom = 0 => kind \notin {"managed"} \cup Queues
    BY <1>1 DEF StreamsInv, StartsInv
  <2> QED BY <1>1, <2>1 DEF Owes, Is, s
<1>8. ASSUME NEW p \in Nat, p <= Tip, Past(p)
      PROVE  GoneBy(p, owedFrom, log, kept, streamInbox')
  <2>1. p <= Len(log) + 1 /\ GoneBy(p, owedFrom, log, kept, streamInbox)
        /\ streamInbox \subseteq streamInbox' /\ Len(log) <= Len(log) /\ kept <= kept
    BY <1>1, <1>8 DEF Past
  <2> QED BY <1>1, <2>1, GoneStays
<1>9. GoneBy(s.from, s.from, log, kept, streamInbox')
  BY <1>1, <1>3 DEF GoneBy
<1>10. owedFrom' > 0 /\ kind \notin Queues => GoneBy(s.from, owedFrom', log, kept, streamInbox')
  BY <1>3, <1>7, <1>8, <1>9
<1>11. pc = "delivered" => \A e \in 1..Len(log) :
         s.from <= e /\ e < s.next /\ log[e] = "wanted" => e \in streamInbox'
  BY DEF s
<1>12. owedFrom' > 0 /\ kind \notin Queues /\ pc = "delivered" =>
         GoneBy(s.next, owedFrom', log, kept, streamInbox')
  <2> SUFFICES ASSUME owedFrom' > 0, kind \notin Queues, pc = "delivered",
                      NEW e \in 1..Len(log), owedFrom' <= e, e < s.next, log[e] = "wanted",
                      e \notin streamInbox'
               PROVE  e < kept
    BY DEF GoneBy
  <2>1. e < s.from
    BY <1>1, <1>3, <1>11
  <2> QED BY <1>10, <2>1 DEF GoneBy
<1>13. StreamsShape'
  <2>1. owedFrom' \in Nat
    BY <1>1, <1>3, <1>7
  <2>2. Tip' = Tip
    BY <1>2 DEF Tip
  <2> QED BY <1>1, <1>2, <1>5, <1>6, <2>1, <2>2 DEF StreamsInv, StreamsShape
<1>14. StartsInv'
  <2>1. kind \in {"managed"} \cup Queues => start = "earliest"
    BY DEF StreamsInv, StartsInv
  <2>2. start = "earliest" => owedFrom > 0 /\ owedFrom' > 0
    BY <1>1, <1>7 DEF StreamsInv, StartsInv
  <2>3. owedFrom' > 0 => start = "earliest" \/ stored' > 0
    <3>1. CASE kind \in Queues
      BY <2>1, <3>1
    <3>2. CASE kind \notin Queues
      BY <1>6, <3>2
    <3> QED BY <3>1, <3>2
  <2>4. kind # "managed" => committed = 1
    BY DEF StreamsInv, StartsInv
  <2> QED BY <1>2, <2>1, <2>2, <2>3, <2>4 DEF StartsInv
<1>15. SessionsSound'
  <2> SUFFICES ASSUME NEW v \in Subscriber PROVE SessionSound(session[v])'
    BY DEF SessionsSound
  <2>0. Tip' = Tip /\ Len(log)' = Len(log)
    BY <1>2 DEF Tip
  <2>1. CASE v = w
    <3>1. /\ t.from <= t.next /\ t.next <= Tip' /\ t.from >= 1
          /\ t.pc \in {"fix", "recv"} => t.next = t.from /\ t.pc # "fix"
      BY <1>3, <1>4, <2>0 DEF s
    <3>2. owedFrom' > 0 /\ kind \notin Queues => GoneBy(t.from, owedFrom', log', kept', streamInbox')
      BY <1>2, <1>4, <1>10
    <3>3. t.pc = "delivered" => \A e \in 1..Len(log') :
            t.from <= e /\ e < t.next /\ log'[e] = "wanted" => e \in streamInbox'
      BY <1>2, <1>4, <1>11
    <3>4. session[v]' = t
      BY <1>5, <2>1
    <3> QED BY <1>2, <3>1, <3>2, <3>3, <3>4 DEF SessionSound, Past
  <2>2. CASE v # w
    <3> DEFINE r == session[v]
    <3>1. r' = r
      BY <1>5, <2>2
    <3>2. /\ r.from <= r.next /\ r.next <= Tip /\ r.from <= Tip /\ r.from \in Nat
          /\ r.pc \notin {"standby", "resume"} => r.from >= 1
          /\ r.pc \in {"fix", "recv"} => r.next = r.from
          /\ r.pc = "fix" => kind = "kafka"
          /\ r.pc = "delivered" => \A e \in 1..Len(log) :
               r.from <= e /\ e < r.next /\ log[e] = "wanted" => e \in streamInbox
      BY <1>1 DEF SessionSound
    <3>3. r.pc \notin {"standby", "resume"} /\ owedFrom' > 0 /\ kind \notin Queues =>
            GoneBy(r.from, owedFrom', log, kept, streamInbox')
      <4> SUFFICES ASSUME r.pc \notin {"standby", "resume"}, owedFrom' > 0, kind \notin Queues
                   PROVE  GoneBy(r.from, owedFrom', log, kept, streamInbox')
        OBVIOUS
      <4>1. owedFrom' = owedFrom
        BY <1>7, <2>2
      <4>2. Past(r.from)
        BY <1>1, <4>1 DEF SessionSound
      <4> QED BY <1>8, <3>2, <4>1, <4>2
    <3> HIDE DEF r
    <3>4. SessionSound(r)'
      BY <1>2, <2>0, <3>1, <3>2, <3>3 DEF SessionSound, Past
    <3> QED BY <3>4 DEF r
  <2> QED BY <2>1, <2>2
<1>16. PositionsInv'
  <2>1. ASSUME owedFrom' > 0, kind \notin Queues
        PROVE  GoneBy(stored', owedFrom', log, kept, streamInbox')
    BY <1>6, <1>10, <1>12, <2>1
  <2>2. ASSUME owedFrom' > 0, kind \notin Queues
        PROVE  GoneBy(committed, owedFrom', log, kept, streamInbox')
    <3>1. CASE owedFrom' = owedFrom
      <4>1. Past(committed)
        BY <2>2, <3>1 DEF StreamsInv, PositionsInv
      <4> QED BY <1>1, <1>8, <3>1, <4>1
    <3>2. CASE owedFrom' # owedFrom
      <4>1. committed = 1
        BY <1>7, <3>2 DEF StreamsInv, StartsInv
      <4> QED BY <1>1, <4>1 DEF GoneBy
    <3> QED BY <3>1, <3>2
  <2>3. \A e \in acked : log[e] = "wanted" => e \in streamInbox'
    BY DEF StreamsInv, PositionsInv
  <2> QED BY <1>2, <2>1, <2>2, <2>3 DEF PositionsInv, Past
<1> QED BY <1>13, <1>14, <1>15, <1>16 DEF StreamsInv

\* A position is committed or a message acknowledged, or nothing is, and the
\* session reads on.
LEMMA CommitSteps ==
  ASSUME StreamsInv, NEW w \in Subscriber,
         CommitReplay(w) \/ Ack(w) \/ AckBatch(w) \/ Continue(w)
  PROVE  StreamsInv'
<1> DEFINE s == session[w]
           t == [s EXCEPT !.pc = "recv", !.from = s.next, !.pending = Asked(@)]
<1>1. /\ Len(log) \in Nat /\ Tip = Len(log) + 1 /\ Tip \in Nat
      /\ kept \in Nat /\ committed \in Nat /\ stored \in Nat /\ owedFrom \in Nat
      /\ kept <= Tip /\ committed <= Tip /\ stored <= Tip
      /\ s \in SessionRecord /\ SessionSound(s)
      /\ s.from \in Nat /\ s.next \in Nat /\ s.pending \in Nat
      /\ s.from <= s.next /\ s.next <= Tip
  BY StreamTypes
<1>2. /\ s.pc = "delivered" /\ session' = [session EXCEPT ![w] = t]
      /\ UNCHANGED <<sourceVars, stored, streamInbox, owedFrom>>
      /\ \/ UNCHANGED <<acked, committed>>
         \/ UNCHANGED acked /\ kind = "managed" /\ committed' = s.next
         \/ UNCHANGED committed /\ kind \in Queues /\ acked' = acked \cup (s.from .. (s.next - 1))
  BY DEF CommitReplay, Ack, AckBatch, Acknowledged, Continue, MayCommit, Is, GoOn, Becomes,
         ReceivedBy, Queues
<1>3. s.from >= 1 /\ s.next >= 1 /\ (owedFrom > 0 /\ kind \notin Queues => Past(s.from))
  BY <1>1, <1>2 DEF SessionSound
<1>4. \A e \in 1..Len(log) : s.from <= e /\ e < s.next /\ log[e] = "wanted" => e \in streamInbox
  BY <1>1, <1>2 DEF SessionSound
<1>5. owedFrom > 0 /\ kind \notin Queues => Past(s.next)
  <2> SUFFICES ASSUME owedFrom > 0, kind \notin Queues,
                      NEW e \in 1..Len(log), owedFrom <= e, e < s.next, log[e] = "wanted",
                      e \notin streamInbox
               PROVE  e < kept
    BY DEF Past, GoneBy
  <2>1. e < s.from
    BY <1>1, <1>4
  <2> QED BY <1>3, <2>1 DEF Past, GoneBy
<1>6. t \in SessionRecord /\ t.pc = "recv" /\ t.from = s.next /\ t.next = s.next
  <2>1. Asked(s.pending) \in Nat
    BY <1>1, StreamsAssumption DEF Asked
  <2> QED BY <1>1, <2>1 DEF SessionRecord
<1> HIDE DEF t
<1>7. SessionSound(t)
  <2>1. s.next <= s.next
    BY <1>1
  <2> HIDE DEF s
  <2> QED BY <1>1, <1>3, <1>5, <1>6, <2>1 DEF SessionSound
<1> HIDE DEF s
<1>8. CASE UNCHANGED <<acked, committed>>
  BY <1>2, <1>6, <1>7, <1>8, SessionMoves
<1>9. UNCHANGED <<kind, start, log, kept, stored, streamInbox, owedFrom>> /\ Tip' = Tip
  BY <1>2 DEF sourceVars, Tip
<1>10. /\ session' \in [Subscriber -> SessionRecord] /\ SessionsSound'
  <2>1. session \in [Subscriber -> SessionRecord] /\ \A v \in Subscriber : SessionSound(session[v])
    BY StreamTypes
  <2>2. session' \in [Subscriber -> SessionRecord] /\ \A v \in Subscriber : SessionSound(session'[v])
    BY <1>2, <1>6, <1>7, <2>1
  <2>3. SessionsSound'
    BY <1>9, <2>2 DEF SessionsSound, SessionSound, Past
  <2> QED BY <2>2, <2>3
<1>11. CASE UNCHANGED acked /\ kind = "managed" /\ committed' = s.next
  <2>1. StreamsShape'
    BY <1>1, <1>3, <1>9, <1>10, <1>11 DEF StreamsInv, StreamsShape
  <2>2. StartsInv'
    BY <1>9, <1>11 DEF StreamsInv, StartsInv
  <2>3. PositionsInv'
    BY <1>5, <1>9, <1>11 DEF StreamsInv, PositionsInv, Past
  <2> QED BY <1>10, <2>1, <2>2, <2>3 DEF StreamsInv
<1>12. CASE UNCHANGED committed /\ kind \in Queues /\ acked' = acked \cup (s.from .. (s.next - 1))
  <2>0. \A e \in s.from .. (s.next - 1) : e \in 1..Len(log) /\ s.from <= e /\ e < s.next
    BY <1>1, <1>3
  <2>1. StreamsShape'
    BY <1>9, <1>10, <1>12, <2>0 DEF StreamsInv, StreamsShape
  <2>2. StartsInv'
    BY <1>9, <1>12 DEF StreamsInv, StartsInv
  <2>3. PositionsInv'
    <3>1. \A e \in acked' : log[e] = "wanted" => e \in streamInbox
      BY <1>4, <1>12, <2>0 DEF StreamsInv, PositionsInv
    <3> QED BY <1>9, <1>12, <3>1 DEF PositionsInv
  <2> QED BY <1>10, <2>1, <2>2, <2>3 DEF StreamsInv
<1> QED BY <1>2, <1>8, <1>11, <1>12

\* Every step of a subscription keeps what is known of its positions.
LEMMA StreamsStaySound == StreamsSpec => []StreamsInv
<1>1. StreamsInit => StreamsInv
  <2> SUFFICES ASSUME StreamsInit PROVE StreamsInv
    OBVIOUS
  <2>1. /\ log = <<>> /\ log \in Seq(Message) /\ Len(log) = 0 /\ Tip = 1 /\ 1..Len(log) = {}
        /\ owedFrom \in {0, 1}
    BY DEF StreamsInit, Tip
  <2>2. /\ Standby \in SessionRecord /\ Standby.from = 0 /\ Standby.next = 0
        /\ Standby.pc = "standby"
    BY DEF Standby, SessionRecord
  <2>3. StreamsShape
    BY <2>1, <2>2 DEF StreamsInit, StartsFrom, StreamsShape
  <2>4. StartsInv
    BY DEF StreamsInit, StartsFrom, StartsInv
  <2>5. SessionSound(Standby)
    BY <2>1, <2>2 DEF SessionSound
  <2>6. SessionsSound
    BY <2>5 DEF StreamsInit, SessionsSound
  <2>7. PositionsInv
    BY <2>1 DEF StreamsInit, StartsFrom, PositionsInv, Past, GoneBy
  <2> QED BY <2>3, <2>4, <2>6, <2>7 DEF StreamsInv
<1>2. ASSUME StreamsInv, [StreamsNext]_streamVars PROVE StreamsInv'
  <2>1. ASSUME UNCHANGED <<sourceVars, acked, committed, stored, streamInbox, session, owedFrom>>
        PROVE  StreamsInv'
    BY <1>2, <2>1 DEF StreamsInv, StreamsShape, StartsInv, SessionsSound, SessionSound,
                      PositionsInv, Past, Tip, sourceVars
  <2>2. ASSUME NEW w \in Subscriber, TryLock(w) \/ SessionEnds(w) PROVE StreamsInv'
    <3>1. \E s \in {Standby, [Standby EXCEPT !.pc = "resume"]} :
            /\ session' = [session EXCEPT ![w] = s]
            /\ UNCHANGED <<sourceVars, acked, committed, stored, streamInbox, owedFrom>>
      BY <2>2 DEF TryLock, SessionEnds, Becomes
    <3>2. \A s \in {Standby, [Standby EXCEPT !.pc = "resume"]} :
            /\ s \in SessionRecord /\ s.from = 0 /\ s.next = 0 /\ s.pc \in {"standby", "resume"}
      BY DEF Standby, SessionRecord
    <3>3. 0 <= Tip /\ 0 <= 0
      BY <1>2, StreamTypes
    <3>4. \A s \in {Standby, [Standby EXCEPT !.pc = "resume"]} : SessionSound(s)
      BY <3>2, <3>3 DEF SessionSound
    <3> QED BY <1>2, <3>1, <3>2, <3>4, SessionMoves
  <2>3. ASSUME NEW w \in Subscriber, StartFixed(w) PROVE StreamsInv'
    <3>1. /\ session[w].pc = "fix" /\ stored' = session[w].from
          /\ session' = [session EXCEPT ![w] = [session[w] EXCEPT !.pc = "recv"]]
          /\ streamInbox' = streamInbox \cup {} /\ Owes(w)
          /\ UNCHANGED <<sourceVars, acked, committed>>
      BY <2>3 DEF StartFixed, Is, Becomes
    <3>2. kind \notin Queues
      BY <1>2, <3>1 DEF StreamsInv, SessionsSound, SessionSound, Queues
    <3> QED BY <1>2, <3>1, <3>2, StoredSteps
  <2>4. ASSUME NEW w \in Subscriber,
               HandOver(w) \/ DeliverRecords(w) \/ ConvertMessage(w) \/ DeliverBatch(w)
        PROVE  StreamsInv'
    <3>1. PICK position \in {session[w].next, stored} :
            /\ DeliverStream(w, position)
            /\ kind \in Queues => position = stored
            /\ kind \notin Queues => position = session[w].next
      BY <2>4 DEF HandOver, DeliverRecords, ConvertMessage, DeliverBatch, Queues
    <3>2. /\ session[w].pc = "received" /\ stored' = position
          /\ session' = [session EXCEPT ![w] = [session[w] EXCEPT !.pc = "delivered"]]
          /\ streamInbox' = streamInbox \cup WantedBy(w) /\ Owes(w)
          /\ UNCHANGED <<sourceVars, acked, committed>>
      BY <3>1 DEF DeliverStream, Is, Becomes
    <3>3. \A e \in 1..Len(log) :
            session[w].from <= e /\ e < session[w].next /\ log[e] = "wanted" => e \in WantedBy(w)
      <4>1. session[w].from \in Nat /\ session[w].next \in Nat /\ Len(log) \in Nat
        BY <1>2, StreamTypes
      <4> QED BY <4>1 DEF WantedBy, ReceivedBy
    <3> QED BY <1>2, <3>1, <3>2, <3>3, StoredSteps
  <2>5. CASE LockLost \/ UNCHANGED streamVars
    BY <2>1, <2>5 DEF LockLost, streamVars
  <2>6. CASE \E w \in Subscriber :
          \/ TryLock(w) \/ SessionEnds(w)
          \/ OpenReplay(w) \/ OpenManaged(w) \/ OpenKafka(w) \/ OpenQueue(w) \/ OpenSidecar(w)
          \/ StartFixed(w)
          \/ \E n \in 0..StreamBatch :
               Subscribe(w, n) \/ ManagedSubscribe(w, n) \/ PollFetches(w, n)
          \/ \E e \in 1..Len(log) : Consume(w, e) \/ ReceiveBatch(w, e)
          \/ HandOver(w) \/ DeliverRecords(w) \/ ConvertMessage(w) \/ DeliverBatch(w)
          \/ CommitReplay(w) \/ Ack(w) \/ AckBatch(w) \/ Continue(w)
    BY <1>2, <2>2, <2>3, <2>4, <2>6, OpenSteps, ReceiveSteps, CommitSteps
  <2> QED BY <1>2, <2>5, <2>6, SourceSteps DEF StreamsNext
<1> QED BY <1>1, <1>2, PTL DEF StreamsSpec

\* Wherever a subscription fails, its worker dies or its lock is lost, and
\* with two sessions reading at once, every event the subscription owes is
\* in the inbox, or the next subscription gets it, or the source's retention
\* has passed it; for every kind of subscription.
THEOREM EventsAreNotLost == StreamsSpec => []NoEventLost
<1>1. StreamsInv => NoEventLost
  <2> SUFFICES ASSUME StreamsInv, owedFrom > 0, NEW e \in owedFrom..Len(log), log[e] = "wanted",
                      e \notin streamInbox, ~(e < kept)
               PROVE  Obtainable(e)
    BY DEF NoEventLost
  <2>1. /\ Len(log) \in Nat /\ owedFrom \in Nat /\ committed \in Nat /\ stored \in Nat
    BY StreamTypes
  <2>2. e \in 1..Len(log) /\ owedFrom <= e
    BY <2>1
  <2>3. CASE kind \in Queues
    <3>1. e \notin acked
      BY DEF StreamsInv, PositionsInv
    <3> QED BY <2>3, <3>1 DEF Obtainable
  <2>4. CASE kind \notin Queues
    <3>1. ~(e < stored) /\ ~(e < committed)
      BY <2>2, <2>4 DEF StreamsInv, PositionsInv, Past, GoneBy
    <3>2. e >= stored /\ e >= committed
      BY <2>1, <2>2, <3>1
    <3>3. stored = 0 => start = "earliest"
      BY <2>1 DEF StreamsInv, StartsInv
    <3>4. CASE kind = "managed"
      BY <2>4, <3>2, <3>4 DEF Obtainable
    <3>5. CASE kind # "managed" /\ stored = 0
      BY <2>4, <3>3, <3>5 DEF Obtainable
    <3>6. CASE kind # "managed" /\ stored # 0
      BY <2>4, <3>2, <3>6 DEF Obtainable
    <3> QED BY <3>4, <3>5, <3>6
  <2> QED BY <2>3, <2>4
<1> QED BY <1>1, StreamsStaySound, PTL

-----------------------------------------------------------------------------
(* Sessions. *)

SendRecord ==
  [pc: {"idle", "apply", "send", "answer", "ok", "refused", "failed"},
   reads: BOOLEAN, token: Nat, csrf: Nat, retried: BOOLEAN,
   answer: {"none", "ok", "unauthorized", "required"},
   cookie: Nat, first: Nat, overlapped: BOOLEAN, endedAgain: BOOLEAN]

TokenApi == {"bc", "dataverse", "mesh", "qbo", "xero", "b1", "salesforce"}
StaticApi == Static \ {"sap"}

\* The types: a call's tokens and SAP sessions are among those given out.
CallWithin(s, n, m) == s.token <= n /\ s.first <= n /\ s.csrf <= m /\ s.cookie <= m
SessionsTyped ==
  /\ api \in SessionApi
  /\ ended \in 0..MaxEnded /\ revoked \in BOOLEAN
  /\ sids \in 0..MaxSids /\ openSids \subseteq 1..sids
  /\ grants \in Seq(0..ended) /\ Len(grants) <= MaxGrants
  /\ cached \in 0..Len(grants) /\ stale \in BOOLEAN
  /\ csrf \in 0..sids /\ jar \in 0..sids
  /\ scall \in [SessionCall -> SendRecord]
  /\ \A c \in SessionCall : CallWithin(scall[c], Len(grants), sids)

\* A call that no other overlaps has the token and the cookie to itself.
CallsAlone ==
  \A c, d \in SessionCall :
    InProgress(c) /\ ~scall[c].overlapped /\ InProgress(d) => d = c

\* Tokens are given out in order, the shared one is the last, and each one
\* of a lasting kind was given out after an ending of its own.
GrantsInv ==
  /\ cached \in {0, Len(grants)}
  /\ \A t \in 1..Len(grants) : grants[t] <= ended
  /\ \A t, u \in 1..Len(grants) : t < u => grants[t] <= grants[u]
  /\ api \in Lasting =>
       /\ ~stale
       /\ cached = 0 => \A t \in 1..Len(grants) : grants[t] < ended
       /\ \A t, u \in 1..Len(grants) : t < u => grants[t] < grants[u]

\* The second token is of a later ending than the first, or another call got
\* it before the same one.
Renewed(a, s, g) ==
  /\ s.first >= 1 /\ s.token >= 1
  /\ \/ g[s.token] > g[s.first]
     \/ /\ a \notin Lasting /\ s.overlapped /\ s.token # s.first
        /\ g[s.token] = g[s.first]

\* A call with a shared token: a refused token is dropped, and refused only
\* once the sessions have ended since it was given out.
TokenCall(a, s, g, e, k, r) ==
  /\ s.pc = "apply" /\ ~s.retried => s.first = 0
  /\ s.pc \in {"send", "answer"} /\ ~s.retried =>
       s.first = s.token /\ s.token >= 1 /\ (s.overlapped \/ k = s.token)
  /\ s.pc = "apply" /\ s.retried =>
       s.first >= 1 /\ g[s.first] < e /\ k # s.first /\ (s.overlapped \/ k = 0)
  /\ s.pc \in {"send", "answer"} /\ s.retried => Renewed(a, s, g)
  /\ s.pc = "answer" =>
       s.answer \in {"ok", "unauthorized"} /\ (s.answer = "unauthorized" => g[s.token] < e)
  /\ s.pc = "refused" => r \/ (Renewed(a, s, g) /\ g[s.token] < e)
TokenCalls ==
  GrantsInv /\ \A c \in SessionCall : TokenCall(api, scall[c], grants, ended, cached, revoked)

\* A call with a static credential is refused when that was revoked.
StaticCall(s, r) ==
  /\ s.pc = "answer" =>
       s.answer \in {"ok", "unauthorized"} /\ (s.answer = "unauthorized" => r)
  /\ s.pc = "refused" => r
StaticCalls == \A c \in SessionCall : StaticCall(scall[c], revoked)

\* The second try of a SAP write that no other call overlaps is for the
\* session of the cookie, which is open unless the sessions ended again.
SapCall(s, o, k, j, r) ==
  /\ s.retried => ~s.reads
  /\ s.pc = "answer" =>
       /\ s.answer # "none" /\ (s.answer = "unauthorized" => r)
       /\ s.reads => s.answer # "required"
  /\ s.retried /\ ~s.overlapped /\ ~s.endedAgain =>
       /\ s.pc = "apply" => k = 0
       /\ s.pc = "send" => s.csrf = j /\ j \in o
       /\ s.pc = "answer" => s.answer # "required"
  /\ s.pc = "refused" => r \/ s.overlapped \/ s.endedAgain
SapCalls == \A c \in SessionCall : SapCall(scall[c], openSids, csrf, jar, revoked)

\* A system that is none of those gets no call.
NoCalls == \A c \in SessionCall : scall[c].pc \notin {"send", "answer", "refused"}

SessionsInv ==
  /\ SessionsTyped /\ CallsAlone
  /\ api \in TokenApi => TokenCalls
  /\ api \in StaticApi => StaticCalls
  /\ api = "sap" => SapCalls
  /\ api \notin TokenApi \cup Static => NoCalls

\* The kinds of system are distinct.
LEMMA ApisDiffer ==
  /\ api \in TokenApi => api \notin Static /\ api # "sap"
  /\ api \in StaticApi => api \in Static /\ api \notin TokenApi /\ api # "sap"
  /\ api = "sap" => api \in Static /\ api \notin TokenApi /\ api \notin StaticApi
  /\ api \in Static => api = "sap" \/ api \in StaticApi
BY DEF TokenApi, StaticApi, Static

\* What a system with tokens accepts, and one with a static credential.
LEMMA AcceptedIs ==
  ASSUME NEW c \in SessionCall
  PROVE  /\ api \in TokenApi => (Accepted(c) <=> grants[scall[c].token] = ended)
         /\ api \in StaticApi => (Accepted(c) <=> ~revoked)
<1>1. CASE api = "bc"
  BY <1>1 DEF Accepted, BcServes, GoodToken, StaticApi, Static
<1>2. CASE api = "dataverse"
  BY <1>2 DEF Accepted, DataverseServes, GoodToken, StaticApi, Static
<1>3. CASE api = "qbo"
  BY <1>3 DEF Accepted, QboServes, GoodToken, StaticApi, Static
<1>4. CASE api = "xero"
  BY <1>4 DEF Accepted, XeroServes, GoodToken, StaticApi, Static
<1>5. CASE api = "b1"
  BY <1>5 DEF Accepted, B1Serves, GoodToken, StaticApi, Static
<1>6. CASE api = "salesforce"
  BY <1>6 DEF Accepted, SalesforceServes, GoodToken, StaticApi, Static
<1>7. CASE api = "mesh"
  BY <1>7 DEF Accepted, MeshServes, GoodToken, StaticApi, Static
<1>8. CASE api = "netsuite"
  BY <1>8 DEF Accepted, NetsuiteServes, TokenApi
<1>9. CASE api = "hubspot"
  BY <1>9 DEF Accepted, HubspotServes, TokenApi
<1>10. CASE api = "stripe"
  BY <1>10 DEF Accepted, StripeServes, TokenApi
<1>11. CASE api = "shop"
  BY <1>11 DEF Accepted, ShopServes, TokenApi
<1>12. CASE api = "odoo"
  BY <1>12 DEF Accepted, OdooServes, TokenApi
<1> QED BY <1>1, <1>2, <1>3, <1>4, <1>5, <1>6, <1>7, <1>8, <1>9, <1>10, <1>11, <1>12
        DEF TokenApi, StaticApi, Static

\* A step of one call leaves the others as they are, and what it keeps of
\* its own: the history and the kind of request.
OnlyCall(c) ==
  /\ scall' \in [SessionCall -> SendRecord]
  /\ \A d \in SessionCall : d # c => scall'[d] = scall[d]
  /\ scall'[c].reads = scall[c].reads /\ scall'[c].overlapped = scall[c].overlapped
  /\ scall'[c].endedAgain = scall[c].endedAgain

\* The forms a call's step takes, with the fields it changes.
LEMMA CallSends ==
  ASSUME scall \in [SessionCall -> SendRecord], NEW c \in SessionCall,
         NEW x \in Nat, NEW k \in Nat, Sends(c, x, k)
  PROVE  /\ OnlyCall(c) /\ scall'[c].pc = "send" /\ scall'[c].token = x /\ scall'[c].csrf = k
         /\ scall'[c].first = (IF scall[c].first = 0 THEN x ELSE scall[c].first)
         /\ scall'[c].retried = scall[c].retried /\ scall'[c].answer = scall[c].answer
         /\ scall'[c].cookie = scall[c].cookie
<1>1. scall[c] \in SendRecord
  OBVIOUS
<1> DEFINE t == [scall[c] EXCEPT !.pc = "send", !.token = x, !.csrf = k,
                                 !.first = IF @ = 0 THEN x ELSE @]
<1>2. t \in SendRecord
  BY <1>1 DEF SendRecord
<1>3. /\ scall' \in [SessionCall -> SendRecord] /\ scall'[c] = t
      /\ \A d \in SessionCall : d # c => scall'[d] = scall[d]
  BY <1>2 DEF Sends
<1>4. /\ t.pc = "send" /\ t.token = x /\ t.csrf = k
      /\ t.first = (IF scall[c].first = 0 THEN x ELSE scall[c].first)
      /\ t.retried = scall[c].retried /\ t.answer = scall[c].answer
      /\ t.cookie = scall[c].cookie /\ t.reads = scall[c].reads
      /\ t.overlapped = scall[c].overlapped /\ t.endedAgain = scall[c].endedAgain
  BY <1>1 DEF SendRecord
<1> HIDE DEF t
<1> QED BY <1>3, <1>4 DEF OnlyCall
\* A call that was answered keeps what it sent, and has the answer.
LEMMA CallAnswered ==
  ASSUME scall \in [SessionCall -> SendRecord], NEW c \in SessionCall,
         NEW x \in {"ok", "unauthorized", "required"}, NEW k \in Nat, SessionAnswers(c, x, k)
  PROVE  /\ OnlyCall(c) /\ scall'[c].pc = "answer" /\ scall'[c].answer = x
         /\ scall'[c].cookie = k /\ scall'[c].token = scall[c].token
         /\ scall'[c].csrf = scall[c].csrf /\ scall'[c].first = scall[c].first
         /\ scall'[c].retried = scall[c].retried
<1>1. scall[c] \in SendRecord
  OBVIOUS
<1> DEFINE t == [scall[c] EXCEPT !.pc = "answer", !.answer = x, !.cookie = k]
<1>2. t \in SendRecord
  BY <1>1 DEF SendRecord
<1>3. /\ scall' \in [SessionCall -> SendRecord] /\ scall'[c] = t
      /\ \A d \in SessionCall : d # c => scall'[d] = scall[d]
  BY <1>2 DEF SessionAnswers
<1>4. /\ t.pc = "answer" /\ t.answer = x /\ t.cookie = k
      /\ t.token = scall[c].token /\ t.csrf = scall[c].csrf /\ t.first = scall[c].first
      /\ t.retried = scall[c].retried /\ t.reads = scall[c].reads
      /\ t.overlapped = scall[c].overlapped /\ t.endedAgain = scall[c].endedAgain
  BY <1>1 DEF SendRecord
<1> HIDE DEF t
<1> QED BY <1>3, <1>4 DEF OnlyCall
\* A call that ends keeps what it sent.
LEMMA CallEnds ==
  ASSUME scall \in [SessionCall -> SendRecord], NEW c \in SessionCall,
         NEW how \in {"ok", "refused", "failed"}, Ends(c, how)
  PROVE  /\ OnlyCall(c) /\ scall'[c].pc = how /\ scall'[c].token = scall[c].token
         /\ scall'[c].csrf = scall[c].csrf /\ scall'[c].first = scall[c].first
         /\ scall'[c].cookie = scall[c].cookie /\ scall'[c].retried = scall[c].retried
<1>1. scall[c] \in SendRecord
  OBVIOUS
<1> DEFINE t == [scall[c] EXCEPT !.pc = how]
<1>2. t \in SendRecord
  BY <1>1 DEF SendRecord
<1>3. /\ scall' \in [SessionCall -> SendRecord] /\ scall'[c] = t
      /\ \A d \in SessionCall : d # c => scall'[d] = scall[d]
  BY <1>2 DEF Ends
<1>4. /\ t.pc = how /\ t.cookie = scall[c].cookie
      /\ t.token = scall[c].token /\ t.csrf = scall[c].csrf /\ t.first = scall[c].first
      /\ t.retried = scall[c].retried /\ t.reads = scall[c].reads
      /\ t.overlapped = scall[c].overlapped /\ t.endedAgain = scall[c].endedAgain
  BY <1>1 DEF SendRecord
<1> HIDE DEF t
<1> QED BY <1>3, <1>4 DEF OnlyCall
\* A call that tries again has yet to be answered.
LEMMA CallTriesAgain ==
  ASSUME scall \in [SessionCall -> SendRecord], NEW c \in SessionCall, TriesAgain(c)
  PROVE  /\ OnlyCall(c) /\ scall'[c].pc = "apply" /\ scall'[c].retried = TRUE
         /\ scall'[c].answer = "none" /\ scall'[c].cookie = scall[c].cookie
         /\ scall'[c].token = scall[c].token /\ scall'[c].csrf = scall[c].csrf
         /\ scall'[c].first = scall[c].first
<1>1. scall[c] \in SendRecord
  OBVIOUS
<1> DEFINE t == [scall[c] EXCEPT !.pc = "apply", !.retried = TRUE, !.answer = "none"]
<1>2. t \in SendRecord
  BY <1>1 DEF SendRecord
<1>3. /\ scall' \in [SessionCall -> SendRecord] /\ scall'[c] = t
      /\ \A d \in SessionCall : d # c => scall'[d] = scall[d]
  BY <1>2 DEF TriesAgain
<1>4. /\ t.pc = "apply" /\ t.retried = TRUE /\ t.answer = "none" /\ t.cookie = scall[c].cookie
      /\ t.token = scall[c].token /\ t.csrf = scall[c].csrf /\ t.first = scall[c].first
      /\ t.reads = scall[c].reads
      /\ t.overlapped = scall[c].overlapped /\ t.endedAgain = scall[c].endedAgain
  BY <1>1 DEF SendRecord
<1> HIDE DEF t
<1> QED BY <1>3, <1>4 DEF OnlyCall
\* A call closes, refused unless its answer is ok.
LEMMA CallCloses ==
  ASSUME scall \in [SessionCall -> SendRecord], NEW c \in SessionCall, Closes(c)
  PROVE  /\ OnlyCall(c) /\ scall'[c].pc \in {"ok", "refused"}
         /\ (scall'[c].pc = "refused" => scall[c].answer # "ok")
         /\ scall'[c].token = scall[c].token
         /\ scall'[c].csrf = scall[c].csrf /\ scall'[c].first = scall[c].first
         /\ scall'[c].cookie = scall[c].cookie /\ scall'[c].retried = scall[c].retried
<1>1. PICK how \in {"ok", "refused"} : Ends(c, how) /\ (how = "refused" => scall[c].answer # "ok")
  BY DEF Closes
<1> QED BY <1>1, CallEnds

\* What a new call and an ending do to every call.
LEMMA CallStarts ==
  ASSUME scall \in [SessionCall -> SendRecord], NEW c \in SessionCall, StartCall(c)
  PROVE  /\ scall' \in [SessionCall -> SendRecord]
         /\ scall'[c].pc = "apply" /\ scall'[c].retried = FALSE /\ scall'[c].answer = "none"
         /\ scall'[c].token = 0 /\ scall'[c].csrf = 0 /\ scall'[c].cookie = 0 /\ scall'[c].first = 0
         /\ scall'[c].overlapped = (\E e \in SessionCall : InProgress(e))
         /\ \A d \in SessionCall : d # c =>
              \/ InProgress(d) /\ scall'[d] = [scall[d] EXCEPT !.overlapped = TRUE]
              \/ ~InProgress(d) /\ scall'[d] = scall[d]
<1>1. PICK b \in BOOLEAN :
       scall' = [d \in SessionCall |->
                   IF d = c THEN [NoSend EXCEPT !.pc = "apply", !.reads = b,
                                    !.overlapped = \E e \in SessionCall : InProgress(e)]
                   ELSE IF InProgress(d) THEN [scall[d] EXCEPT !.overlapped = TRUE]
                   ELSE scall[d]]
  BY DEF StartCall
<1> DEFINE any == \E e \in SessionCall : InProgress(e)
<1> DEFINE t == [NoSend EXCEPT !.pc = "apply", !.reads = b, !.overlapped = any]
<1>2. any \in BOOLEAN
  OBVIOUS
<1>3. scall'[c] = t /\ \A d \in SessionCall : d # c =>
              \/ InProgress(d) /\ scall'[d] = [scall[d] EXCEPT !.overlapped = TRUE]
              \/ ~InProgress(d) /\ scall'[d] = scall[d]
  BY <1>1
<1> HIDE DEF any
<1>4. /\ t \in SendRecord /\ t.pc = "apply" /\ t.retried = FALSE /\ t.answer = "none"
      /\ t.token = 0 /\ t.csrf = 0 /\ t.cookie = 0 /\ t.first = 0 /\ t.overlapped = any
  BY <1>2 DEF NoSend, SendRecord
<1> HIDE DEF t
<1>5. ASSUME NEW d \in SessionCall PROVE scall'[d] \in SendRecord
  <2>1. [scall[d] EXCEPT !.overlapped = TRUE] \in SendRecord /\ scall[d] \in SendRecord
    BY DEF SendRecord
  <2> QED BY <1>3, <1>4, <2>1
<1>6. scall' \in [SessionCall -> SendRecord]
  BY <1>1, <1>5
<1> QED BY <1>3, <1>4, <1>6 DEF any
\* The history fields of a call do not touch the others.
LEMMA FieldsKept ==
  ASSUME NEW s \in SendRecord, NEW t,
         t \in {s, [s EXCEPT !.overlapped = TRUE], [s EXCEPT !.endedAgain = TRUE]}
  PROVE  /\ t \in SendRecord
         /\ t.pc = s.pc /\ t.reads = s.reads /\ t.retried = s.retried /\ t.answer = s.answer
         /\ t.token = s.token /\ t.csrf = s.csrf /\ t.cookie = s.cookie /\ t.first = s.first
         /\ (s.overlapped => t.overlapped) /\ (s.endedAgain => t.endedAgain)
         /\ t # [s EXCEPT !.overlapped = TRUE] => t.overlapped = s.overlapped
         /\ t # [s EXCEPT !.endedAgain = TRUE] => t.endedAgain = s.endedAgain
         /\ t = [s EXCEPT !.overlapped = TRUE] => t.overlapped
         /\ t = [s EXCEPT !.endedAgain = TRUE] => t.endedAgain
<1>1. CASE t = s
  BY <1>1 DEF SendRecord
<1>2. CASE t = [s EXCEPT !.overlapped = TRUE]
  BY <1>2 DEF SendRecord
<1>3. CASE t = [s EXCEPT !.endedAgain = TRUE]
  BY <1>3 DEF SendRecord
<1> QED BY <1>1, <1>2, <1>3
\* An ending of the sessions is noted in the calls that are being retried.
LEMMA CallsMeetEnding ==
  ASSUME scall \in [SessionCall -> SendRecord], EndSessions
  PROVE  /\ scall' \in [SessionCall -> SendRecord]
         /\ \A d \in SessionCall :
              \/ InProgress(d) /\ scall[d].retried /\ scall'[d] = [scall[d] EXCEPT !.endedAgain = TRUE]
              \/ ~(InProgress(d) /\ scall[d].retried) /\ scall'[d] = scall[d]
<1>1. \A d \in SessionCall :
        /\ [scall[d] EXCEPT !.endedAgain = TRUE] \in SendRecord /\ scall[d] \in SendRecord
  BY DEF SendRecord
<1>2. scall' = [d \in SessionCall |->
                 IF InProgress(d) /\ scall[d].retried
                   THEN [scall[d] EXCEPT !.endedAgain = TRUE] ELSE scall[d]]
  BY DEF EndSessions
<1>3. \A d \in SessionCall :
              \/ InProgress(d) /\ scall[d].retried /\ scall'[d] = [scall[d] EXCEPT !.endedAgain = TRUE]
              \/ ~(InProgress(d) /\ scall[d].retried) /\ scall'[d] = scall[d]
  BY <1>2
<1> QED BY <1>1, <1>2, <1>3

\* The session a SAP request belongs to is open, and sessions only open.
LEMMA SapSession ==
  ASSUME SessionsTyped, S4Session
  PROVE  /\ S4Sid \in openSids' /\ openSids \subseteq openSids'
         /\ S4Sid \in Nat /\ S4Sid # 0 /\ S4Sid <= sids'
         /\ sids' \in 0..MaxSids /\ sids <= sids' /\ openSids' \subseteq 1..sids'
         /\ jar \in openSids => S4Sid = jar
<1>1. sids \in 0..MaxSids /\ openSids \subseteq 1..sids /\ jar \in Nat /\ MaxSids \in Nat
  BY SessionsAssumption DEF SessionsTyped
<1>2. CASE jar \in openSids
  <2>1. S4Sid = jar /\ UNCHANGED <<sids, openSids>>
    BY <1>2 DEF S4Session, S4Sid
  <2>2. jar \in 1..sids
    BY <1>1, <1>2
  <2> QED BY <1>1, <1>2, <2>1, <2>2
<1>3. CASE jar \notin openSids
  <2>1. S4Sid = sids + 1 /\ sids' = sids + 1 /\ openSids' = openSids \cup {sids + 1}
        /\ sids < MaxSids
    BY <1>3 DEF S4Session, S4Sid
  <2>2. openSids \subseteq 1..(sids + 1) /\ sids + 1 \in 1..(sids + 1) /\ sids + 1 \in 0..MaxSids
    BY <1>1, <2>1
  <2> QED BY <1>1, <1>3, <2>1, <2>2
<1> QED BY <1>2, <1>3

\* They are the types of the module.
LEMMA SessionTypes == SessionsTyped => SessionsTypeOK
<1> SUFFICES ASSUME SessionsTyped PROVE SessionsTypeOK
  OBVIOUS
<1>1. ASSUME NEW c \in SessionCall
      PROVE  /\ scall[c].pc \in {"idle", "apply", "send", "answer", "ok", "refused", "failed"}
             /\ {scall[c].token, scall[c].first} \subseteq 0..Len(grants)
             /\ {scall[c].csrf, scall[c].cookie} \subseteq 0..sids
             /\ {scall[c].reads, scall[c].retried} \subseteq BOOLEAN
             /\ {scall[c].overlapped, scall[c].endedAgain} \subseteq BOOLEAN
             /\ scall[c].answer \in {"none", "ok", "unauthorized", "required"}
  <2>0. /\ scall[c] \in SendRecord /\ CallWithin(scall[c], Len(grants), sids)
        /\ Len(grants) \in Nat /\ sids \in Nat
    BY SessionsAssumption DEF SessionsTyped
  <2>1. /\ scall[c].pc \in {"idle", "apply", "send", "answer", "ok", "refused", "failed"}
        /\ scall[c].token \in Nat /\ scall[c].first \in Nat
        /\ scall[c].csrf \in Nat /\ scall[c].cookie \in Nat
        /\ scall[c].reads \in BOOLEAN /\ scall[c].retried \in BOOLEAN
        /\ scall[c].overlapped \in BOOLEAN /\ scall[c].endedAgain \in BOOLEAN
        /\ scall[c].answer \in {"none", "ok", "unauthorized", "required"}
    BY <2>0 DEF SendRecord
  <2>2. /\ {scall[c].reads, scall[c].retried} \subseteq BOOLEAN
        /\ {scall[c].overlapped, scall[c].endedAgain} \subseteq BOOLEAN
    BY <2>1
  <2>3. /\ {scall[c].token, scall[c].first} \subseteq 0..Len(grants)
        /\ {scall[c].csrf, scall[c].cookie} \subseteq 0..sids
    BY <2>0, <2>1 DEF CallWithin
  <2> QED BY <2>1, <2>2, <2>3
<1> QED BY <1>1 DEF SessionsTyped, SessionsTypeOK

\* Every step keeps the types and is of the system, a new call, or one call
\* in progress, whose tokens and cookies stay within those given out.
LEMMA SessionStep ==
  ASSUME SessionsTyped, SessionsNext
  PROVE  /\ SessionsTyped' /\ api' = api
         /\ \/ EndSessions \/ Revoke \/ Lapses
            \/ \E c \in SessionCall : StartCall(c) \/ (InProgress(c) /\ OnlyCall(c))
<1>1. /\ api \in SessionApi
      /\ ended \in 0..MaxEnded /\ revoked \in BOOLEAN
      /\ sids \in 0..MaxSids /\ openSids \subseteq 1..sids
      /\ grants \in Seq(0..ended) /\ Len(grants) <= MaxGrants
      /\ cached \in 0..Len(grants) /\ stale \in BOOLEAN
      /\ csrf \in 0..sids /\ jar \in 0..sids
      /\ scall \in [SessionCall -> SendRecord]
      /\ \A c \in SessionCall : CallWithin(scall[c], Len(grants), sids)
  BY DEF SessionsTyped
<1>2. /\ MaxEnded \in Nat /\ MaxSids \in Nat /\ MaxGrants \in Nat
      /\ ended \in Nat /\ sids \in Nat /\ Len(grants) \in Nat /\ cached \in Nat
      /\ csrf \in Nat /\ jar \in Nat /\ 0 \in Nat
      /\ \A c \in SessionCall :
           /\ scall[c].token \in Nat /\ scall[c].first \in Nat
           /\ scall[c].csrf \in Nat /\ scall[c].cookie \in Nat
           /\ scall[c].token <= Len(grants) /\ scall[c].first <= Len(grants)
           /\ scall[c].csrf <= sids /\ scall[c].cookie <= sids
  BY <1>1, SessionsAssumption DEF SendRecord, CallWithin
<1>3. CASE EndSessions
  <2>1. /\ ended' = ended + 1 /\ ended' <= MaxEnded /\ openSids' = {}
        /\ UNCHANGED <<api, revoked, sids, grants, cached, stale, csrf, jar>>
    BY <1>2, <1>3 DEF EndSessions, tokenState
  <2>2. scall' \in [SessionCall -> SendRecord] /\
        \A d \in SessionCall : CallWithin(scall'[d], Len(grants), sids)
    <3>1. scall' \in [SessionCall -> SendRecord] /\
          \A d \in SessionCall : scall'[d] \in {scall[d], [scall[d] EXCEPT !.endedAgain = TRUE]}
      BY <1>1, <1>3, CallsMeetEnding
    <3> QED BY <1>1, <3>1, FieldsKept DEF CallWithin
  <2>3. grants \in Seq(0..(ended + 1)) /\ ended + 1 \in 0..MaxEnded
    <3>1. \A t \in 1..Len(grants) : grants[t] \in 0..(ended + 1)
      <4>1. \A t \in 1..Len(grants) : grants[t] \in 0..ended
        BY <1>1
      <4> QED BY <1>2, <4>1
    <3>2. grants = [i \in 1..Len(grants) |-> grants[i]]
      BY <1>1
    <3> QED BY <1>2, <2>1, <3>1, <3>2
  <2>4. SessionsTyped'
    BY <1>1, <2>1, <2>2, <2>3 DEF SessionsTyped
  <2> QED BY <1>3, <2>1, <2>4
<1>4. CASE Revoke
  <2>1. /\ UNCHANGED <<api, ended, sids, openSids, grants, cached, stale, csrf, jar, scall>>
    BY <1>4 DEF Revoke, tokenState, sapState
  <2>2. revoked' \in BOOLEAN
    BY <1>4 DEF Revoke
  <2>3. SessionsTyped'
    BY <1>1, <2>1, <2>2 DEF SessionsTyped
  <2> QED BY <1>4, <2>1, <2>3
<1>5. CASE Lapses
  <2>1. /\ UNCHANGED <<api, ended, revoked, sids, openSids, grants, cached, csrf, jar, scall>>
    BY <1>5 DEF Lapses, tokenState, sapState
  <2>2. stale' \in BOOLEAN
    BY <1>5 DEF Lapses
  <2>3. SessionsTyped'
    BY <1>1, <2>1, <2>2 DEF SessionsTyped
  <2> QED BY <1>5, <2>1, <2>3
\* The last part of every step of a call.
<1>6. ASSUME NEW c \in SessionCall, OnlyCall(c), UNCHANGED <<api, ended, revoked>>,
             UNCHANGED <<grants, cached, stale>>,
             sids' \in 0..MaxSids, sids <= sids', openSids' \subseteq 1..sids',
             csrf' \in 0..sids', jar' \in 0..sids', CallWithin(scall'[c], Len(grants), sids')
      PROVE  SessionsTyped'
  <2>1. ASSUME NEW d \in SessionCall PROVE CallWithin(scall'[d], Len(grants), sids')
    <3>1. CASE d # c
      <4>1. scall'[d] = scall[d] /\ sids' \in Nat
        BY <1>2, <1>6, <3>1 DEF OnlyCall
      <4> QED BY <1>2, <1>6, <4>1 DEF CallWithin
    <3> QED BY <1>6, <3>1
  <2>2. scall' \in [SessionCall -> SendRecord]
    BY <1>6 DEF OnlyCall
  <2> QED BY <1>1, <1>6, <2>1, <2>2 DEF SessionsTyped
<1>7. ASSUME NEW c \in SessionCall, OnlyCall(c), UNCHANGED <<api, ended, revoked>>,
             UNCHANGED <<sids, openSids, csrf, jar>>,
             grants' \in Seq(0..ended), Len(grants) <= Len(grants'), Len(grants') <= MaxGrants,
             cached' \in 0..Len(grants'), stale' \in BOOLEAN,
             CallWithin(scall'[c], Len(grants'), sids)
      PROVE  SessionsTyped'
  <2>1. ASSUME NEW d \in SessionCall PROVE CallWithin(scall'[d], Len(grants'), sids)
    <3>1. CASE d # c
      <4>1. scall'[d] = scall[d] /\ Len(grants') \in Nat
        BY <1>2, <1>7, <3>1 DEF OnlyCall
      <4> QED BY <1>2, <1>7, <4>1 DEF CallWithin
    <3> QED BY <1>7, <3>1
  <2>2. scall' \in [SessionCall -> SendRecord]
    BY <1>7 DEF OnlyCall
  <2> QED BY <1>1, <1>7, <2>1, <2>2 DEF SessionsTyped
<1>8. ASSUME NEW c \in SessionCall, StartCall(c) PROVE SessionsTyped' /\ api' = api
  <2>1. UNCHANGED <<api, ended, revoked, sids, openSids, grants, cached, stale, csrf, jar>>
    BY <1>8 DEF StartCall, tokenState, sapState
  <2>2. /\ scall' \in [SessionCall -> SendRecord]
        /\ scall'[c].token = 0 /\ scall'[c].csrf = 0 /\ scall'[c].cookie = 0 /\ scall'[c].first = 0
        /\ \A d \in SessionCall : d # c =>
             scall'[d] \in {scall[d], [scall[d] EXCEPT !.overlapped = TRUE]}
    BY <1>1, <1>8, CallStarts
  <2>3. ASSUME NEW d \in SessionCall PROVE CallWithin(scall'[d], Len(grants), sids)
    <3>1. CASE d = c
      BY <1>2, <2>2, <3>1 DEF CallWithin
    <3>2. CASE d # c
      BY <1>1, <2>2, <3>2, FieldsKept DEF CallWithin
    <3> QED BY <3>1, <3>2
  <2> QED BY <1>1, <2>1, <2>2, <2>3 DEF SessionsTyped
\* One call's step that changes nothing shared.
<1>9. ASSUME NEW c \in SessionCall, OnlyCall(c), UNCHANGED <<api, ended, revoked>>,
             UNCHANGED <<grants, cached, stale>>, UNCHANGED <<sids, openSids, csrf, jar>>,
             CallWithin(scall'[c], Len(grants), sids)
      PROVE  SessionsTyped'
  BY <1>1, <1>2, <1>6, <1>9
<1>10. ASSUME NEW c \in SessionCall, TakesRequest(c)
       PROVE  SessionsTyped' /\ api' = api /\ InProgress(c) /\ OnlyCall(c)
  <2>1. /\ UNCHANGED <<api, ended, revoked>> /\ UNCHANGED <<grants, cached, stale>>
        /\ UNCHANGED <<sids, openSids, csrf, jar>> /\ scall[c].pc = "send"
    BY <1>10 DEF TakesRequest, tokenState, sapState
  <2>2. PICK x \in {"ok", "unauthorized", "required"} : SessionAnswers(c, x, 0)
    BY <1>10 DEF TakesRequest
  <2>3. /\ OnlyCall(c) /\ scall'[c].cookie = 0 /\ scall'[c].token = scall[c].token
        /\ scall'[c].csrf = scall[c].csrf /\ scall'[c].first = scall[c].first
    BY <1>1, <1>2, <2>2, CallAnswered
  <2>4. CallWithin(scall'[c], Len(grants), sids)
    BY <1>2, <2>3 DEF CallWithin
  <2>5. SessionsTyped'
    BY <1>9, <2>1, <2>3, <2>4
  <2> QED BY <2>1, <2>3, <2>5 DEF InProgress
<1>11. ASSUME NEW c \in SessionCall, S4Serves(c)
       PROVE  SessionsTyped' /\ api' = api /\ InProgress(c) /\ OnlyCall(c)
  <2>1. /\ UNCHANGED <<api, ended, revoked>> /\ UNCHANGED <<grants, cached, stale>>
        /\ UNCHANGED <<csrf, jar>> /\ scall[c].pc = "send"
    BY <1>11 DEF S4Serves, tokenState
  <2>2. /\ sids' \in 0..MaxSids /\ sids <= sids' /\ openSids' \subseteq 1..sids'
        /\ \E x \in {"ok", "unauthorized", "required"}, k \in 0..sids' : SessionAnswers(c, x, k)
    <3>1. CASE revoked
      <4>1. SessionAnswers(c, "unauthorized", 0) /\ UNCHANGED <<sids, openSids>>
        BY <1>11, <3>1 DEF S4Serves
      <4>2. 0 \in 0..sids
        BY <1>2
      <4> QED BY <1>1, <1>2, <4>1, <4>2
    <3>2. CASE ~revoked
      <4>1. S4Session
        BY <1>11, <3>2 DEF S4Serves
      <4>2. /\ S4Sid \in Nat /\ S4Sid <= sids'
            /\ sids' \in 0..MaxSids /\ sids <= sids' /\ openSids' \subseteq 1..sids'
        BY <4>1, SapSession
      <4>3. \E x \in {"ok", "unauthorized", "required"}, k \in {0, S4Sid} : SessionAnswers(c, x, k)
        BY <1>11, <3>2 DEF S4Serves
      <4>4. {0, S4Sid} \subseteq 0..sids'
        BY <1>2, <4>2
      <4> QED BY <4>2, <4>3, <4>4
    <3> QED BY <3>1, <3>2
  <2>3. PICK x \in {"ok", "unauthorized", "required"}, k \in 0..sids' : SessionAnswers(c, x, k)
    BY <2>2
  <2>4. k \in Nat /\ k <= sids' /\ sids' \in Nat
    BY <1>2, <2>2
  <2>5. /\ OnlyCall(c) /\ scall'[c].cookie = k /\ scall'[c].token = scall[c].token
        /\ scall'[c].csrf = scall[c].csrf /\ scall'[c].first = scall[c].first
    BY <1>1, <2>3, <2>4, CallAnswered
  <2>6. CallWithin(scall'[c], Len(grants), sids') /\ csrf' \in 0..sids' /\ jar' \in 0..sids'
    BY <1>1, <1>2, <2>1, <2>2, <2>4, <2>5 DEF CallWithin
  <2>7. SessionsTyped'
    BY <1>6, <2>1, <2>2, <2>5, <2>6
  <2> QED BY <2>1, <2>5, <2>7 DEF InProgress
<1>12. ASSUME NEW c \in SessionCall, ApplyStatic(c)
       PROVE  SessionsTyped' /\ api' = api /\ InProgress(c) /\ OnlyCall(c)
  <2>1. /\ UNCHANGED <<api, ended, revoked>> /\ UNCHANGED <<grants, cached, stale>>
        /\ UNCHANGED <<sids, openSids, csrf, jar>> /\ scall[c].pc = "apply" /\ Sends(c, 0, 0)
    BY <1>12 DEF ApplyStatic, tokenState, sapState
  <2>2. /\ OnlyCall(c) /\ scall'[c].token = 0 /\ scall'[c].csrf = 0
        /\ scall'[c].first \in {0, scall[c].first} /\ scall'[c].cookie = scall[c].cookie
    BY <1>1, <1>2, <2>1, CallSends
  <2>3. CallWithin(scall'[c], Len(grants), sids)
    BY <1>2, <2>2 DEF CallWithin
  <2>4. SessionsTyped'
    BY <1>9, <2>1, <2>2, <2>3
  <2> QED BY <2>1, <2>2, <2>4 DEF InProgress
<1>13. ASSUME NEW c \in SessionCall, Logs(c)
       PROVE  SessionsTyped' /\ api' = api /\ InProgress(c) /\ OnlyCall(c)
  <2>1. /\ UNCHANGED <<api, ended, revoked>> /\ UNCHANGED <<sids, openSids, csrf, jar>>
        /\ scall[c].pc = "apply"
    BY <1>13 DEF Logs, sapState
  <2>2. CASE Ends(c, "refused") /\ UNCHANGED tokenState
    <3>1. /\ OnlyCall(c) /\ scall'[c].token = scall[c].token
          /\ scall'[c].csrf = scall[c].csrf /\ scall'[c].first = scall[c].first
          /\ scall'[c].cookie = scall[c].cookie
      BY <1>1, <2>2, CallEnds
    <3>2. CallWithin(scall'[c], Len(grants), sids) /\ UNCHANGED <<grants, cached, stale>>
      BY <1>2, <2>2, <3>1 DEF CallWithin, tokenState
    <3>3. SessionsTyped'
      BY <1>9, <2>1, <3>1, <3>2
    <3> QED BY <2>1, <3>1, <3>3 DEF InProgress
  <2>3. CASE Sends(c, cached, 0) /\ UNCHANGED tokenState
    <3>1. /\ OnlyCall(c) /\ scall'[c].token = cached
          /\ scall'[c].csrf = 0 /\ scall'[c].first \in {cached, scall[c].first}
          /\ scall'[c].cookie = scall[c].cookie
      BY <1>1, <1>2, <2>3, CallSends
    <3>2. CallWithin(scall'[c], Len(grants), sids) /\ UNCHANGED <<grants, cached, stale>>
      BY <1>1, <1>2, <2>3, <3>1 DEF CallWithin, tokenState
    <3>3. SessionsTyped'
      BY <1>9, <2>1, <3>1, <3>2
    <3> QED BY <2>1, <3>1, <3>3 DEF InProgress
  <2>4. CASE /\ Len(grants) < MaxGrants /\ grants' = Append(grants, ended)
             /\ cached' = Len(grants') /\ stale' = FALSE /\ Sends(c, cached', 0)
    <3>1. /\ grants' \in Seq(0..ended) /\ Len(grants') = Len(grants) + 1
          /\ Len(grants') \in Nat /\ Len(grants') <= MaxGrants
      <4>1. ended \in 0..ended
        BY <1>2
      <4> QED BY <1>1, <1>2, <2>4, <4>1
    <3>2. cached' \in Nat /\ cached' \in 0..Len(grants') /\ cached' <= Len(grants')
      BY <2>4, <3>1
    <3>3. /\ OnlyCall(c) /\ scall'[c].token = cached'
          /\ scall'[c].csrf = 0 /\ scall'[c].first \in {cached', scall[c].first}
          /\ scall'[c].cookie = scall[c].cookie
      <4> DEFINE x == cached'
      <4>1. x \in Nat /\ Sends(c, x, 0)
        BY <2>4, <3>2
      <4> HIDE DEF x
      <4>2. /\ OnlyCall(c) /\ scall'[c].token = x
            /\ scall'[c].csrf = 0 /\ scall'[c].first \in {x, scall[c].first}
            /\ scall'[c].cookie = scall[c].cookie
        BY <1>1, <1>2, <4>1, CallSends
      <4> QED BY <4>2 DEF x
    <3>4. CallWithin(scall'[c], Len(grants'), sids) /\ Len(grants) <= Len(grants')
      BY <1>2, <3>1, <3>2, <3>3 DEF CallWithin
    <3>5. stale' \in BOOLEAN
      BY <2>4
    <3>6. SessionsTyped'
      BY <1>7, <2>1, <3>1, <3>2, <3>3, <3>4, <3>5
    <3> QED BY <2>1, <3>3, <3>6 DEF InProgress
  <2> QED BY <1>13, <2>2, <2>3, <2>4 DEF Logs
<1>14. ASSUME NEW c \in SessionCall, CsrfToken(c)
       PROVE  SessionsTyped' /\ api' = api /\ InProgress(c) /\ OnlyCall(c)
  <2>1. /\ UNCHANGED <<api, ended, revoked>> /\ UNCHANGED <<grants, cached, stale>>
        /\ scall[c].pc = "apply"
    BY <1>14 DEF CsrfToken, tokenState
  <2>2. CASE Ends(c, "refused") /\ UNCHANGED sapState
    <3>1. /\ OnlyCall(c) /\ scall'[c].token = scall[c].token
          /\ scall'[c].csrf = scall[c].csrf /\ scall'[c].first = scall[c].first
          /\ scall'[c].cookie = scall[c].cookie
      BY <1>1, <2>2, CallEnds
    <3>2. CallWithin(scall'[c], Len(grants), sids) /\ UNCHANGED <<sids, openSids, csrf, jar>>
      BY <1>2, <2>2, <3>1 DEF CallWithin, sapState
    <3>3. SessionsTyped'
      BY <1>9, <2>1, <3>1, <3>2
    <3> QED BY <2>1, <3>1, <3>3 DEF InProgress
  <2>3. CASE (Sends(c, 0, 0) \/ Sends(c, 0, csrf)) /\ UNCHANGED sapState
    <3>1. /\ OnlyCall(c) /\ scall'[c].token = 0
          /\ scall'[c].csrf \in {0, csrf} /\ scall'[c].first \in {0, scall[c].first}
          /\ scall'[c].cookie = scall[c].cookie
      BY <1>1, <1>2, <2>3, CallSends
    <3>2. CallWithin(scall'[c], Len(grants), sids) /\ UNCHANGED <<sids, openSids, csrf, jar>>
      BY <1>1, <1>2, <2>3, <3>1 DEF CallWithin, sapState
    <3>3. SessionsTyped'
      BY <1>9, <2>1, <3>1, <3>2
    <3> QED BY <2>1, <3>1, <3>3 DEF InProgress
  <2>4. CASE S4Session /\ csrf' = S4Sid /\ jar' = S4Sid /\ Sends(c, 0, S4Sid)
    <3>1. /\ S4Sid \in Nat /\ S4Sid <= sids' /\ sids' \in 0..MaxSids /\ sids <= sids'
          /\ openSids' \subseteq 1..sids'
      BY <2>4, SapSession
    <3>2. /\ OnlyCall(c) /\ scall'[c].token = 0
          /\ scall'[c].csrf = S4Sid /\ scall'[c].first \in {0, scall[c].first}
          /\ scall'[c].cookie = scall[c].cookie
      BY <1>1, <1>2, <2>4, <3>1, CallSends
    <3>3. CallWithin(scall'[c], Len(grants), sids') /\ csrf' \in 0..sids' /\ jar' \in 0..sids'
      BY <1>2, <2>4, <3>1, <3>2 DEF CallWithin
    <3>4. SessionsTyped'
      BY <1>6, <2>1, <3>1, <3>2, <3>3
    <3> QED BY <2>1, <3>2, <3>4 DEF InProgress
  <2> QED BY <1>14, <2>2, <2>3, <2>4 DEF CsrfToken
\* A call that closes, fails or tries again keeps its tokens.
<1>15. ASSUME NEW c \in SessionCall, Closes(c) \/ Ends(c, "failed") \/ TriesAgain(c)
       PROVE  OnlyCall(c) /\ CallWithin(scall'[c], Len(grants), sids)
  <2>1. /\ OnlyCall(c) /\ scall'[c].token = scall[c].token
        /\ scall'[c].csrf = scall[c].csrf /\ scall'[c].first = scall[c].first
        /\ scall'[c].cookie = scall[c].cookie
    BY <1>1, <1>15, CallCloses, CallEnds, CallTriesAgain
  <2> QED BY <1>2, <2>1 DEF CallWithin
<1>16. ASSUME NEW c \in SessionCall, Renewing(c)
       PROVE  SessionsTyped' /\ api' = api /\ InProgress(c) /\ OnlyCall(c)
  <2>1. /\ UNCHANGED <<api, ended, revoked>> /\ UNCHANGED <<sids, openSids, csrf, jar>>
        /\ UNCHANGED <<grants, stale>> /\ cached' \in {cached, 0} /\ scall[c].pc = "answer"
        /\ (TriesAgain(c) \/ Closes(c))
    BY <1>16 DEF Renewing, InvalidateSession, sapState
  <2>2. OnlyCall(c) /\ CallWithin(scall'[c], Len(grants'), sids)
    BY <1>15, <2>1
  <2>3. cached' \in 0..Len(grants') /\ stale' \in BOOLEAN
    BY <1>1, <1>2, <2>1
  <2>4. grants' \in Seq(0..ended) /\ Len(grants) <= Len(grants') /\ Len(grants') <= MaxGrants
    BY <1>1, <1>2, <2>1
  <2>5. SessionsTyped'
    BY <1>7, <2>1, <2>2, <2>3, <2>4
  <2> QED BY <2>1, <2>2, <2>5 DEF InProgress
<1>17. ASSUME NEW c \in SessionCall, StaticDo(c) \/ OdooCall(c) \/ CallFails(c)
       PROVE  SessionsTyped' /\ api' = api /\ InProgress(c) /\ OnlyCall(c)
  <2>1. /\ UNCHANGED <<api, ended, revoked>> /\ UNCHANGED <<sids, openSids, csrf, jar>>
        /\ UNCHANGED <<grants, cached, stale>> /\ scall[c].pc = "answer"
        /\ (Closes(c) \/ Ends(c, "failed"))
    BY <1>17 DEF StaticDo, OdooCall, CallFails, tokenState, sapState
  <2>2. OnlyCall(c) /\ CallWithin(scall'[c], Len(grants), sids)
    BY <1>15, <2>1
  <2>3. SessionsTyped'
    BY <1>9, <2>1, <2>2
  <2> QED BY <2>1, <2>2, <2>3 DEF InProgress
<1>18. ASSUME NEW c \in SessionCall, SapDo(c)
       PROVE  SessionsTyped' /\ api' = api /\ InProgress(c) /\ OnlyCall(c)
  <2>1. /\ UNCHANGED <<api, ended, revoked>> /\ UNCHANGED <<grants, cached, stale>>
        /\ UNCHANGED <<sids, openSids>> /\ csrf' \in {csrf, 0} /\ jar' \in {jar, scall[c].cookie}
        /\ (TriesAgain(c) \/ Closes(c)) /\ scall[c].pc = "answer"
    BY <1>18 DEF SapDo, tokenState
  <2>2. OnlyCall(c) /\ CallWithin(scall'[c], Len(grants), sids')
    BY <1>15, <2>1
  <2>3. csrf' \in 0..sids' /\ jar' \in 0..sids' /\ sids <= sids' /\ sids' \in 0..MaxSids
        /\ openSids' \subseteq 1..sids'
    BY <1>1, <1>2, <2>1
  <2>4. SessionsTyped'
    BY <1>6, <2>1, <2>2, <2>3
  <2> QED BY <2>1, <2>2, <2>4 DEF InProgress
<1> QED BY <1>3, <1>4, <1>5, <1>8, <1>10, <1>11, <1>12, <1>13, <1>14, <1>16, <1>17, <1>18
        DEF SessionsNext, ApplyOAuth2, ApplyRefresh, ApplySession, ApplySalesforce, RestDo,
            SalesforceSend, MeshCall

\* Two calls in progress overlap.
LEMMA AloneStep ==
  ASSUME SessionsTyped, CallsAlone, SessionsNext
  PROVE  CallsAlone'
<1>0. scall \in [SessionCall -> SendRecord] /\ \A d \in SessionCall : scall[d] \in SendRecord
  BY DEF SessionsTyped
<1>1. CASE EndSessions
  <2>1. \A d \in SessionCall : scall'[d] \in {scall[d], [scall[d] EXCEPT !.endedAgain = TRUE]}
    BY <1>0, <1>1, CallsMeetEnding
  <2>2. \A d \in SessionCall : /\ scall'[d].pc = scall[d].pc
                               /\ (scall[d].overlapped => scall'[d].overlapped)
    BY <1>0, <2>1, FieldsKept
  <2> QED BY <2>2 DEF CallsAlone, InProgress
<1>2. CASE Revoke \/ Lapses
  BY <1>2 DEF Revoke, Lapses, CallsAlone, InProgress
<1>3. ASSUME NEW c \in SessionCall, StartCall(c) PROVE CallsAlone'
  <2>1. /\ scall'[c].pc = "apply"
        /\ scall'[c].overlapped = (\E e \in SessionCall : InProgress(e))
        /\ \A d \in SessionCall : d # c =>
              \/ InProgress(d) /\ scall'[d] = [scall[d] EXCEPT !.overlapped = TRUE]
              \/ ~InProgress(d) /\ scall'[d] = scall[d]
    BY <1>0, <1>3, CallStarts
  <2>2. \A d \in SessionCall : d # c =>
          /\ scall'[d].pc = scall[d].pc
          /\ InProgress(d) => scall'[d].overlapped
    <3> SUFFICES ASSUME NEW d \in SessionCall, d # c
                 PROVE  scall'[d].pc = scall[d].pc /\ (InProgress(d) => scall'[d].overlapped)
      OBVIOUS
    <3>1. CASE InProgress(d)
      <4>1. scall'[d] = [scall[d] EXCEPT !.overlapped = TRUE]
        BY <2>1, <3>1
      <4> QED BY <1>0, <4>1, FieldsKept
    <3>2. CASE ~InProgress(d)
      BY <2>1, <3>2
    <3> QED BY <3>1, <3>2
  <2>3. InProgress(c)' /\ \A d \in SessionCall : d # c => (InProgress(d)' <=> InProgress(d))
    BY <2>1, <2>2 DEF InProgress
  <2>4. ~scall'[c].overlapped => \A d \in SessionCall : ~InProgress(d)
    BY <2>1
  <2> QED BY <2>2, <2>3, <2>4 DEF CallsAlone
<1>4. ASSUME NEW c \in SessionCall, InProgress(c), OnlyCall(c) PROVE CallsAlone'
  BY <1>4 DEF CallsAlone, InProgress, OnlyCall
<1> QED BY <1>1, <1>2, <1>3, <1>4, SessionStep

\* Sessions end, other calls sign in or drop a token: a call stays sound.
LEMMA TokenCallStays ==
  ASSUME NEW a, NEW s \in SendRecord, NEW e \in Nat, NEW f \in Nat, NEW k \in Nat, NEW l \in Nat,
         NEW g \in Seq(Nat), NEW h \in Seq(Nat), NEW r \in BOOLEAN, NEW q \in BOOLEAN,
         TokenCall(a, s, g, e, k, r), s.token <= Len(g), s.first <= Len(g),
         h = g \/ h = Append(g, e), e <= f, r => q,
         \/ l = k
         \/ /\ l \in {0, Len(g) + 1}
            /\ s.overlapped \/ s.pc \notin {"apply", "send", "answer"}
  PROVE  TokenCall(a, s, h, f, l, q)
<1>1. s.token \in Nat /\ s.first \in Nat
  BY DEF SendRecord
<1>2. \A t \in 1..Len(g) : h[t] = g[t] /\ g[t] \in Nat
  <2>1. \A t \in 1..Len(g) : g[t] \in Nat
    OBVIOUS
  <2>2. CASE h = Append(g, e)
    BY <2>1, <2>2
  <2> QED BY <2>1, <2>2
<1>3. s.first >= 1 => h[s.first] = g[s.first] /\ g[s.first] \in Nat
  BY <1>1, <1>2
<1>4. s.token >= 1 => h[s.token] = g[s.token] /\ g[s.token] \in Nat
  BY <1>1, <1>2
<1>5. Renewed(a, s, g) => Renewed(a, s, h)
  BY <1>3, <1>4 DEF Renewed
<1>6. s.pc = "apply" /\ s.retried => s.first # l /\ (s.overlapped \/ l = 0)
  BY <1>1 DEF TokenCall
<1>7. s.pc \in {"send", "answer"} => s.token >= 1
  BY DEF TokenCall, Renewed
<1>8. Renewed(a, s, g) /\ g[s.token] < e => h[s.token] < f
  BY <1>4 DEF Renewed
<1>9. s.pc = "apply" /\ ~s.retried => s.first = 0
  BY DEF TokenCall
<1>10. s.pc \in {"send", "answer"} /\ ~s.retried =>
         s.first = s.token /\ s.token >= 1 /\ (s.overlapped \/ l = s.token)
  BY DEF TokenCall
<1>11. s.pc = "apply" /\ s.retried =>
         s.first >= 1 /\ h[s.first] < f /\ l # s.first /\ (s.overlapped \/ l = 0)
  BY <1>3, <1>6 DEF TokenCall
<1>12. s.pc = "answer" =>
         s.answer \in {"ok", "unauthorized"} /\ (s.answer = "unauthorized" => h[s.token] < f)
  BY <1>4, <1>7 DEF TokenCall
<1>13. s.pc = "refused" => q \/ (Renewed(a, s, h) /\ h[s.token] < f)
  BY <1>5, <1>8 DEF TokenCall
<1>14. s.pc \in {"send", "answer"} /\ s.retried => Renewed(a, s, h)
  BY <1>5 DEF TokenCall
<1> QED BY <1>9, <1>10, <1>11, <1>12, <1>13, <1>14 DEF TokenCall

\* It depends on these fields only.
LEMMA TokenCallOf ==
  ASSUME NEW a, NEW s, NEW t, NEW g, NEW e, NEW k, NEW r, TokenCall(a, s, g, e, k, r),
         t.pc = s.pc, t.retried = s.retried, t.answer = s.answer, t.token = s.token,
         t.first = s.first, s.overlapped => t.overlapped
  PROVE  TokenCall(a, t, g, e, k, r)
<1>1. Renewed(a, s, g) => Renewed(a, t, g)
  BY DEF Renewed
<1> QED BY <1>1 DEF TokenCall

\* Calls that share a token.
LEMMA TokenCallsStep ==
  ASSUME SessionsTyped, CallsAlone, api \in TokenApi, TokenCalls, SessionsNext
  PROVE  TokenCalls'
<1>0. api \notin Static /\ api # "sap" /\ api \notin StaticApi
  BY ApisDiffer
<1>1. /\ ended \in Nat /\ revoked \in BOOLEAN /\ cached \in Nat /\ 0 \in Nat
      /\ grants \in Seq(Nat) /\ Len(grants) \in Nat
      /\ scall \in [SessionCall -> SendRecord]
      /\ \A c \in SessionCall : /\ scall[c] \in SendRecord
                                /\ scall[c].token \in Nat /\ scall[c].first \in Nat
                                /\ scall[c].retried \in BOOLEAN
                                /\ scall[c].token <= Len(grants) /\ scall[c].first <= Len(grants)
                                /\ TokenCall(api, scall[c], grants, ended, cached, revoked)
  <2>1. grants \in Seq(Nat)
    <3>1. grants = [i \in 1..Len(grants) |-> grants[i]] /\ Len(grants) \in Nat
          /\ \A i \in 1..Len(grants) : grants[i] \in 0..ended
      BY DEF SessionsTyped
    <3> QED BY <3>1
  <2> QED BY <2>1, SessionsAssumption DEF SessionsTyped, CallWithin, TokenCalls, SendRecord
<1>2. /\ GrantsInv
      /\ cached \in {0, Len(grants)}
      /\ \A t \in 1..Len(grants) : grants[t] <= ended /\ grants[t] \in Nat
      /\ \A t, u \in 1..Len(grants) : t < u => grants[t] <= grants[u]
      /\ api \in Lasting =>
           /\ ~stale
           /\ cached = 0 => \A t \in 1..Len(grants) : grants[t] < ended
           /\ \A t, u \in 1..Len(grants) : t < u => grants[t] < grants[u]
  BY <1>1 DEF TokenCalls, GrantsInv
<1>3. api' = api /\ revoked' \in BOOLEAN
  BY SessionStep DEF SessionsTyped
\* The tokens, when none is given out or dropped.
<1>g. ASSUME grants' = grants, cached' = cached, ended' = ended \/ ended' = ended + 1,
             api \in Lasting /\ ~stale => ~stale'
      PROVE  GrantsInv'
  <2>1. \A t \in 1..Len(grants) : grants[t] <= ended' /\ (grants[t] < ended => grants[t] < ended')
    BY <1>1, <1>2, <1>g
  <2>2. /\ cached' \in {0, Len(grants')}
        /\ \A t \in 1..Len(grants') : grants'[t] <= ended'
        /\ \A t, u \in 1..Len(grants') : t < u => grants'[t] <= grants'[u]
    BY <1>2, <1>g, <2>1
  <2>3. api' \in Lasting =>
           /\ cached' = 0 => \A t \in 1..Len(grants') : grants'[t] < ended'
           /\ \A t, u \in 1..Len(grants') : t < u => grants'[t] < grants'[u]
    <3>1. api \in Lasting =>
           /\ cached = 0 => \A t \in 1..Len(grants) : grants[t] < ended
           /\ \A t, u \in 1..Len(grants) : t < u => grants[t] < grants[u]
      BY <1>2
    <3> QED BY <1>3, <1>g, <2>1, <3>1
  <2>4. api' \in Lasting => ~stale'
    <3>1. api \in Lasting => ~stale
      BY <1>2
    <3>2. api' = api
      BY <1>3
    <3> QED BY <1>g, <3>1, <3>2
  <2> QED BY <2>2, <2>3, <2>4 DEF GrantsInv
\* The others, when one call takes a step.
<1>4. ASSUME NEW c \in SessionCall, InProgress(c), OnlyCall(c), UNCHANGED <<ended, revoked>>,
             grants' = grants \/ grants' = Append(grants, ended),
             cached' = cached \/ cached' \in {0, Len(grants) + 1},
             GrantsInv', TokenCall(api, scall'[c], grants', ended, cached', revoked)
      PROVE  TokenCalls'
  <2>0. /\ grants' = grants \/ grants' = Append(grants, ended)
        /\ cached' = cached \/ cached' \in {0, Len(grants) + 1}
    BY <1>4
  <2>a. /\ ended \in Nat /\ cached \in Nat /\ grants \in Seq(Nat) /\ Len(grants) \in Nat
        /\ revoked \in BOOLEAN
    BY <1>1
  <2>1. grants' \in Seq(Nat) /\ cached' \in Nat
    BY <2>0, <2>a
  <2>2. ASSUME NEW d \in SessionCall, d # c
        PROVE  TokenCall(api, scall'[d], grants', ended, cached', revoked)
    <3>1. scall'[d] = scall[d]
      BY <1>4, <2>2 DEF OnlyCall
    <3>2. scall[d].overlapped \/ scall[d].pc \notin {"apply", "send", "answer"}
      BY <1>4, <2>2 DEF CallsAlone, InProgress
    <3>3. ended <= ended /\ (revoked => revoked)
      BY <1>1
    <3> DEFINE h == grants'
               l == cached'
    <3>4. h \in Seq(Nat) /\ l \in Nat /\ (h = grants \/ h = Append(grants, ended))
          /\ (l = cached \/ l \in {0, Len(grants) + 1})
      BY <2>0, <2>1
    <3> HIDE DEF h, l
    <3>5. /\ scall[d] \in SendRecord /\ TokenCall(api, scall[d], grants, ended, cached, revoked)
          /\ scall[d].token <= Len(grants) /\ scall[d].first <= Len(grants)
      BY <1>1
    <3>6. TokenCall(api, scall[d], h, ended, l, revoked)
      BY <2>a, <3>2, <3>3, <3>4, <3>5, TokenCallStays
    <3> QED BY <3>1, <3>6 DEF h, l
  <2>3. ASSUME NEW d \in SessionCall
        PROVE  TokenCall(api, scall'[d], grants', ended, cached', revoked)
    <3>1. CASE d = c
      BY <1>4, <3>1
    <3>2. CASE d # c
      BY <2>2, <3>2
    <3> QED BY <3>1, <3>2
  <2>4. ended' = ended /\ revoked' = revoked /\ GrantsInv'
    BY <1>4
  <2>5. \A d \in SessionCall : TokenCall(api, scall'[d], grants', ended', cached', revoked')
    BY <2>3, <2>4
  <2> QED BY <1>3, <2>4, <2>5 DEF TokenCalls
<1>5. CASE EndSessions
  <2>1. /\ ended' = ended + 1 /\ UNCHANGED <<revoked, grants, cached, stale>>
    BY <1>5 DEF EndSessions, tokenState
  <2>2. ended + 1 \in Nat /\ ended <= ended + 1
    BY <1>1
  <2>3. ASSUME NEW d \in SessionCall
        PROVE  TokenCall(api, scall'[d], grants, ended + 1, cached, revoked)
    <3>1. TokenCall(api, scall[d], grants, ended + 1, cached, revoked)
      BY <1>1, <2>2, TokenCallStays
    <3>2. scall'[d] \in {scall[d], [scall[d] EXCEPT !.endedAgain = TRUE]}
      BY <1>1, <1>5, CallsMeetEnding
    <3>3. /\ scall'[d].pc = scall[d].pc /\ scall'[d].retried = scall[d].retried
          /\ scall'[d].first = scall[d].first /\ scall'[d].token = scall[d].token
          /\ scall'[d].answer = scall[d].answer /\ (scall[d].overlapped => scall'[d].overlapped)
      BY <1>1, <3>2, FieldsKept
    <3> QED BY <3>1, <3>3, TokenCallOf
  <2>4. GrantsInv'
    <3>1. stale' = stale /\ grants' = grants /\ cached' = cached /\ ended' = ended + 1
      BY <2>1
    <3>2. ~stale => ~stale'
      BY <3>1
    <3> QED BY <1>g, <3>1, <3>2
  <2> QED BY <1>3, <2>1, <2>3, <2>4 DEF TokenCalls
<1>6. CASE Revoke
  <2>1. UNCHANGED <<ended, grants, cached, stale, scall>>
    BY <1>6 DEF Revoke, tokenState
  <2>2. revoked => revoked'
    BY <1>6 DEF Revoke
  <2>3. ended <= ended
    BY <1>1
  <2>4. \A d \in SessionCall : TokenCall(api, scall[d], grants, ended, cached, revoked')
    BY <1>1, <1>3, <2>2, <2>3, TokenCallStays
  <2>5. GrantsInv'
    <3>1. stale' = stale /\ grants' = grants /\ cached' = cached /\ ended' = ended
      BY <2>1
    <3>2. ~stale => ~stale'
      BY <3>1
    <3> QED BY <1>g, <3>1, <3>2
  <2> QED BY <1>3, <2>1, <2>4, <2>5 DEF TokenCalls
<1>7. CASE Lapses
  <2>1. UNCHANGED <<ended, revoked, grants, cached, scall>> /\ api \notin Lasting
    BY <1>7 DEF Lapses
  <2>2. GrantsInv'
    BY <1>g, <2>1
  <2> QED BY <1>3, <1>1, <2>1, <2>2 DEF TokenCalls
<1>8. ASSUME NEW c \in SessionCall, StartCall(c) PROVE TokenCalls'
  <2>1. UNCHANGED <<ended, revoked, grants, cached, stale>>
    BY <1>8 DEF StartCall, tokenState
  <2>2. /\ scall'[c].pc = "apply" /\ scall'[c].retried = FALSE /\ scall'[c].first = 0
        /\ \A d \in SessionCall : d # c =>
             scall'[d] \in {scall[d], [scall[d] EXCEPT !.overlapped = TRUE]}
    BY <1>1, <1>8, CallStarts
  <2>3. ASSUME NEW d \in SessionCall
        PROVE  TokenCall(api, scall'[d], grants, ended, cached, revoked)
    <3>1. CASE d = c
      BY <2>2, <3>1 DEF TokenCall
    <3>2. CASE d # c
      <4>1. /\ scall'[d].pc = scall[d].pc /\ scall'[d].retried = scall[d].retried
            /\ scall'[d].first = scall[d].first /\ scall'[d].token = scall[d].token
            /\ scall'[d].answer = scall[d].answer /\ (scall[d].overlapped => scall'[d].overlapped)
        BY <1>1, <2>2, <3>2, FieldsKept
      <4> QED BY <1>1, <4>1, TokenCallOf
    <3> QED BY <3>1, <3>2
  <2>4. GrantsInv'
    <3>1. stale' = stale /\ grants' = grants /\ cached' = cached /\ ended' = ended
      BY <2>1
    <3>2. ~stale => ~stale'
      BY <3>1
    <3> QED BY <1>g, <3>1, <3>2
  <2> QED BY <1>3, <2>1, <2>3, <2>4 DEF TokenCalls
<1>9. ASSUME NEW c \in SessionCall, TakesRequest(c) PROVE TokenCalls'
  <2>1. UNCHANGED <<ended, revoked, grants, cached, stale>> /\ scall[c].pc = "send"
    BY <1>9 DEF TakesRequest, tokenState
  <2>2. PICK x \in {"ok", "unauthorized", "required"} :
          /\ SessionAnswers(c, x, 0) /\ x \in {"ok", "unauthorized"}
          /\ x = "unauthorized" => grants[scall[c].token] # ended
    BY <1>9, AcceptedIs DEF TakesRequest
  <2>3. /\ OnlyCall(c) /\ scall'[c].pc = "answer" /\ scall'[c].answer = x
        /\ scall'[c].token = scall[c].token /\ scall'[c].first = scall[c].first
        /\ scall'[c].retried = scall[c].retried /\ scall'[c].overlapped = scall[c].overlapped
    BY <1>1, <2>2, CallAnswered DEF OnlyCall
  <2>4. TokenCall(api, scall[c], grants, ended, cached, revoked)
    BY <1>1
  <2>5. x = "unauthorized" => grants[scall[c].token] < ended
    <3>1. scall[c].token >= 1
      BY <2>1, <2>4 DEF TokenCall, Renewed
    <3>2. scall[c].token \in 1..Len(grants)
      BY <1>1, <3>1
    <3> QED BY <1>1, <1>2, <2>2, <3>2
  <2>6. TokenCall(api, scall'[c], grants, ended, cached, revoked)
    BY <2>1, <2>2, <2>3, <2>4, <2>5 DEF TokenCall, Renewed
  <2>7. GrantsInv'
    <3>1. stale' = stale /\ grants' = grants /\ cached' = cached /\ ended' = ended
      BY <2>1
    <3>2. ~stale => ~stale'
      BY <3>1
    <3> QED BY <1>g, <3>1, <3>2
  <2> QED BY <1>4, <2>1, <2>3, <2>6, <2>7 DEF InProgress
\* A call is sent with the token in use.
<1>10. ASSUME NEW c \in SessionCall, NEW g \in Seq(Nat), NEW k \in Nat,
              (g = grants /\ k = cached) \/ (g = Append(grants, ended) /\ k = Len(grants) + 1),
              k # 0, scall[c].pc = "apply", scall'[c].pc = "send", scall'[c].token = k,
              scall'[c].first = (IF scall[c].first = 0 THEN k ELSE scall[c].first),
              scall'[c].retried = scall[c].retried, scall'[c].overlapped = scall[c].overlapped
       PROVE  TokenCall(api, scall'[c], g, ended, k, revoked)
  <2>1. TokenCall(api, scall[c], grants, ended, cached, revoked)
    BY <1>1
  <2>2. CASE ~scall[c].retried
    <3>1. scall'[c].first = k
      BY <1>10, <2>1, <2>2 DEF TokenCall
    <3> QED BY <1>10, <2>2, <3>1 DEF TokenCall
  <2>3. CASE scall[c].retried
    <3>1. /\ scall[c].first >= 1 /\ grants[scall[c].first] < ended /\ cached # scall[c].first
          /\ (scall[c].overlapped \/ cached = 0)
      BY <1>10, <2>1, <2>3 DEF TokenCall
    <3>2. scall[c].first \in 1..Len(grants) /\ scall'[c].first = scall[c].first
      BY <1>1, <1>10, <3>1
    <3>3. Renewed(api, scall'[c], g)
      <4>1. CASE g = grants /\ k = cached
        <5>1. k = Len(grants) /\ k \in 1..Len(grants) /\ scall[c].first < k /\ scall[c].overlapped
          BY <1>1, <1>2, <1>10, <3>1, <3>2, <4>1
        <5>2. /\ grants[scall[c].first] <= grants[k] /\ grants[k] \in Nat
              /\ grants[scall[c].first] \in Nat
              /\ api \in Lasting => grants[scall[c].first] < grants[k]
          BY <1>2, <3>2, <5>1
        <5>3. \/ grants[k] > grants[scall[c].first]
              \/ api \notin Lasting /\ grants[k] = grants[scall[c].first]
          BY <5>2
        <5> QED BY <1>10, <3>1, <3>2, <4>1, <5>1, <5>3 DEF Renewed
      <4>2. CASE g = Append(grants, ended) /\ k = Len(grants) + 1
        <5>1. g[k] = ended /\ g[scall[c].first] = grants[scall[c].first]
          BY <1>1, <3>2, <4>2
        <5>2. g[k] > g[scall[c].first] /\ k >= 1
          BY <1>1, <1>2, <3>1, <3>2, <4>2, <5>1
        <5> QED BY <1>10, <3>1, <3>2, <5>2 DEF Renewed
      <4> QED BY <1>10, <4>1, <4>2
    <3> QED BY <1>10, <2>3, <3>3 DEF TokenCall
  <2> QED BY <1>1, <2>2, <2>3
<1>11. ASSUME NEW c \in SessionCall, Logs(c) PROVE TokenCalls'
  <2>1. UNCHANGED <<ended, revoked>> /\ scall[c].pc = "apply"
    BY <1>11 DEF Logs
  <2>2. CASE revoked /\ Ends(c, "refused") /\ UNCHANGED tokenState
    <3>1. OnlyCall(c) /\ scall'[c].pc = "refused" /\ UNCHANGED <<grants, cached, stale>>
      BY <1>1, <2>2, CallEnds DEF tokenState
    <3>2. TokenCall(api, scall'[c], grants, ended, cached, revoked)
      BY <2>2, <3>1 DEF TokenCall
    <3>3. GrantsInv'
      <4>1. stale' = stale /\ grants' = grants /\ cached' = cached /\ ended' = ended
        BY <2>1, <3>1
      <4>2. ~stale => ~stale'
        BY <4>1
      <4> QED BY <1>g, <4>1, <4>2
    <3> QED BY <1>4, <2>1, <3>1, <3>2, <3>3 DEF InProgress
  <2>3. CASE cached # 0 /\ Sends(c, cached, 0) /\ UNCHANGED tokenState
    <3>1. /\ OnlyCall(c) /\ scall'[c].pc = "send" /\ scall'[c].token = cached
          /\ scall'[c].first = (IF scall[c].first = 0 THEN cached ELSE scall[c].first)
          /\ scall'[c].retried = scall[c].retried /\ scall'[c].overlapped = scall[c].overlapped
          /\ UNCHANGED <<grants, cached, stale>>
      BY <1>1, <2>3, CallSends DEF tokenState, OnlyCall
    <3>2. TokenCall(api, scall'[c], grants, ended, cached, revoked)
      <4> DEFINE g == grants
                 k == cached
      <4>1. /\ g \in Seq(Nat) /\ k \in Nat /\ k # 0 /\ scall[c].pc = "apply"
            /\ scall'[c].pc = "send" /\ scall'[c].token = k
            /\ scall'[c].first = (IF scall[c].first = 0 THEN k ELSE scall[c].first)
            /\ scall'[c].retried = scall[c].retried /\ scall'[c].overlapped = scall[c].overlapped
            /\ g = grants /\ k = cached
        BY <1>1, <2>1, <2>3, <3>1
      <4> HIDE DEF g, k
      <4>2. TokenCall(api, scall'[c], g, ended, k, revoked)
        BY <1>10, <4>1
      <4> QED BY <4>2 DEF g, k
    <3>3. GrantsInv'
      <4>1. stale' = stale /\ grants' = grants /\ cached' = cached /\ ended' = ended
        BY <2>1, <3>1
      <4>2. ~stale => ~stale'
        BY <4>1
      <4> QED BY <1>g, <4>1, <4>2
    <3> QED BY <1>4, <2>1, <3>1, <3>2, <3>3 DEF InProgress
  <2>4. CASE /\ cached = 0 \/ stale
             /\ grants' = Append(grants, ended)
             /\ cached' = Len(grants') /\ stale' = FALSE /\ Sends(c, cached', 0)
    <3> DEFINE g == Append(grants, ended)
               k == Len(grants) + 1
    <3>1. /\ g \in Seq(Nat) /\ Len(g) = k /\ k \in Nat /\ k # 0 /\ k = Len(grants) + 1
          /\ g[k] = ended /\ (\A t \in 1..Len(grants) : g[t] = grants[t])
          /\ g = Append(grants, ended)
      BY <1>1
    <3>2. grants' = g /\ cached' = k /\ Sends(c, k, 0)
      BY <2>4, <3>1
    <3> HIDE DEF g, k
    <3>3. /\ OnlyCall(c) /\ scall'[c].pc = "send" /\ scall'[c].token = k
          /\ scall'[c].first = (IF scall[c].first = 0 THEN k ELSE scall[c].first)
          /\ scall'[c].retried = scall[c].retried /\ scall'[c].overlapped = scall[c].overlapped
      BY <1>1, <3>1, <3>2, CallSends DEF OnlyCall
    <3>4. TokenCall(api, scall'[c], g, ended, k, revoked)
      BY <1>1, <1>10, <2>1, <3>1, <3>3
    <3>5. GrantsInv'
      <4>1. ~stale'
        BY <2>4
      <4>2. \A t \in 1..k : t = k \/ t \in 1..Len(grants)
        BY <1>1, <3>1
      <4>3. \A t \in 1..k : g[t] <= ended /\ g[t] \in Nat
        BY <1>1, <1>2, <3>1, <4>2
      <4>4. \A t, u \in 1..k : t < u => g[t] <= g[u]
        <5>1. ASSUME NEW t \in 1..k, NEW u \in 1..k, t < u PROVE g[t] <= g[u]
          <6>1. CASE u = k
            BY <3>1, <4>3, <6>1
          <6>2. CASE u \in 1..Len(grants)
            <7>1. t \in 1..Len(grants)
              BY <1>1, <3>1, <5>1, <6>2
            <7> QED BY <1>2, <3>1, <5>1, <6>2, <7>1
          <6> QED BY <4>2, <6>1, <6>2
        <5> QED BY <5>1
      <4>5. ASSUME api \in Lasting, NEW t \in 1..k, NEW u \in 1..k, t < u PROVE g[t] < g[u]
        <5>1. t \in 1..Len(grants)
          BY <1>1, <3>1, <4>5
        <5>2. cached = 0
          BY <1>2, <2>4, <4>5
        <5>3. CASE u = k
          BY <1>2, <3>1, <4>5, <5>1, <5>2, <5>3
        <5>4. CASE u \in 1..Len(grants)
          BY <1>2, <3>1, <4>5, <5>1, <5>4
        <5> QED BY <4>2, <5>3, <5>4
      <4>6. cached' = Len(grants') /\ cached' # 0 /\ Len(grants') = k
        BY <3>1, <3>2
      <4>7. \A t \in 1..Len(grants') : grants'[t] <= ended'
        BY <2>1, <3>2, <4>3, <4>6
      <4>8. \A t, u \in 1..Len(grants') : t < u => grants'[t] <= grants'[u]
        BY <3>2, <4>4, <4>6
      <4>9. api \in Lasting => \A t, u \in 1..Len(grants') : t < u => grants'[t] < grants'[u]
        BY <3>2, <4>5, <4>6
      <4> QED BY <1>3, <4>1, <4>6, <4>7, <4>8, <4>9 DEF GrantsInv
    <3> QED BY <1>4, <2>1, <3>1, <3>2, <3>3, <3>4, <3>5 DEF InProgress
  <2> QED BY <1>11, <2>2, <2>3, <2>4 DEF Logs
\* A call that was refused twice, or failed.
<1>12. ASSUME NEW c \in SessionCall, OnlyCall(c), UNCHANGED <<ended, revoked, grants, cached, stale>>,
              scall[c].pc = "answer", scall'[c].pc \in {"ok", "refused", "failed"},
              scall'[c].token = scall[c].token, scall'[c].first = scall[c].first,
              scall'[c].pc = "refused" =>
                scall[c].answer # "ok" /\ (scall[c].answer = "unauthorized" => scall[c].retried)
       PROVE  TokenCalls'
  <2>1. TokenCall(api, scall[c], grants, ended, cached, revoked)
    BY <1>1
  <2>2. scall'[c].overlapped = scall[c].overlapped
    BY <1>12 DEF OnlyCall
  <2>3. Renewed(api, scall[c], grants) => Renewed(api, scall'[c], grants)
    BY <1>12, <2>2 DEF Renewed
  <2>4. TokenCall(api, scall'[c], grants, ended, cached, revoked)
    BY <1>12, <2>1, <2>2, <2>3 DEF TokenCall
  <2>5. GrantsInv'
    <3>1. stale' = stale /\ grants' = grants /\ cached' = cached /\ ended' = ended
      BY <1>12
    <3>2. ~stale => ~stale'
      BY <3>1
    <3> QED BY <1>g, <3>1, <3>2
  <2> QED BY <1>4, <1>12, <2>4, <2>5 DEF InProgress
<1>13. ASSUME NEW c \in SessionCall, Renewing(c) PROVE TokenCalls'
  <2>1. UNCHANGED <<ended, revoked, grants, stale>> /\ scall[c].pc = "answer"
    BY <1>13 DEF Renewing
  <2>2. CASE scall[c].answer = "unauthorized" /\ ~scall[c].retried
    <3>1. /\ cached' = (IF cached = scall[c].token THEN 0 ELSE cached) /\ TriesAgain(c)
      BY <1>13, <2>2 DEF Renewing, InvalidateSession
    <3>2. /\ OnlyCall(c) /\ scall'[c].pc = "apply" /\ scall'[c].retried = TRUE
          /\ scall'[c].first = scall[c].first /\ scall'[c].overlapped = scall[c].overlapped
      BY <1>1, <3>1, CallTriesAgain DEF OnlyCall
    <3>3. /\ scall[c].first = scall[c].token /\ scall[c].token >= 1
          /\ (scall[c].overlapped \/ cached = scall[c].token) /\ grants[scall[c].token] < ended
      BY <1>1, <2>1, <2>2 DEF TokenCall
    <3>4. cached' # scall[c].first /\ (scall[c].overlapped \/ cached' = 0)
      BY <1>1, <3>1, <3>3
    <3>5. TokenCall(api, scall'[c], grants, ended, cached', revoked)
      BY <3>2, <3>3, <3>4 DEF TokenCall
    <3>6. GrantsInv'
      <4>1. cached' \in {0, Len(grants)}
        BY <1>2, <3>1
      <4>2. ASSUME api \in Lasting, cached' = 0, NEW t \in 1..Len(grants) PROVE grants[t] < ended
        <5>1. CASE cached = 0
          BY <1>2, <4>2, <5>1
        <5>2. CASE cached # 0
          <6>1. scall[c].token = Len(grants) /\ Len(grants) \in 1..Len(grants)
            BY <1>1, <1>2, <3>1, <3>3, <4>2, <5>2
          <6>2. t = Len(grants) \/ t < Len(grants)
            BY <1>1
          <6>3. grants[t] <= grants[Len(grants)] /\ grants[t] \in Nat /\ grants[Len(grants)] \in Nat
            BY <1>2, <6>1, <6>2
          <6> QED BY <1>1, <3>3, <6>1, <6>3
        <5> QED BY <5>1, <5>2
      <4> QED BY <1>2, <1>3, <2>1, <4>1, <4>2 DEF GrantsInv
    <3>7. cached' = cached \/ cached' \in {0, Len(grants) + 1}
      BY <3>1
    <3> QED BY <1>4, <2>1, <3>2, <3>5, <3>6, <3>7 DEF InProgress
  <2>3. CASE ~(scall[c].answer = "unauthorized" /\ ~scall[c].retried)
    <3>1. Closes(c) /\ UNCHANGED cached
      BY <1>13, <2>3 DEF Renewing
    <3>2. /\ OnlyCall(c) /\ scall'[c].pc \in {"ok", "refused", "failed"}
          /\ (scall'[c].pc = "refused" => scall[c].answer # "ok")
          /\ scall'[c].token = scall[c].token /\ scall'[c].first = scall[c].first
      BY <1>1, <3>1, CallCloses
    <3>3. scall[c].answer = "unauthorized" => scall[c].retried
      BY <1>1, <2>3
    <3> QED BY <1>12, <2>1, <3>1, <3>2, <3>3
  <2> QED BY <2>2, <2>3
<1>14. ASSUME NEW c \in SessionCall, CallFails(c) PROVE TokenCalls'
  <2>1. UNCHANGED <<ended, revoked, grants, cached, stale>> /\ scall[c].pc = "answer" /\ Ends(c, "failed")
    BY <1>14 DEF CallFails, tokenState
  <2>2. /\ OnlyCall(c) /\ scall'[c].pc = "failed"
        /\ scall'[c].token = scall[c].token /\ scall'[c].first = scall[c].first
    BY <1>1, <2>1, CallEnds
  <2> QED BY <1>12, <2>1, <2>2
<1>15. ASSUME NEW c \in SessionCall PROVE ~(S4Serves(c) \/ ApplyStatic(c) \/ CsrfToken(c)
                                            \/ StaticDo(c) \/ OdooCall(c) \/ SapDo(c))
  BY <1>0 DEF S4Serves, ApplyStatic, CsrfToken, StaticDo, OdooCall, SapDo, Static
<1> QED BY <1>5, <1>6, <1>7, <1>8, <1>9, <1>11, <1>13, <1>14, <1>15
        DEF SessionsNext, ApplyOAuth2, ApplyRefresh, ApplySession, ApplySalesforce, RestDo,
            SalesforceSend, MeshCall

\* Calls with a static credential.
LEMMA StaticCallsStep ==
  ASSUME SessionsTyped, api \in StaticApi, StaticCalls, SessionsNext
  PROVE  StaticCalls'
<1>0. api \in Static /\ api \notin TokenApi /\ api # "sap"
  BY ApisDiffer
<1>1. /\ scall \in [SessionCall -> SendRecord] /\ 0 \in Nat
      /\ \A c \in SessionCall : scall[c] \in SendRecord /\ StaticCall(scall[c], revoked)
  BY DEF StaticCalls, SessionsTyped
<1>2. CASE EndSessions
  <2>1. UNCHANGED revoked
    BY <1>2 DEF EndSessions
  <2>2. \A d \in SessionCall : scall'[d] \in {scall[d], [scall[d] EXCEPT !.endedAgain = TRUE]}
    BY <1>1, <1>2, CallsMeetEnding
  <2>3. \A d \in SessionCall : scall'[d].pc = scall[d].pc /\ scall'[d].answer = scall[d].answer
    BY <1>1, <2>2, FieldsKept
  <2> QED BY <1>1, <2>1, <2>3 DEF StaticCalls, StaticCall
<1>3. CASE Revoke
  BY <1>1, <1>3 DEF Revoke, StaticCalls, StaticCall
<1>4. ~Lapses
  BY <1>0 DEF Lapses
<1>5. ASSUME NEW c \in SessionCall, StartCall(c) PROVE StaticCalls'
  <2>1. UNCHANGED revoked
    BY <1>5 DEF StartCall
  <2>2. /\ scall'[c].pc = "apply"
        /\ \A d \in SessionCall : d # c =>
             scall'[d] \in {scall[d], [scall[d] EXCEPT !.overlapped = TRUE]}
    BY <1>1, <1>5, CallStarts
  <2>3. \A d \in SessionCall : scall'[d].pc = "apply" \/ (scall'[d].pc = scall[d].pc /\ scall'[d].answer = scall[d].answer)
    BY <1>1, <2>2, FieldsKept
  <2> QED BY <1>1, <2>1, <2>3 DEF StaticCalls, StaticCall
<1>6. ASSUME NEW c \in SessionCall, TakesRequest(c) PROVE StaticCalls'
  <2>1. UNCHANGED revoked
    BY <1>6 DEF TakesRequest
  <2>2. PICK x \in {"ok", "unauthorized", "required"} :
          /\ SessionAnswers(c, x, 0) /\ x \in {"ok", "unauthorized"}
          /\ x = "unauthorized" => revoked
    BY <1>6, AcceptedIs DEF TakesRequest
  <2>3. /\ scall'[c].pc = "answer" /\ scall'[c].answer = x
        /\ \A d \in SessionCall : d # c => scall'[d] = scall[d]
    BY <1>1, <2>2, CallAnswered DEF OnlyCall
  <2> QED BY <1>1, <2>1, <2>2, <2>3 DEF StaticCalls, StaticCall
<1>7. ASSUME NEW c \in SessionCall, ApplyStatic(c) PROVE StaticCalls'
  <2>1. UNCHANGED revoked /\ Sends(c, 0, 0)
    BY <1>7 DEF ApplyStatic
  <2>2. scall'[c].pc = "send" /\ \A d \in SessionCall : d # c => scall'[d] = scall[d]
    BY <1>1, <2>1, CallSends DEF OnlyCall
  <2> QED BY <1>1, <2>1, <2>2 DEF StaticCalls, StaticCall
<1>8. ASSUME NEW c \in SessionCall, StaticDo(c) \/ OdooCall(c) \/ CallFails(c) PROVE StaticCalls'
  <2>1. UNCHANGED revoked /\ scall[c].pc = "answer" /\ (Closes(c) \/ Ends(c, "failed"))
    BY <1>8 DEF StaticDo, OdooCall, CallFails
  <2>2. /\ scall'[c].pc \in {"ok", "refused", "failed"}
        /\ (scall'[c].pc = "refused" => scall[c].answer # "ok")
        /\ \A d \in SessionCall : d # c => scall'[d] = scall[d]
    BY <1>1, <2>1, CallCloses, CallEnds DEF OnlyCall
  <2>3. scall'[c].pc = "refused" => revoked
    BY <1>1, <2>1, <2>2 DEF StaticCall
  <2> QED BY <1>1, <2>1, <2>2, <2>3 DEF StaticCalls, StaticCall
<1>9. ASSUME NEW c \in SessionCall
      PROVE  ~(S4Serves(c) \/ ApplyOAuth2(c) \/ ApplyRefresh(c) \/ ApplySession(c)
               \/ ApplySalesforce(c) \/ CsrfToken(c) \/ RestDo(c) \/ SalesforceSend(c)
               \/ MeshCall(c) \/ SapDo(c))
  BY <1>0 DEF S4Serves, ApplyOAuth2, ApplyRefresh, ApplySession, ApplySalesforce, CsrfToken,
              RestDo, SalesforceSend, MeshCall, SapDo, TokenApi
<1> QED BY <1>2, <1>3, <1>4, <1>5, <1>6, <1>7, <1>8, <1>9 DEF SessionsNext

\* Calls of SAP.
LEMMA SapCallsStep ==
  ASSUME SessionsTyped, CallsAlone, api = "sap", SapCalls, SessionsNext
  PROVE  SapCalls'
<1>0. api \in Static /\ api \notin TokenApi /\ api \notin StaticApi
  BY ApisDiffer
<1>1. /\ scall \in [SessionCall -> SendRecord] /\ csrf \in Nat /\ 0 \in Nat
      /\ \A c \in SessionCall :
           /\ scall[c] \in SendRecord
           /\ scall[c].answer \in {"none", "ok", "unauthorized", "required"}
           /\ SapCall(scall[c], openSids, csrf, jar, revoked)
  BY SessionsAssumption DEF SapCalls, SessionsTyped, SendRecord
\* The others, when one call takes a step.
<1>2. ASSUME NEW c \in SessionCall, InProgress(c), OnlyCall(c), UNCHANGED revoked,
             SapCall(scall'[c], openSids', csrf', jar', revoked)
      PROVE  SapCalls'
  <2>1. ASSUME NEW d \in SessionCall, d # c
        PROVE  SapCall(scall'[d], openSids', csrf', jar', revoked)
    <3>1. scall'[d] = scall[d]
      BY <1>2, <2>1 DEF OnlyCall
    <3>2. scall[d].overlapped \/ scall[d].pc \notin {"apply", "send", "answer"}
      BY <1>2, <2>1 DEF CallsAlone, InProgress
    <3>3. SapCall(scall[d], openSids, csrf, jar, revoked)
      BY <1>1
    <3> QED BY <3>1, <3>2, <3>3 DEF SapCall
  <2>2. revoked' = revoked
    BY <1>2
  <2>3. \A d \in SessionCall : SapCall(scall'[d], openSids', csrf', jar', revoked)
    BY <1>2, <2>1
  <2> QED BY <2>2, <2>3 DEF SapCalls
<1>3. CASE EndSessions
  <2>1. UNCHANGED <<revoked, csrf, jar>>
    BY <1>3 DEF EndSessions
  <2>2. ASSUME NEW d \in SessionCall PROVE SapCall(scall'[d], openSids', csrf, jar, revoked)
    <3>1. \/ InProgress(d) /\ scall[d].retried /\ scall'[d] = [scall[d] EXCEPT !.endedAgain = TRUE]
          \/ ~(InProgress(d) /\ scall[d].retried) /\ scall'[d] = scall[d]
      BY <1>1, <1>3, CallsMeetEnding
    <3>2. SapCall(scall[d], openSids, csrf, jar, revoked)
      BY <1>1
    <3>3. CASE InProgress(d) /\ scall[d].retried /\ scall'[d] = [scall[d] EXCEPT !.endedAgain = TRUE]
      <4>0. scall'[d] = [scall[d] EXCEPT !.endedAgain = TRUE]
        BY <3>3
      <4>1. /\ scall'[d].pc = scall[d].pc /\ scall'[d].retried = scall[d].retried
            /\ scall'[d].reads = scall[d].reads /\ scall'[d].answer = scall[d].answer
            /\ scall'[d].endedAgain
        BY <1>1, <4>0, FieldsKept
      <4> QED BY <3>2, <3>3, <4>1 DEF SapCall, InProgress
    <3>4. CASE ~(InProgress(d) /\ scall[d].retried) /\ scall'[d] = scall[d]
      BY <3>2, <3>4 DEF SapCall, InProgress
    <3> QED BY <3>1, <3>3, <3>4
  <2> QED BY <2>1, <2>2 DEF SapCalls
<1>4. CASE Revoke
  <2>1. UNCHANGED <<openSids, csrf, jar, scall>>
    BY <1>4 DEF Revoke, sapState
  <2>2. revoked'
    BY <1>4 DEF Revoke
  <2>3. \A d \in SessionCall : SapCall(scall[d], openSids, csrf, jar, revoked')
    BY <1>1, <2>2 DEF SapCall
  <2> QED BY <2>1, <2>3 DEF SapCalls
<1>5. ~Lapses
  BY <1>0 DEF Lapses
<1>6. ASSUME NEW c \in SessionCall, StartCall(c) PROVE SapCalls'
  <2>1. UNCHANGED <<revoked, openSids, csrf, jar>>
    BY <1>6 DEF StartCall, sapState
  <2>2. /\ scall'[c].pc = "apply" /\ scall'[c].retried = FALSE
        /\ \A d \in SessionCall : d # c =>
              \/ InProgress(d) /\ scall'[d] = [scall[d] EXCEPT !.overlapped = TRUE]
              \/ ~InProgress(d) /\ scall'[d] = scall[d]
    BY <1>1, <1>6, CallStarts
  <2>3. ASSUME NEW d \in SessionCall PROVE SapCall(scall'[d], openSids, csrf, jar, revoked)
    <3>1. CASE d = c
      BY <2>2, <3>1 DEF SapCall
    <3>2. CASE d # c /\ InProgress(d)
      <4>0. scall'[d] = [scall[d] EXCEPT !.overlapped = TRUE]
        BY <2>2, <3>2
      <4>1. /\ scall'[d].pc = scall[d].pc /\ scall'[d].retried = scall[d].retried
            /\ scall'[d].reads = scall[d].reads /\ scall'[d].answer = scall[d].answer
            /\ scall'[d].overlapped
        BY <1>1, <4>0, FieldsKept
      <4>2. SapCall(scall[d], openSids, csrf, jar, revoked)
        BY <1>1
      <4> QED BY <3>2, <4>1, <4>2 DEF SapCall, InProgress
    <3>3. CASE d # c /\ ~InProgress(d)
      BY <1>1, <2>2, <3>3
    <3> QED BY <3>1, <3>2, <3>3
  <2> QED BY <2>1, <2>3 DEF SapCalls
<1>7. ASSUME NEW c \in SessionCall, S4Serves(c) PROVE SapCalls'
  <2>1. UNCHANGED <<revoked, csrf, jar>> /\ scall[c].pc = "send"
    BY <1>7 DEF S4Serves
  <2>2. SapCall(scall[c], openSids, csrf, jar, revoked)
    BY <1>1
  <2>3. CASE revoked
    <3>1. SessionAnswers(c, "unauthorized", 0)
      BY <1>7, <2>3 DEF S4Serves
    <3>2. /\ OnlyCall(c) /\ scall'[c].pc = "answer" /\ scall'[c].answer = "unauthorized"
          /\ scall'[c].retried = scall[c].retried
      BY <1>1, <3>1, CallAnswered
    <3>3. scall'[c].reads = scall[c].reads
      BY <3>2 DEF OnlyCall
    <3>4. SapCall(scall'[c], openSids', csrf', jar', revoked)
      BY <2>2, <2>3, <3>2, <3>3 DEF SapCall
    <3> QED BY <1>2, <2>1, <3>2, <3>4 DEF InProgress
  <2>4. CASE ~revoked
    <3>1. S4Session
      BY <1>7, <2>4 DEF S4Serves
    <3>2. S4Sid \in Nat /\ (jar \in openSids => S4Sid = jar)
      BY <3>1, SapSession
    <3>3. PICK x \in {"ok", "required"}, k \in {0, S4Sid} :
            /\ SessionAnswers(c, x, k)
            /\ scall[c].reads \/ scall[c].csrf = S4Sid => x = "ok"
      BY <1>7, <2>4 DEF S4Serves
    <3>4. /\ OnlyCall(c) /\ scall'[c].pc = "answer" /\ scall'[c].answer = x
          /\ scall'[c].retried = scall[c].retried
      BY <1>1, <3>2, <3>3, CallAnswered
    <3>5. /\ scall'[c].reads = scall[c].reads /\ scall'[c].overlapped = scall[c].overlapped
          /\ scall'[c].endedAgain = scall[c].endedAgain
      BY <3>4 DEF OnlyCall
    <3>6. SapCall(scall'[c], openSids', csrf', jar', revoked)
      BY <2>1, <2>2, <3>2, <3>3, <3>4, <3>5 DEF SapCall
    <3> QED BY <1>2, <2>1, <3>4, <3>6 DEF InProgress
  <2> QED BY <2>3, <2>4
<1>8. ASSUME NEW c \in SessionCall, CsrfToken(c) PROVE SapCalls'
  <2>1. UNCHANGED revoked /\ scall[c].pc = "apply"
    BY <1>8 DEF CsrfToken
  <2>2. SapCall(scall[c], openSids, csrf, jar, revoked)
    BY <1>1
  <2>3. CASE revoked /\ Ends(c, "refused")
    <3>1. OnlyCall(c) /\ scall'[c].pc = "refused" /\ scall'[c].retried = scall[c].retried
      BY <1>1, <2>3, CallEnds
    <3>2. scall'[c].reads = scall[c].reads
      BY <3>1 DEF OnlyCall
    <3>3. SapCall(scall'[c], openSids', csrf', jar', revoked)
      BY <2>2, <2>3, <3>1, <3>2 DEF SapCall
    <3> QED BY <1>2, <2>1, <3>1, <3>3 DEF InProgress
  <2>4. CASE \/ scall[c].reads /\ Sends(c, 0, 0)
             \/ csrf # 0 /\ Sends(c, 0, csrf)
    <3>1. OnlyCall(c) /\ scall'[c].pc = "send" /\ scall'[c].retried = scall[c].retried
      BY <1>1, <2>4, CallSends
    <3>2. /\ scall'[c].reads = scall[c].reads /\ scall'[c].overlapped = scall[c].overlapped
          /\ scall'[c].endedAgain = scall[c].endedAgain
      BY <3>1 DEF OnlyCall
    <3>3. SapCall(scall'[c], openSids', csrf', jar', revoked)
      BY <2>1, <2>2, <2>4, <3>1, <3>2 DEF SapCall
    <3> QED BY <1>2, <2>1, <3>1, <3>3 DEF InProgress
  <2>5. CASE S4Session /\ csrf' = S4Sid /\ jar' = S4Sid /\ Sends(c, 0, S4Sid)
    <3>1. S4Sid \in Nat /\ S4Sid \in openSids'
      BY <2>5, SapSession
    <3>2. /\ OnlyCall(c) /\ scall'[c].pc = "send" /\ scall'[c].retried = scall[c].retried
          /\ scall'[c].csrf = S4Sid
      BY <1>1, <2>5, <3>1, CallSends
    <3>3. scall'[c].reads = scall[c].reads
      BY <3>2 DEF OnlyCall
    <3>4. SapCall(scall'[c], openSids', csrf', jar', revoked)
      BY <2>2, <2>5, <3>1, <3>2, <3>3 DEF SapCall
    <3> QED BY <1>2, <2>1, <3>2, <3>4 DEF InProgress
  <2> QED BY <1>8, <2>3, <2>4, <2>5 DEF CsrfToken
<1>9. ASSUME NEW c \in SessionCall, SapDo(c) PROVE SapCalls'
  <2>1. UNCHANGED revoked /\ scall[c].pc = "answer"
    BY <1>9 DEF SapDo
  <2>2. SapCall(scall[c], openSids, csrf, jar, revoked)
    BY <1>1
  <2>3. CASE scall[c].answer = "required" /\ ~scall[c].retried
    <3>1. csrf' = 0 /\ TriesAgain(c)
      BY <1>9, <2>3 DEF SapDo
    <3>2. OnlyCall(c) /\ scall'[c].pc = "apply" /\ scall'[c].retried = TRUE
      BY <1>1, <3>1, CallTriesAgain
    <3>3. scall'[c].reads = scall[c].reads
      BY <3>2 DEF OnlyCall
    <3>4. SapCall(scall'[c], openSids', csrf', jar', revoked)
      BY <2>1, <2>2, <2>3, <3>1, <3>2, <3>3 DEF SapCall
    <3> QED BY <1>2, <2>1, <3>2, <3>4 DEF InProgress
  <2>4. CASE ~(scall[c].answer = "required" /\ ~scall[c].retried)
    <3>1. Closes(c)
      BY <1>9, <2>4 DEF SapDo
    <3>2. /\ OnlyCall(c) /\ scall'[c].pc \in {"ok", "refused"}
          /\ (scall'[c].pc = "refused" => scall[c].answer # "ok")
          /\ scall'[c].retried = scall[c].retried
      BY <1>1, <3>1, CallCloses
    <3>3. /\ scall'[c].reads = scall[c].reads /\ scall'[c].overlapped = scall[c].overlapped
          /\ scall'[c].endedAgain = scall[c].endedAgain
      BY <3>2 DEF OnlyCall
    <3>4. scall[c].answer # "ok" => revoked \/ scall[c].overlapped \/ scall[c].endedAgain
      BY <1>1, <2>1, <2>2, <2>4 DEF SapCall
    <3>5. SapCall(scall'[c], openSids', csrf', jar', revoked)
      BY <2>2, <3>2, <3>3, <3>4 DEF SapCall
    <3> QED BY <1>2, <2>1, <3>2, <3>5 DEF InProgress
  <2> QED BY <2>3, <2>4
<1>10. ASSUME NEW c \in SessionCall, CallFails(c) PROVE SapCalls'
  <2>1. UNCHANGED revoked /\ scall[c].pc = "answer" /\ Ends(c, "failed")
    BY <1>10 DEF CallFails
  <2>2. OnlyCall(c) /\ scall'[c].pc = "failed" /\ scall'[c].retried = scall[c].retried
    BY <1>1, <2>1, CallEnds
  <2>3. scall'[c].reads = scall[c].reads
    BY <2>2 DEF OnlyCall
  <2>4. SapCall(scall'[c], openSids', csrf', jar', revoked)
    BY <1>1, <2>2, <2>3 DEF SapCall
  <2> QED BY <1>2, <2>1, <2>2, <2>4 DEF InProgress
<1>11. ASSUME NEW c \in SessionCall
       PROVE  ~(TakesRequest(c) \/ ApplyStatic(c) \/ ApplyOAuth2(c) \/ ApplyRefresh(c)
                \/ ApplySession(c) \/ ApplySalesforce(c) \/ RestDo(c) \/ SalesforceSend(c)
                \/ MeshCall(c) \/ StaticDo(c) \/ OdooCall(c))
  BY DEF TakesRequest, ApplyStatic, ApplyOAuth2, ApplyRefresh, ApplySession, ApplySalesforce,
         RestDo, SalesforceSend, MeshCall, StaticDo, OdooCall
<1> QED BY <1>3, <1>4, <1>5, <1>6, <1>7, <1>8, <1>9, <1>10, <1>11 DEF SessionsNext

\* A system of no kind gets no call.
LEMMA NoCallsStep ==
  ASSUME SessionsTyped, api \notin TokenApi \cup Static, NoCalls, SessionsNext
  PROVE  NoCalls'
<1>0. scall \in [SessionCall -> SendRecord] /\ \A d \in SessionCall : scall[d] \in SendRecord
  BY DEF SessionsTyped
<1>1. CASE EndSessions
  <2>1. \A d \in SessionCall : scall'[d] \in {scall[d], [scall[d] EXCEPT !.endedAgain = TRUE]}
    BY <1>0, <1>1, CallsMeetEnding
  <2>2. \A d \in SessionCall : scall'[d].pc = scall[d].pc
    BY <1>0, <2>1, FieldsKept
  <2> QED BY <2>2 DEF NoCalls
<1>2. CASE Revoke \/ Lapses
  BY <1>2 DEF Revoke, Lapses, NoCalls
<1>3. ASSUME NEW c \in SessionCall, StartCall(c) PROVE NoCalls'
  <2>1. /\ scall'[c].pc = "apply"
        /\ \A d \in SessionCall : d # c =>
             scall'[d] \in {scall[d], [scall[d] EXCEPT !.overlapped = TRUE]}
    BY <1>0, <1>3, CallStarts
  <2>2. \A d \in SessionCall : scall'[d].pc = "apply" \/ scall'[d].pc = scall[d].pc
    BY <1>0, <2>1, FieldsKept
  <2> QED BY <2>2 DEF NoCalls
<1>4. ASSUME NEW c \in SessionCall
      PROVE  ~(TakesRequest(c) \/ S4Serves(c) \/ RestDo(c) \/ SalesforceSend(c) \/ MeshCall(c)
               \/ StaticDo(c) \/ OdooCall(c) \/ SapDo(c) \/ CallFails(c))
  BY DEF NoCalls, TakesRequest, S4Serves, RestDo, SalesforceSend, MeshCall, Renewing, StaticDo,
         OdooCall, SapDo, CallFails
<1>5. ASSUME NEW c \in SessionCall
      PROVE  ~(ApplyStatic(c) \/ ApplyOAuth2(c) \/ ApplyRefresh(c) \/ ApplySession(c)
               \/ ApplySalesforce(c) \/ CsrfToken(c))
  BY DEF ApplyStatic, ApplyOAuth2, ApplyRefresh, ApplySession, ApplySalesforce, CsrfToken,
         TokenApi, Static
<1> QED BY <1>1, <1>2, <1>3, <1>4, <1>5 DEF SessionsNext

\* The invariant holds of every state.
LEMMA SessionsStaySound == SessionsSpec => []SessionsInv
<1>1. SessionsInit => SessionsInv
  <2> SUFFICES ASSUME SessionsInit PROVE SessionsInv
    OBVIOUS
  <2>1. /\ NoSend \in SendRecord /\ NoSend.token = 0 /\ NoSend.csrf = 0 /\ NoSend.cookie = 0
        /\ NoSend.first = 0 /\ NoSend.pc = "idle" /\ NoSend.retried = FALSE
    BY DEF NoSend, SendRecord
  <2>2. \A c \in SessionCall : scall[c] = NoSend
    BY DEF SessionsInit
  <2>3. SessionsTyped
    <3>1. scall \in [SessionCall -> SendRecord]
      BY <2>1 DEF SessionsInit
    <3>2. /\ grants \in Seq(0..ended) /\ Len(grants) = 0 /\ 0 <= MaxGrants /\ 0 \in 0..MaxEnded
          /\ 0 \in 0..MaxSids /\ 0 \in 0..0
      BY SessionsAssumption DEF SessionsInit
    <3>3. \A c \in SessionCall : CallWithin(scall[c], 0, 0)
      BY <2>1, <2>2 DEF CallWithin
    <3>4. revoked \in BOOLEAN /\ stale \in BOOLEAN
      BY DEF SessionsInit
    <3>5. /\ api \in SessionApi /\ ended = 0 /\ sids = 0 /\ openSids = {} /\ cached = 0
          /\ csrf = 0 /\ jar = 0
      BY DEF SessionsInit
    <3> QED BY <3>1, <3>2, <3>3, <3>4, <3>5 DEF SessionsTyped
  <2>4. TokenCalls
    <3>1. cached = 0 /\ Len(grants) = 0 /\ 1..0 = {}
      BY DEF SessionsInit
    <3>2. ~stale
      BY DEF SessionsInit
    <3>3. GrantsInv
      BY <3>1, <3>2 DEF GrantsInv
    <3>4. \A c \in SessionCall : TokenCall(api, scall[c], grants, ended, cached, revoked)
      BY <2>1, <2>2 DEF TokenCall
    <3> QED BY <3>3, <3>4 DEF TokenCalls
  <2>5. StaticCalls /\ NoCalls
    BY <2>1, <2>2 DEF StaticCalls, StaticCall, NoCalls
  <2>6. SapCalls /\ CallsAlone
    BY <2>1, <2>2 DEF SapCalls, SapCall, CallsAlone, InProgress
  <2> QED BY <2>3, <2>4, <2>5, <2>6 DEF SessionsInv
<1>2. SessionsInv /\ [SessionsNext]_sessionVars => SessionsInv'
  <2> SUFFICES ASSUME SessionsInv, [SessionsNext]_sessionVars PROVE SessionsInv'
    OBVIOUS
  <2>1. CASE SessionsNext
    <3>1. api' = api /\ SessionsTyped' /\ CallsAlone'
      BY <2>1, SessionStep, AloneStep DEF SessionsInv
    <3>2. api \in TokenApi => TokenCalls'
      BY <2>1, TokenCallsStep DEF SessionsInv
    <3>3. api \in StaticApi => StaticCalls'
      BY <2>1, StaticCallsStep DEF SessionsInv
    <3>4. api = "sap" => SapCalls'
      BY <2>1, SapCallsStep DEF SessionsInv
    <3>5. api \notin TokenApi \cup Static => NoCalls'
      BY <2>1, NoCallsStep DEF SessionsInv
    <3> QED BY <3>1, <3>2, <3>3, <3>4, <3>5 DEF SessionsInv
  <2>2. CASE UNCHANGED sessionVars
    <3>1. UNCHANGED <<api, ended, revoked, grants, cached, stale, sids, openSids, csrf, jar, scall>>
      BY <2>2 DEF sessionVars, tokenState, sapState
    <3>2. SessionsTyped' <=> SessionsTyped
      BY <3>1 DEF SessionsTyped
    <3>3. CallsAlone' <=> CallsAlone
      BY <3>1 DEF CallsAlone, InProgress
    <3>4. TokenCalls' <=> TokenCalls
      BY <3>1 DEF TokenCalls, GrantsInv
    <3>5. (StaticCalls' <=> StaticCalls) /\ (SapCalls' <=> SapCalls) /\ (NoCalls' <=> NoCalls)
      BY <3>1 DEF StaticCalls, SapCalls, NoCalls
    <3>6. api' = api
      BY <3>1
    <3> QED BY <3>2, <3>3, <3>4, <3>5, <3>6 DEF SessionsInv
  <2> QED BY <2>1, <2>2
<1> QED BY <1>1, <1>2, PTL DEF SessionsSpec

\* Whatever calls run at once in a worker, whenever the system ends their
\* sessions and the tokens' lifetimes end, the retry of rest.go,
\* salesforce.go, mesh.go and sap.go heals an ending of the sessions: a call
\* is refused for good only after a second one, or in one of two ways, each
\* with another call under way: its second token is as old as its first, or
\* the cookie of its CSRF token was replaced.
THEOREM OneEndingIsHealed == SessionsSpec => []OneEndingHealed
<1>1. SessionsInv => OneEndingHealed
  <2> SUFFICES ASSUME SessionsInv, NEW c \in SessionCall, scall[c].pc = "refused", ~revoked
               PROVE  \/ api \notin Static /\ ended >= grants[scall[c].first] + 2
                      \/ /\ api \notin Static \cup Lasting /\ scall[c].overlapped
                         /\ scall[c].token # scall[c].first
                         /\ grants[scall[c].token] = grants[scall[c].first]
                      \/ api = "sap" /\ (scall[c].overlapped \/ scall[c].endedAgain)
    BY DEF OneEndingHealed
  <2>1. CASE api \in TokenApi
    <3>1. api \notin Static
      BY <2>1, ApisDiffer
    <3>2. Renewed(api, scall[c], grants) /\ grants[scall[c].token] < ended
      BY <2>1 DEF SessionsInv, TokenCalls, TokenCall
    <3>3. /\ scall[c].token \in Nat /\ scall[c].first \in Nat /\ Len(grants) \in Nat /\ ended \in Nat
          /\ scall[c].token <= Len(grants) /\ scall[c].first <= Len(grants)
          /\ grants \in Seq(0..ended)
      BY SessionsAssumption DEF SessionsInv, SessionsTyped, CallWithin, SendRecord
    <3>4. scall[c].token \in 1..Len(grants) /\ scall[c].first \in 1..Len(grants)
      BY <3>2, <3>3 DEF Renewed
    <3>5. grants[scall[c].token] \in Nat /\ grants[scall[c].first] \in Nat
      BY <3>3, <3>4
    <3>6. CASE grants[scall[c].token] > grants[scall[c].first]
      BY <3>1, <3>2, <3>3, <3>5, <3>6
    <3>7. CASE /\ api \notin Lasting /\ scall[c].overlapped /\ scall[c].token # scall[c].first
               /\ grants[scall[c].token] = grants[scall[c].first]
      BY <3>1, <3>7
    <3> QED BY <3>2, <3>6, <3>7 DEF Renewed
  <2>2. CASE api \in StaticApi
    BY <2>2 DEF SessionsInv, StaticCalls, StaticCall
  <2>3. CASE api = "sap"
    BY <2>3 DEF SessionsInv, SapCalls, SapCall
  <2>4. CASE api \notin TokenApi \cup Static
    BY <2>4 DEF SessionsInv, NoCalls
  <2> QED BY <2>1, <2>2, <2>3, <2>4, ApisDiffer
<1> QED BY <1>1, SessionsStaySound, PTL

-----------------------------------------------------------------------------
(* Writes at a target. *)

ResultRecord == [doc: Nat, prev: {"old", "new"}]
AttemptRecord == [pc: {"idle", "send", "answered", "stored", "over", "refused"}, res: ResultRecord]

TargetShape ==
  /\ target \in Target /\ tries \in Nat /\ docs \subseteq Nat /\ known \in Nat
  /\ value \in {"old", "new"} /\ preview \in {"none", "ok", "refused"}
  /\ att \in AttemptRecord /\ result \in ResultRecord
  /\ att.pc = "send" => tries # 0

\* A request that is refused, or was not tried, leaves nothing.
NothingRefused ==
  /\ preview # "ok" => att.pc = "idle" /\ docs = {} /\ known = NoDoc /\ value = "old"
  /\ request # "ok" =>
       docs = {} /\ known = NoDoc /\ value = "old" /\ att.pc \in {"idle", "send", "refused"}
  /\ att.pc = "refused" => request # "ok"

\* A target that creates documents holds at most the one it knows for the key,
\* and holds it until the undo; one that is looked for before it is created
\* is not there when the request is sent.
Alone == LookedUp \cup {"sap", "odoo"}
KeyedWrite ==
  /\ value = "old" /\ docs \subseteq {known} /\ NoDoc \notin docs
  /\ att.pc # "over" /\ known # NoDoc => docs = {known}
  /\ att.pc = "send" /\ target \in Alone => docs = {}
  /\ att.pc \in {"answered", "stored"} => known # NoDoc /\ att.res.doc = known
  /\ att.pc \in {"stored", "over"} => result.doc = known

\* An update's key is known once the record is changed.  While no effect went
\* unheard, what the update replaced is the value from before it.
UpdateWrite ==
  /\ docs = {}
  /\ att.pc # "over" /\ known # NoDoc => value = "new"
  /\ att.pc \in {"answered", "stored"} => value = "new"
  /\ ~unheard =>
       /\ att.pc \in {"idle", "send", "refused"} => value = "old"
       /\ att.pc \in {"send", "answered", "stored"} => att.res.prev = "old"
       /\ att.pc \in {"stored", "over"} => result.prev = "old"
       /\ undoSt = "done" => value = "old"

UndoneWrite ==
  /\ readBack # "no"
  /\ undoSt # "none" => docs = {} /\ att.pc = "over"

TargetInv ==
  /\ TargetShape /\ NothingRefused /\ UndoneWrite
  /\ target \notin Updated => KeyedWrite
  /\ target \in Updated => UpdateWrite

\* The least of one number.
LEMMA MinOfOne == ASSUME NEW n \in Nat PROVE Min({n}) = n
BY DEF Min

\* The attempts of the model.
LEMMA Attempts ==
  ASSUME NEW p \in {"idle", "send", "answered", "stored", "over", "refused"}, NEW d \in Nat,
         NEW v \in {"old", "new"}
  PROVE  /\ Attempt(p, d, v) \in AttemptRecord /\ Attempt(p, d, v).pc = p
         /\ Attempt(p, d, v).res.doc = d /\ Attempt(p, d, v).res.prev = v
BY DEF Attempt, AttemptRecord, ResultRecord

\* What the request does at a target that creates a document: it is there once.
LEMMA KeyedEffect ==
  ASSUME TargetShape, target \notin Updated, KeyedWrite, att.pc = "send", Effect
  PROVE  /\ request = "ok" /\ value' = "old" /\ known' \in Nat /\ known' # NoDoc
         /\ docs' = {known'} /\ AnswersWith = known'
<1>0. /\ tries \in Nat /\ tries # NoDoc /\ known \in Nat /\ request = "ok" /\ value = "old"
      /\ docs = {} \/ (docs = {known} /\ known # NoDoc)
      /\ known = NoDoc <=> docs = {}
  BY DEF TargetShape, KeyedWrite, Effect, NoDoc
<1>1. CASE docs = {} /\ Creates
  <2>1. docs' = {tries} /\ known' = tries /\ value' = "old"
    BY <1>0, <1>1 DEF Creates
  <2>2. Min(docs') = known'
    BY <1>0, <2>1, MinOfOne
  <2> QED BY <1>0, <2>1, <2>2 DEF AnswersWith
<1>2. CASE docs # {} /\ Keeps
  <2>1. docs' = {known} /\ known' = known /\ value' = "old"
    BY <1>0, <1>2 DEF Keeps, storeVars
  <2>2. Min(docs') = known'
    BY <1>0, <2>1, MinOfOne
  <2> QED BY <1>0, <1>2, <2>1, <2>2 DEF AnswersWith
<1>3. target \in Alone => docs = {}
  BY DEF KeyedWrite
<1>4. (docs = {} /\ Creates) \/ (docs # {} /\ Keeps)
  BY <1>0, <1>3 DEF Effect, S4Creates, OdooCreates, BcCreates, B1Creates, NetsuiteUpserts,
      DataverseUpserts, XeroCreates, QboCreates, PostgresInserts, SalesforcePatches, HubspotUpdates,
      ShopUpdates, StripeUpdates, Updated, Alone, LookedUp
<1> QED BY <1>1, <1>2, <1>4

\* What it does at one that updates a record.
LEMMA UpdateEffect ==
  ASSUME TargetShape, target \in Updated, UpdateWrite, att.pc = "send", Effect
  PROVE  /\ request = "ok" /\ docs' = {} /\ value' = "new" /\ known' \in Nat /\ AnswersWith = NoDoc
<1>1. docs = {} /\ (known # NoDoc => value = "new") /\ tries \in Nat /\ known \in Nat
  BY DEF UpdateWrite, TargetShape
<1>2. AnswersWith = NoDoc
  BY DEF AnswersWith, Updated
<1> QED BY <1>1, <1>2 DEF Effect, S4Creates, OdooCreates, BcCreates, B1Creates, NetsuiteUpserts,
      DataverseUpserts, XeroCreates, QboCreates, PostgresInserts, SalesforcePatches, HubspotUpdates,
      ShopUpdates, StripeUpdates, Updated, Replaces, Keeps, storeVars

\* The attempt starts.
LEMMA BeginsStep ==
  ASSUME TargetInv, Begins
  PROVE  TargetInv'
<1>0. TargetShape /\ NothingRefused /\ UndoneWrite
  BY DEF TargetInv
<1>1. /\ att.pc = "idle" /\ preview = "ok" /\ tries' = tries + 1
      /\ UNCHANGED <<target, request, preview, docs, known, value, result, readBack, undoSt, unheard>>
  BY DEF Begins, Try, storeVars
<1>2. /\ tries \in Nat /\ tries' \in Nat /\ tries' # 0 /\ value \in {"old", "new"} /\ NoDoc \in Nat
      /\ known \in Nat /\ undoSt = "none"
  BY <1>0, <1>1 DEF TargetShape, NoDoc, UndoneWrite
<1>3. CASE Refuses
  <2>1. att' = Attempt("refused", NoDoc, "old") /\ request # "ok"
    BY <1>3 DEF Begins, Refuses, SapRefuses, OdooRefuses, RestRefuses, SalesforceRefuses, PostgresRefuses
  <2>2. att' \in AttemptRecord /\ att'.pc = "refused"
    BY <1>2, <2>1, Attempts
  <2>3. TargetShape' /\ NothingRefused' /\ UndoneWrite'
    BY <1>0, <1>1, <1>2, <2>1, <2>2 DEF TargetShape, NothingRefused, UndoneWrite
  <2>4. target \notin Updated => KeyedWrite'
    BY <1>1, <2>2 DEF TargetInv, KeyedWrite
  <2>5. target \in Updated => UpdateWrite'
    BY <1>1, <2>2 DEF TargetInv, UpdateWrite
  <2> QED BY <1>1, <2>3, <2>4, <2>5 DEF TargetInv
<1>4. CASE ~Refuses /\ Found # {}
  <2>1. target \in Alone /\ Found = docs
    BY <1>4 DEF Found, SapExisting, OdooExisting, RestExisting, Alone
  <2>2. target \notin Updated
    BY <2>1 DEF Alone, LookedUp, Updated
  <2>3. docs = {known} /\ known # NoDoc
    BY <1>4, <2>1, <2>2 DEF TargetInv, KeyedWrite
  <2>4. Min(Found) = known
    BY <1>2, <2>1, <2>3, MinOfOne
  <2>5. att' = Attempt("answered", known, "old")
    BY <1>4, <2>4 DEF Begins
  <2>6. att' \in AttemptRecord /\ att'.pc = "answered" /\ att'.res.doc = known
    BY <1>2, <2>5, Attempts
  <2>7. request = "ok"
    BY <1>0, <2>3 DEF NothingRefused
  <2>8. TargetShape' /\ NothingRefused' /\ UndoneWrite'
    BY <1>0, <1>1, <1>2, <2>6, <2>7 DEF TargetShape, NothingRefused, UndoneWrite
  <2>9. KeyedWrite'
    BY <1>1, <2>2, <2>3, <2>6 DEF TargetInv, KeyedWrite
  <2> QED BY <1>1, <2>2, <2>8, <2>9 DEF TargetInv
<1>5. CASE ~Refuses /\ Found = {}
  <2>1. att' = Attempt("send", NoDoc, value)
    BY <1>5 DEF Begins
  <2>2. att' \in AttemptRecord /\ att'.pc = "send" /\ att'.res.prev = value
    BY <1>2, <2>1, Attempts
  <2>3. TargetShape' /\ NothingRefused' /\ UndoneWrite'
    BY <1>0, <1>1, <1>2, <2>2 DEF TargetShape, NothingRefused, UndoneWrite
  <2>4. target \in Alone => docs = {}
    BY <1>5 DEF Found, SapExisting, OdooExisting, RestExisting, Alone
  <2>5. target \notin Updated => KeyedWrite'
    BY <1>1, <2>2, <2>4 DEF TargetInv, KeyedWrite
  <2>6. target \in Updated => UpdateWrite'
    BY <1>1, <2>2 DEF TargetInv, UpdateWrite
  <2> QED BY <1>1, <2>3, <2>5, <2>6 DEF TargetInv
<1> QED BY <1>3, <1>4, <1>5

\* The target does its work, and its answer arrives or is lost.
LEMMA WriteSteps ==
  ASSUME TargetInv, Writes \/ AnswerLost
  PROVE  TargetInv'
<1>0. TargetShape /\ NothingRefused /\ UndoneWrite
  BY DEF TargetInv
<1>1. /\ att.pc = "send" /\ Effect
      /\ UNCHANGED <<target, request, preview, result, readBack, undoSt, tries>>
  BY DEF Writes, AnswerLost
<1>2. /\ preview = "ok" /\ undoSt = "none" /\ att.res.prev \in {"old", "new"} /\ NoDoc \in Nat
      /\ IdleAttempt \in AttemptRecord /\ IdleAttempt.pc = "idle"
  BY <1>0, <1>1 DEF NothingRefused, UndoneWrite, TargetShape, AttemptRecord, ResultRecord, IdleAttempt,
                    Attempt, NoDoc
<1>3. CASE target \notin Updated
  <2>1. /\ request = "ok" /\ value' = "old" /\ known' \in Nat /\ known' # NoDoc
        /\ docs' = {known'} /\ AnswersWith = known'
    BY <1>0, <1>1, <1>3, KeyedEffect DEF TargetInv
  <2>2. att' = Attempt("answered", known', att.res.prev) \/ att' = IdleAttempt
    BY <2>1 DEF Writes, AnswerLost
  <2>3. att' \in AttemptRecord /\ (att'.pc = "idle" \/ (att'.pc = "answered" /\ att'.res.doc = known'))
    BY <1>2, <2>1, <2>2, Attempts
  <2>4. TargetShape' /\ NothingRefused' /\ UndoneWrite'
    BY <1>0, <1>1, <1>2, <2>1, <2>3 DEF TargetShape, NothingRefused, UndoneWrite
  <2>5. KeyedWrite'
    BY <2>1, <2>3 DEF KeyedWrite
  <2> QED BY <1>1, <1>3, <2>4, <2>5 DEF TargetInv
<1>4. CASE target \in Updated
  <2>1. /\ request = "ok" /\ docs' = {} /\ value' = "new" /\ known' \in Nat /\ AnswersWith = NoDoc
    BY <1>0, <1>1, <1>4, UpdateEffect DEF TargetInv
  <2>2. \/ att' = Attempt("answered", NoDoc, att.res.prev) /\ unheard' = unheard
        \/ att' = IdleAttempt /\ unheard' = TRUE
    BY <2>1 DEF Writes, AnswerLost
  <2>3. /\ att' \in AttemptRecord
        /\ \/ att'.pc = "idle" /\ unheard' = TRUE
           \/ /\ att'.pc = "answered" /\ att'.res.prev = att.res.prev
              /\ unheard' = unheard
    BY <1>2, <2>2, Attempts
  <2>a. att' \in AttemptRecord /\ att'.pc \in {"idle", "answered"}
    <3>1. att' = Attempt("answered", NoDoc, att.res.prev) \/ att' = IdleAttempt
      BY <2>1 DEF Writes, AnswerLost
    <3> QED BY <1>2, <3>1, Attempts
  <2>4. TargetShape' /\ NothingRefused' /\ UndoneWrite'
    BY <1>0, <1>1, <1>2, <2>1, <2>a DEF TargetShape, NothingRefused, UndoneWrite
  <2>5. ~unheard => att.res.prev = "old"
    BY <1>1, <1>4 DEF TargetInv, UpdateWrite
  <2>6. UpdateWrite'
    BY <1>1, <1>2, <2>1, <2>3, <2>5 DEF UpdateWrite
  <2> QED BY <1>1, <1>4, <2>4, <2>6 DEF TargetInv
<1> QED BY <1>3, <1>4

\* The request fails or is refused, the result is stored or not, read back.
LEMMA ResultSteps ==
  ASSUME TargetInv, WriteFails \/ Stores \/ Confirm
  PROVE  TargetInv'
<1>0. /\ TargetShape /\ NothingRefused /\ UndoneWrite /\ NoDoc \in Nat
      /\ IdleAttempt = Attempt("idle", NoDoc, "old")
  BY DEF TargetInv, NoDoc, IdleAttempt
<1>a. att \in AttemptRecord /\ att.res \in ResultRecord
  BY <1>0 DEF TargetShape, AttemptRecord
<1>1. CASE WriteFails
  <2>1. /\ att.pc = "send" /\ UNCHANGED <<target, request, preview, docs, known, value, result, readBack, undoSt, tries, unheard>>
    BY <1>1 DEF WriteFails, storeVars
  <2>2. att' = Attempt("idle", NoDoc, "old") \/ (att' = Attempt("refused", NoDoc, "old") /\ request # "ok")
    BY <1>0, <1>1 DEF WriteFails
  <2>3. att' \in AttemptRecord /\ (att'.pc = "idle" \/ (att'.pc = "refused" /\ request # "ok"))
    BY <1>0, <2>2, Attempts
  <2>4. TargetShape' /\ NothingRefused' /\ UndoneWrite'
    BY <1>0, <2>1, <2>3 DEF TargetShape, NothingRefused, UndoneWrite
  <2>5. target \notin Updated => KeyedWrite'
    BY <2>1, <2>3 DEF TargetInv, KeyedWrite
  <2>6. target \in Updated => UpdateWrite'
    BY <2>1, <2>3 DEF TargetInv, UpdateWrite
  <2> QED BY <2>1, <2>4, <2>5, <2>6 DEF TargetInv
<1>2. CASE Stores
  <2>1. att.pc = "answered" /\ UNCHANGED <<target, request, preview, docs, known, value, readBack, undoSt, tries>>
    BY <1>2 DEF Stores, storeVars
  <2>2. CASE result' = att.res /\ att' = [att EXCEPT !.pc = "stored"] /\ UNCHANGED unheard
    <3>1. att' \in AttemptRecord /\ att'.pc = "stored" /\ att'.res = att.res
      BY <1>a, <2>2 DEF AttemptRecord
    <3>2. TargetShape' /\ NothingRefused' /\ UndoneWrite'
      BY <1>0, <1>a, <2>1, <2>2, <3>1 DEF TargetShape, NothingRefused, UndoneWrite
    <3>3. target \notin Updated => KeyedWrite'
      BY <2>1, <2>2, <3>1 DEF TargetInv, KeyedWrite
    <3>4. target \in Updated => UpdateWrite'
      BY <2>1, <2>2, <3>1 DEF TargetInv, UpdateWrite
    <3> QED BY <2>1, <3>2, <3>3, <3>4 DEF TargetInv
  <2>3. CASE att' = IdleAttempt /\ unheard' = TRUE /\ UNCHANGED result
    <3>1. att' \in AttemptRecord /\ att'.pc = "idle"
      BY <1>0, <2>3, Attempts
    <3>2. TargetShape' /\ NothingRefused' /\ UndoneWrite'
      BY <1>0, <2>1, <2>3, <3>1 DEF TargetShape, NothingRefused, UndoneWrite
    <3>3. target \notin Updated => KeyedWrite'
      BY <2>1, <2>3, <3>1 DEF TargetInv, KeyedWrite
    <3>4. target \in Updated => UpdateWrite'
      BY <2>1, <2>3, <3>1 DEF TargetInv, UpdateWrite
    <3> QED BY <2>1, <3>2, <3>3, <3>4 DEF TargetInv
  <2> QED BY <1>2, <2>2, <2>3 DEF Stores
<1>3. CASE Confirm
  <2>1. /\ att.pc = "stored" /\ att' = [att EXCEPT !.pc = "over"]
        /\ UNCHANGED <<target, request, preview, docs, known, value, result, undoSt, tries, unheard>>
    BY <1>3 DEF Confirm, storeVars
  <2>2. att' \in AttemptRecord /\ att'.pc = "over"
    BY <1>a, <2>1 DEF AttemptRecord
  <2>3. readBack' # "no"
    <3>1. target \in RestTarget \/ target \in {"sap", "odoo", "postgres", "salesforce"}
      BY <1>0, TargetWriteAssumption DEF TargetShape
    <3>2. CASE target \notin Updated
      <4>1. result.doc \in docs
        BY <2>1, <3>2 DEF TargetInv, KeyedWrite
      <4>2. target # "salesforce"
        BY <3>2 DEF Updated
      <4> QED BY <1>3, <3>1, <3>2, <4>1, <4>2 DEF Confirm, SapConfirms, OdooConfirms, PostgresConfirms, RestConfirms
    <3>3. CASE target \in Updated
      <4>1. value = "new"
        BY <2>1, <3>3 DEF TargetInv, UpdateWrite
      <4>2. target = "salesforce" \/ target \in RestTarget
        BY <3>3 DEF Updated, RestTarget
      <4> QED BY <1>3, <4>1, <4>2 DEF Confirm, SalesforceConfirms, RestConfirms
    <3> QED BY <3>2, <3>3
  <2>4. TargetShape' /\ NothingRefused' /\ UndoneWrite'
    BY <1>0, <2>1, <2>2, <2>3 DEF TargetShape, NothingRefused, UndoneWrite
  <2>5. target \notin Updated => KeyedWrite'
    BY <2>1, <2>2 DEF TargetInv, KeyedWrite
  <2>6. target \in Updated => UpdateWrite'
    BY <1>0, <2>1, <2>2 DEF TargetInv, UpdateWrite, UndoneWrite
  <2> QED BY <2>1, <2>4, <2>5, <2>6 DEF TargetInv
<1> QED BY <1>1, <1>2, <1>3

\* The compensation takes back what the stored result names.
LEMMA UndoSteps ==
  ASSUME TargetInv, Undo \/ UndoAnswerLost
  PROVE  TargetInv'
<1>0. TargetShape /\ NothingRefused /\ UndoneWrite
  BY DEF TargetInv
<1>1. /\ att.pc \in {"stored", "over"} /\ tries' = tries + 1 /\ att' = [att EXCEPT !.pc = "over"]
      /\ UNCHANGED <<target, request, preview, known, result, readBack, unheard>>
  BY DEF Undo, UndoAnswerLost, StartsUndo, Try
<1>2. att' \in AttemptRecord /\ att'.pc = "over" /\ tries' \in Nat
  BY <1>0, <1>1 DEF TargetShape, AttemptRecord
<1>3. request = "ok" /\ preview = "ok"
  BY <1>0, <1>1 DEF NothingRefused
<1>4. CASE target \notin Updated
  <2>1. docs \subseteq {result.doc} /\ result.doc = known /\ value = "old"
    BY <1>1, <1>4 DEF TargetInv, KeyedWrite
  <2>2. docs' = {} /\ value' = "old"
    <3>1. CASE DocumentGone
      <4>1. UNCHANGED <<docs, value>>
        BY <3>1 DEF Undo, UndoAnswerLost
      <4> QED BY <2>1, <3>1, <4>1 DEF DocumentGone
    <3>2. CASE ~DocumentGone
      <4>1. docs' = docs \ {result.doc} /\ UNCHANGED value
        BY <1>4, <3>2 DEF Undo, UndoAnswerLost, UndoEffect
      <4> QED BY <2>1, <4>1
    <3> QED BY <3>1, <3>2
  <2>3. TargetShape' /\ NothingRefused' /\ UndoneWrite'
    BY <1>0, <1>1, <1>2, <1>3, <2>2 DEF TargetShape, NothingRefused, UndoneWrite
  <2>4. KeyedWrite'
    BY <1>1, <1>2, <2>1, <2>2 DEF KeyedWrite
  <2> QED BY <1>1, <1>4, <2>3, <2>4 DEF TargetInv
<1>5. CASE target \in Updated
  <2>1. docs = {} /\ (~unheard => result.prev = "old") /\ result.prev \in {"old", "new"}
    BY <1>0, <1>1, <1>5 DEF TargetInv, UpdateWrite, TargetShape, ResultRecord
  <2>2. value' = result.prev /\ docs' = {}
    BY <1>5, <2>1 DEF Undo, UndoAnswerLost, DocumentGone, UndoEffect
  <2>3. TargetShape' /\ NothingRefused' /\ UndoneWrite'
    BY <1>0, <1>1, <1>2, <1>3, <2>1, <2>2 DEF TargetShape, NothingRefused, UndoneWrite
  <2>4. UpdateWrite'
    BY <1>1, <1>2, <2>1, <2>2 DEF UpdateWrite
  <2> QED BY <1>1, <1>5, <2>3, <2>4 DEF TargetInv
<1> QED BY <1>4, <1>5

\* However often a write and its undo are attempted, and wherever an answer
\* or a result is lost, there is never a second document, what was stored
\* reads back, and the undo leaves nothing of the write; of an update, unless
\* one went unheard and was repeated (Commit, Confirm and Compensate of the
\* connectors).
THEOREM UndosRestore == TargetWriteSpec => []UndoRestores
<1>1. TargetWriteInit => TargetInv
  <2> SUFFICES ASSUME TargetWriteInit PROVE TargetInv
    OBVIOUS
  <2>1. /\ target \in Target /\ preview = "none" /\ docs = {} /\ known = NoDoc /\ value = "old"
        /\ att = Attempt("idle", NoDoc, "old") /\ result = NoResult
        /\ readBack = "none" /\ undoSt = "none" /\ tries = 0 /\ NoDoc \in Nat /\ unheard = FALSE
    BY DEF TargetWriteInit, IdleAttempt, NoDoc
  <2>2. att \in AttemptRecord /\ att.pc = "idle"
    BY <2>1, Attempts
  <2>3. NoResult \in ResultRecord
    BY DEF NoResult, ResultRecord, NoDoc
  <2> QED BY <2>1, <2>2, <2>3 DEF TargetInv, TargetShape, NothingRefused, UndoneWrite, KeyedWrite, UpdateWrite
<1>2. TargetInv /\ [TargetWriteNext]_targetVars => TargetInv'
  <2> SUFFICES ASSUME TargetInv, [TargetWriteNext]_targetVars PROVE TargetInv'
    OBVIOUS
  <2>1. CASE Simulates
    <3>1. /\ preview = "none" /\ preview' \in {"ok", "refused"}
          /\ UNCHANGED <<target, request, docs, known, value, att, result, readBack, undoSt, tries,
                         unheard>>
      BY <2>1 DEF Simulates, storeVars
    <3>2. TargetShape' /\ NothingRefused' /\ UndoneWrite'
      BY <3>1 DEF TargetInv, TargetShape, NothingRefused, UndoneWrite
    <3> QED BY <3>1, <3>2 DEF TargetInv, KeyedWrite, UpdateWrite
  <2>2. CASE UNCHANGED targetVars
    BY <2>2 DEF targetVars, storeVars, TargetInv, TargetShape, NothingRefused, UndoneWrite, KeyedWrite, UpdateWrite
  <2> QED BY <2>1, <2>2, BeginsStep, WriteSteps, ResultSteps, UndoSteps DEF TargetWriteNext
<1>3. TargetInv => UndoRestores
  <2> SUFFICES ASSUME TargetInv PROVE UndoRestores
    OBVIOUS
  <2>1. docs = {} \/ \E d : docs = {d}
    BY DEF TargetInv, KeyedWrite, UpdateWrite
  <2>2. Cardinality(docs) <= 1
    <3>1. CASE docs = {}
      <4>1. Cardinality(docs) = 0
        BY <3>1, FS_EmptySet
      <4> QED BY <4>1
    <3>2. ASSUME NEW d, docs = {d} PROVE Cardinality(docs) <= 1
      <4>1. Cardinality(docs) = 1
        BY <3>2, FS_Singleton
      <4> QED BY <4>1
    <3> QED BY <2>1, <3>1, <3>2
  <2>3. preview = "refused" \/ att.pc = "refused" => docs = {} /\ value = "old"
    BY DEF TargetInv, NothingRefused
  <2>4. undoSt = "done" => value = "old" \/ (target \in Updated /\ unheard)
    BY DEF TargetInv, KeyedWrite, UpdateWrite
  <2> QED BY <2>2, <2>3, <2>4 DEF TargetInv, UndoneWrite, UndoRestores
<1> QED BY <1>1, <1>2, <1>3, PTL DEF TargetWriteSpec

-----------------------------------------------------------------------------
(* Schema discovery. *)

\* The connectors whose mark of a read-only field can miss that a field was
\* closed for what a user does, when it stays open for creates or for updates.
OneWay == {"postgres", "salesforce", "sap"}

\* What every system and every catalog shows: whether the object is there
\* and, if it is, whether the field is, with its parts.
SystemShape(k, s) ==
  /\ s.there \in BOOLEAN
  /\ s.there => s.has \in BOOLEAN
  /\ s.there /\ s.has =>
       /\ s.type \in Types /\ s.length \in Nat
       /\ s.required \in BOOLEAN /\ s.create \in BOOLEAN /\ s.update \in BOOLEAN
       /\ s.required => s.create
       /\ k \notin PartlyWritable => s.create = s.update

\* The systems a connector can meet have that shape.
LEMMA SystemShapes ==
  ASSUME NEW k, NEW s \in System(k) PROVE SystemShape(k, s)
<1>1. CASE s = Gone
  BY <1>1 DEF Gone, SystemShape
<1>2. CASE s = NoField
  BY <1>2 DEF NoField, SystemShape
<1>3. CASE s \in RawField(k)
  <2>1. PICK t \in Types, n \in 0..MaxLength, r \in BOOLEAN, c \in BOOLEAN, u \in BOOLEAN :
          s = [there |-> TRUE, has |-> TRUE, type |-> t, length |-> n, required |-> r,
               create |-> c, update |-> u]
    BY <1>3 DEF RawField
  <2>2. /\ s.there = TRUE /\ s.has = TRUE /\ s.type = t /\ s.length = n
        /\ s.required = r /\ s.create = c /\ s.update = u
    BY <2>1
  <2>3. Possible(k, s)
    BY DEF System
  <2>4. n \in Nat
    BY MetaAssumption
  <2> QED BY <2>2, <2>3, <2>4 DEF Possible, SystemShape
<1> QED BY <1>1, <1>2, <1>3 DEF System

\* What a connector that is not a sample stores of a system: the same type
\* and length, what is required, and read-only when nothing can be written.
LEMMA DiscoveredField ==
  ASSUME NEW k \in MetaKind, ~Sampled(k), NEW s \in System(k), NEW c \in Discovered(k, s)
  PROVE  /\ c.there = s.there
         /\ s.there => c.has = s.has
         /\ s.there /\ s.has =>
              /\ c.type = s.type /\ c.length = s.length /\ c.required = s.required
              /\ k \in {"postgres", "odoo", "openapi"} => c.readOnly = ~s.create
              /\ k \in {"salesforce", "sap"} => c.readOnly = (~s.create /\ ~s.update)
<1>1. SystemShape(k, s)
  BY SystemShapes
<1>2. CASE ~s.there \/ ~s.has
  BY <1>1, <1>2 DEF Discovered, SystemShape
<1>3. CASE s.there /\ s.has
  <2> DEFINE f(r, ro) == [there |-> TRUE, has |-> TRUE, type |-> s.type, length |-> s.length,
                          required |-> r, readOnly |-> ro]
  <2>0. k \in {"postgres", "salesforce", "sap", "odoo", "openapi", "debezium"}
    BY MetaAssumption DEF Sampled
  <2>1. \/ k = "postgres" /\ c = f(s.required, ~s.create)
        \/ k = "salesforce" /\ c = f(s.required /\ s.create, ~s.create /\ ~s.update)
        \/ k = "sap" /\ c = f(s.required, ~s.create /\ ~s.update)
        \/ k = "odoo" /\ c = f(s.required, ~s.create)
        \/ k = "openapi" /\ c = f(s.required /\ s.create, ~s.create)
        \/ k = "debezium" /\ c = f(s.required, FALSE)
    BY <1>3, <2>0 DEF Discovered, DiscoverPostgres, DiscoverSalesforce, DiscoverSap, DiscoverOdoo,
                   DiscoverOpenAPI, DiscoverDebezium, Field
  <2>2. (s.required /\ s.create) = s.required
    BY <1>1, <1>3 DEF SystemShape
  <2>3. ASSUME NEW r, NEW ro, c = f(r, ro)
        PROVE  /\ c.there = TRUE /\ c.has = TRUE /\ c.type = s.type /\ c.length = s.length
               /\ c.required = r /\ c.readOnly = ro
    BY <2>3
  <2> HIDE DEF f
  <2>4. /\ c.there = TRUE /\ c.has = TRUE /\ c.type = s.type /\ c.length = s.length
        /\ c.required = s.required
    BY <2>1, <2>2, <2>3
  <2>5. k \in {"postgres", "odoo", "openapi"} => c.readOnly = ~s.create
    BY <2>1, <2>3
  <2>6. k \in {"salesforce", "sap"} => c.readOnly = (~s.create /\ ~s.update)
    BY <2>1, <2>3
  <2>7. s.there = TRUE /\ s.has = TRUE
    BY <1>1, <1>3 DEF SystemShape
  <2> QED BY <2>4, <2>5, <2>6, <2>7
<1> QED BY <1>1, <1>2, <1>3 DEF SystemShape

\* A change Diff reports that breaks a user is in the comparison.
LEMMA ComparisonHas ==
  ASSUME NEW old, NEW new, NEW u, NEW what,
         Change(what, TRUE) \in Diff(old, new, FALSE), Breaks(u, Change(what, TRUE))
  PROVE  Compare(old, new, FALSE, u) # {}
BY DEF Compare

\* A schema the system declares: whoever it served or let pass, and no
\* longer does, reads of a breaking change in the comparison.
LEMMA BreakIsReported ==
  ASSUME PartlyWritable \cap OneWay = {},
         NEW k \in MetaKind, ~Sampled(k), NEW was \in System(k), NEW is \in System(k),
         NEW old \in Discovered(k, was), NEW new \in Discovered(k, is), NEW u \in User(k),
         \/ Serves(was, u) /\ ~Serves(is, u)
         \/ CheckPasses(k, was, u) /\ ~CheckPasses(k, is, u)
  PROVE  Compare(old, new, FALSE, u) # {}
<1>0. k \in {"postgres", "salesforce", "sap", "odoo", "openapi", "debezium"}
  BY MetaAssumption DEF Sampled
<1>1. SystemShape(k, was) /\ SystemShape(k, is)
  BY SystemShapes
<1>2. /\ old.there = was.there
      /\ was.there => old.has = was.has
      /\ was.there /\ was.has =>
           /\ old.type = was.type /\ old.length = was.length /\ old.required = was.required
           /\ k \in {"postgres", "odoo", "openapi"} => old.readOnly = ~was.create
           /\ k \in {"salesforce", "sap"} => old.readOnly = (~was.create /\ ~was.update)
  BY DiscoveredField
<1>3. /\ new.there = is.there
      /\ is.there => new.has = is.has
      /\ is.there /\ is.has =>
           /\ new.type = is.type /\ new.length = is.length /\ new.required = is.required
           /\ k \in {"postgres", "odoo", "openapi"} => new.readOnly = ~is.create
           /\ k \in {"salesforce", "sap"} => new.readOnly = (~is.create /\ ~is.update)
  BY DiscoveredField
<1>4. u.field \in BOOLEAN /\ u.does \in Does(k) /\ u.length \in Nat
  BY MetaAssumption DEF User
<1>5. /\ u.does = "update" => k \in {"postgres", "salesforce"}
      /\ u.does = "create" => k \in {"postgres", "sap", "odoo", "openapi"}
  BY <1>0, <1>4 DEF Does
<1>6. was.there
  BY <1>0, <1>1 DEF Serves, CheckPasses, CheckTable, CheckSalesforce, CheckSap, CheckOdoo,
          CheckRest, CheckDebezium, Named, SystemShape
<1>7. CASE ~is.there
  <2>1. Change("object-removed", TRUE) \in Diff(old, new, FALSE)
    BY <1>2, <1>3, <1>6, <1>7 DEF Diff
  <2>2. Breaks(u, Change("object-removed", TRUE))
    BY DEF Breaks, Change
  <2> QED BY <2>1, <2>2, ComparisonHas
<1>8. CASE is.there
  <2>0. was.has \in BOOLEAN /\ is.has \in BOOLEAN
    BY <1>1, <1>6, <1>8 DEF SystemShape
  <2>1. CASE u.field /\ was.has /\ ~is.has
    <3>1. Diff(old, new, FALSE) = {Change("field-removed", TRUE)}
      BY <1>2, <1>3, <1>6, <1>8, <2>1 DEF Diff
    <3>2. Breaks(u, Change("field-removed", TRUE))
      BY <2>1 DEF Breaks, Change
    <3> QED BY <3>1, <3>2, ComparisonHas
  <2>2. CASE u.does = "create" /\ ~was.has /\ is.has /\ is.required
    <3>1. Diff(old, new, FALSE) = {Change("field-added", TRUE)}
      BY <1>1, <1>2, <1>3, <1>6, <1>8, <2>2 DEF Diff, SystemShape
    <3>2. Breaks(u, Change("field-added", TRUE))
      BY <2>2 DEF Breaks, Change
    <3> QED BY <3>1, <3>2, ComparisonHas
  <2>3. CASE was.has /\ is.has
    <3>0. Diff(old, new, FALSE) = FieldDiff(old, new, FALSE)
      BY <1>2, <1>3, <1>6, <1>8, <2>3 DEF Diff
    <3>1. CASE u.field /\ was.type # is.type
      <4>1. Change("type-changed", TRUE) \in FieldDiff(old, new, FALSE)
        BY <1>2, <1>3, <1>6, <1>8, <2>3, <3>1 DEF FieldDiff
      <4>2. Breaks(u, Change("type-changed", TRUE))
        BY <3>1 DEF Breaks, Change
      <4> QED BY <3>0, <4>1, <4>2, ComparisonHas
    <3>2. CASE u.does = "create" /\ ~was.required /\ is.required
      <4>1. Change("became-required", TRUE) \in FieldDiff(old, new, FALSE)
        BY <1>2, <1>3, <1>6, <1>8, <2>3, <3>2 DEF FieldDiff
      <4>2. Breaks(u, Change("became-required", TRUE))
        BY <3>2 DEF Breaks, Change
      <4> QED BY <3>0, <4>1, <4>2, ComparisonHas
    <3>3. CASE /\ u.field
               /\ \/ u.does = "create" /\ was.create /\ ~is.create
                  \/ u.does = "update" /\ was.update /\ ~is.update
      <4>1. /\ k \in {"postgres", "sap", "salesforce"} =>
                 was.create = was.update /\ is.create = is.update
            /\ k \in {"postgres", "salesforce", "sap", "odoo", "openapi"}
        BY <1>1, <1>5, <1>6, <1>8, <2>3, <3>3 DEF SystemShape, OneWay
      <4>2. ~old.readOnly /\ new.readOnly
        BY <1>2, <1>3, <1>5, <1>6, <1>8, <2>3, <3>3, <4>1
      <4>3. Change("became-read-only", TRUE) \in FieldDiff(old, new, FALSE)
        BY <4>2 DEF FieldDiff
      <4>4. Breaks(u, Change("became-read-only", TRUE))
        BY <3>3 DEF Breaks, Change
      <4> QED BY <3>0, <4>3, <4>4, ComparisonHas
    <3>4. CASE /\ u.field
               /\ was.length = 0 \/ u.length \in 1..was.length
               /\ ~(is.length = 0 \/ u.length \in 1..is.length)
      <4>1. was.length \in Nat /\ is.length \in Nat
        BY <1>1, <1>6, <1>8, <2>3 DEF SystemShape
      <4>2. is.length > 0 /\ (was.length = 0 \/ is.length < was.length)
        BY <1>4, <3>4, <4>1
      <4>3. new.length > 0 /\ (old.length = 0 \/ new.length < old.length)
        BY <1>2, <1>3, <1>6, <1>8, <2>3, <4>2
      <4>4. Change("length-shrunk", TRUE) \in FieldDiff(old, new, FALSE)
        BY <4>3 DEF FieldDiff, Shrunk
      <4>5. Breaks(u, Change("length-shrunk", TRUE))
        BY <3>4 DEF Breaks, Change
      <4> QED BY <3>0, <4>4, <4>5, ComparisonHas
    <3>5. CASE Serves(was, u) /\ ~Serves(is, u)
      BY <1>8, <2>3, <3>1, <3>2, <3>3, <3>4, <3>5 DEF Serves
    <3>6. CASE CheckPasses(k, was, u) /\ ~CheckPasses(k, is, u)
      BY <1>0, <1>8, <2>3, <3>3, <3>6 DEF CheckPasses, CheckTable, CheckSalesforce,
           CheckSap, CheckOdoo, CheckRest, CheckDebezium, Named
    <3> QED BY <3>5, <3>6
  <2>4. CASE Serves(was, u) /\ ~Serves(is, u)
    BY <1>8, <2>0, <2>1, <2>2, <2>3, <2>4 DEF Serves
  <2>5. CASE CheckPasses(k, was, u) /\ ~CheckPasses(k, is, u)
    BY <1>0, <1>8, <2>0, <2>1, <2>3, <2>5 DEF CheckPasses, CheckTable, CheckSalesforce,
         CheckSap, CheckOdoo, CheckRest, CheckDebezium, Named
  <2> QED BY <2>4, <2>5
<1> QED BY <1>1, <1>7, <1>8 DEF SystemShape

\* Each catalog a discovery holds or has stored is what the connector makes
\* of the system it read, when it is no sample.
Seen(k, cat, of) == of \in System(k) /\ (~Sampled(k) => cat \in Discovered(k, of))
StoredSeen == \A i \in 1..Len(saved) : Seen(metaKind, saved[i].cat, saved[i].of)
HeldSeen == \A d \in Discoverer :
  discovery[d].at \in {"found", "locked"} => Seen(metaKind, discovery[d].cat, discovery[d].of)

\* One discovery at a time is between reading the latest snapshot under the
\* lock and adding its own, so what it read is still the latest.
LatestHeld == \A d \in Discoverer : discovery[d].at = "locked" =>
  /\ \A e \in Discoverer : discovery[e].at = "locked" => e = d
  /\ discovery[d].had <=> snapshots # <<>>
  /\ snapshots # <<>> => discovery[d].prev = Latest(snapshots)

DiscoveryRecord ==
  [at: {"idle", "asked", "found", "locked"}, had: BOOLEAN, prev: Catalog, learns: BOOLEAN,
   cat: Catalog, of: System(metaKind)]
MetaShape ==
  /\ metaKind \in MetaKind /\ system \in System(metaKind) /\ refused \in BOOLEAN
  /\ snapshots \in Seq(Catalog) /\ saved \in Seq([cat: Catalog, of: System(metaKind)])
  /\ discovery \in [Discoverer -> DiscoveryRecord]
MetaInv == MetaShape /\ StoredSeen /\ HeldSeen /\ LatestHeld /\ SnapshotsDiffer

\* Nothing but the object's absence, and the object without its field, is
\* stored for a system that shows no more.
LEMMA NothingThere ==
  /\ Gone \in Catalog /\ NoField \in Catalog
  /\ \A k : Gone \in System(k) /\ NoField \in System(k)
<1>1. ASSUME NEW k PROVE Possible(k, Gone) /\ Possible(k, NoField)
  BY DEF Possible, Gone, NoField
<1> QED BY <1>1 DEF Catalog, System

\* A field with parts of the right kinds makes a catalog.
LEMMA FieldIsCatalog ==
  \A t \in Types \cup {Unknown}, n \in 0..MaxLength, r \in BOOLEAN, ro \in BOOLEAN :
    Field(t, n, r, ro) \in Catalog
BY DEF Catalog

\* What a connector discovers is a catalog ...
LEMMA DiscoveredIsCatalog ==
  ASSUME NEW k \in MetaKind, NEW s \in System(k), NEW c \in Discovered(k, s)
  PROVE  c \in Catalog
<1>1. CASE ~s.there \/ ~s.has
  <2>1. s \notin RawField(k)
    BY <1>1 DEF RawField
  <2> QED BY <1>1, <2>1, NothingThere DEF Discovered, System
<1>2. CASE s.there /\ s.has
  <2>1. /\ s.type \in Types /\ s.length \in 0..MaxLength
        /\ s.required \in BOOLEAN /\ s.create \in BOOLEAN /\ s.update \in BOOLEAN
    <3>1. s \in RawField(k)
      BY <1>2 DEF System, Gone, NoField
    <3> QED BY <3>1 DEF RawField
  <2>2. 0 \in 0..MaxLength
    BY MetaAssumption
  <2> DEFINE T == Types \cup {Unknown}
             N == 0..MaxLength
  <2>3. \E t \in T, n \in N, r \in BOOLEAN, ro \in BOOLEAN : c = Field(t, n, r, ro) \/ c \in {Gone, NoField}
    <3>1. /\ s.type \in T /\ Unknown \in T /\ s.length \in N /\ 0 \in N
          /\ (s.required /\ s.create) \in BOOLEAN /\ (~s.create) \in BOOLEAN
          /\ (~s.create /\ ~s.update) \in BOOLEAN
      BY <2>1, <2>2
    <3> HIDE DEF T, N
    <3> QED BY <1>2, <2>1, <3>1
          DEF Discovered, DiscoverPostgres, DiscoverSalesforce, DiscoverSap, DiscoverOdoo,
              DiscoverOpenAPI, DiscoverDebezium, DiscoverSample
  <2> QED BY <2>3, NothingThere, FieldIsCatalog
<1> QED BY <1>1, <1>2

\* ... and stays one when refusals or an earlier catalog add to it.
LEMMA RequiredIsCatalog ==
  ASSUME NEW c \in Catalog, c.there, c.has
  PROVE  [c EXCEPT !.required = TRUE] \in Catalog
<1>1. PICK t \in Types \cup {Unknown}, n \in 0..MaxLength, r \in BOOLEAN, ro \in BOOLEAN :
        c = Field(t, n, r, ro)
  BY DEF Catalog, Gone, NoField
<1> DEFINE R == [there: {TRUE}, has: {TRUE}, type: Types \cup {Unknown}, length: 0..MaxLength,
                 required: BOOLEAN, readOnly: BOOLEAN]
           e == [c EXCEPT !.required = TRUE]
<1>2. c \in R
  BY <1>1 DEF Field
<1>3. e \in R
  BY <1>2
<1>4. e = Field(e.type, e.length, e.required, e.readOnly)
  <2> HIDE DEF e
  <2> QED BY <1>3 DEF Field
<1>5. /\ e.type \in Types \cup {Unknown} /\ e.length \in 0..MaxLength
      /\ e.required \in BOOLEAN /\ e.readOnly \in BOOLEAN
  <2> HIDE DEF e
  <2> QED BY <1>3
<1> HIDE DEF e, R
<1>6. e \in Catalog
  BY <1>4, <1>5, FieldIsCatalog
<1> QED BY <1>6 DEF e

\* Learn and KeepRequired give catalogs.
LEMMA LearntIsCatalog ==
  ASSUME NEW k, NEW c \in Catalog, NEW prev \in Catalog, NEW learns \in BOOLEAN
  PROVE  Learn(c, learns) \in Catalog /\ KeepRequired(k, prev, c) \in Catalog
<1>1. Field(Unknown, 0, TRUE, FALSE) \in Catalog
  <2>1. 0 \in 0..MaxLength
    BY MetaAssumption
  <2> QED BY <2>1, FieldIsCatalog
<1> QED BY <1>1, RequiredIsCatalog DEF Learn, KeepRequired

\* A snapshot is added only when it differs from the latest one.
LEMMA AddedDiffers ==
  ASSUME NEW S, NEW s \in Seq(S), NEW c \in S,
         \A i \in 1..(Len(s) - 1) : s[i] # s[i + 1],
         s = <<>> \/ Latest(s) # c
  PROVE  \A i \in 1..(Len(Append(s, c)) - 1) : Append(s, c)[i] # Append(s, c)[i + 1]
<1> DEFINE t == Append(s, c)
<1>1. Len(t) = Len(s) + 1 /\ Len(s) \in Nat /\ t[Len(s) + 1] = c
      /\ \A i \in 1..Len(s) : t[i] = s[i]
  OBVIOUS
<1> HIDE DEF t
<1> SUFFICES ASSUME NEW i \in 1..(Len(t) - 1) PROVE t[i] # t[i + 1]
  BY DEF t
<1>2. i \in 1..Len(s)
  BY <1>1
<1>3. CASE i = Len(s)
  <2>1. s # <<>> /\ t[i] = Latest(s)
    BY <1>1, <1>2, <1>3 DEF Latest
  <2> QED BY <1>1, <1>3, <2>1
<1>4. CASE i # Len(s)
  <2>1. i \in 1..(Len(s) - 1) /\ i + 1 \in 1..Len(s)
    BY <1>1, <1>2, <1>4
  <2> QED BY <1>1, <1>2, <2>1
<1> QED BY <1>3, <1>4

\* What a discovery's own step leaves: the discovery is in a new state, the
\* others keep theirs.
LEMMA DiscoveryMoves ==
  ASSUME MetaInv, NEW d \in Discoverer, NEW r \in DiscoveryRecord,
         discovery' = [discovery EXCEPT ![d] = r],
         UNCHANGED <<metaKind, system, refused, snapshots, saved>>,
         r.at \in {"found", "locked"} => Seen(metaKind, r.cat, r.of),
         r.at = "locked" =>
           /\ \A e \in Discoverer : discovery[e].at # "locked"
           /\ r.had <=> snapshots # <<>>
           /\ snapshots # <<>> => r.prev = Latest(snapshots)
  PROVE  MetaInv'
<1> USE DEF MetaInv
<1>1. discovery'[d] = r /\ \A e \in Discoverer \ {d} : discovery'[e] = discovery[e]
  BY DEF MetaShape
<1>2. MetaShape'
  BY DEF MetaShape, DiscoveryRecord
<1>3. StoredSeen' /\ SnapshotsDiffer'
  BY DEF StoredSeen, SnapshotsDiffer
<1>4. HeldSeen'
  BY <1>1 DEF HeldSeen
<1>5. LatestHeld'
  BY <1>1 DEF LatestHeld
<1> QED BY <1>2, <1>3, <1>4, <1>5

\* From the invariant, what the snapshots tell.
LEMMA SeenTells ==
  ASSUME PartlyWritable \cap OneWay = {}, MetaInv PROVE SnapshotsTell
<1> SUFFICES ASSUME ~Sampled(metaKind), NEW i \in 1..(Len(saved) - 1), NEW u \in User(metaKind),
                    \/ Serves(saved[i].of, u) /\ ~Serves(saved[i + 1].of, u)
                    \/ /\ CheckPasses(metaKind, saved[i].of, u)
                       /\ ~CheckPasses(metaKind, saved[i + 1].of, u)
             PROVE  Compare(saved[i].cat, saved[i + 1].cat, FALSE, u) # {}
  BY DEF SnapshotsTell, BreaksReported, MetaInv
<1>1. i \in 1..Len(saved) /\ i + 1 \in 1..Len(saved) /\ metaKind \in MetaKind
  BY DEF MetaInv, MetaShape
<1>2. Seen(metaKind, saved[i].cat, saved[i].of) /\ Seen(metaKind, saved[i + 1].cat, saved[i + 1].of)
  BY <1>1 DEF MetaInv, StoredSeen
<1> QED BY <1>1, <1>2, BreakIsReported DEF Seen

\* Every step keeps what was stored a view of the system it was read from.
LEMMA SnapshotsStaySeen == MetaSpec => []MetaInv
<1>1. MetaInit => MetaInv
  <2> SUFFICES ASSUME MetaInit PROVE MetaInv
    OBVIOUS
  <2>1. NoDiscovery \in DiscoveryRecord /\ NoDiscovery.at = "idle"
    BY NothingThere DEF NoDiscovery, DiscoveryRecord
  <2>2. discovery \in [Discoverer -> DiscoveryRecord] /\ \A d \in Discoverer : discovery[d].at = "idle"
    BY <2>1 DEF MetaInit
  <2>3. Len(snapshots) = 0 /\ Len(saved) = 0
    BY DEF MetaInit
  <2>4. MetaShape
    <3>1. \A S : <<>> \in Seq(S)
      OBVIOUS
    <3> QED BY <2>2, <3>1 DEF MetaInit, MetaShape
  <2>5. StoredSeen /\ SnapshotsDiffer
    BY <2>3 DEF StoredSeen, SnapshotsDiffer
  <2>6. HeldSeen /\ LatestHeld
    BY <2>2 DEF HeldSeen, LatestHeld
  <2> QED BY <2>4, <2>5, <2>6 DEF MetaInv
<1>2. MetaInv /\ [MetaNext]_metaVars => MetaInv'
  <2> SUFFICES ASSUME MetaInv, [MetaNext]_metaVars PROVE MetaInv'
    OBVIOUS
  <2>0. MetaShape /\ \A d \in Discoverer : discovery[d] \in DiscoveryRecord
    BY DEF MetaInv, MetaShape
  <2>1. ASSUME NEW d \in Discoverer, ReadLatest(d) PROVE MetaInv'
    <3> DEFINE r == [at |-> "asked", had |-> snapshots # <<>>,
                     prev |-> IF snapshots = <<>> THEN Gone ELSE Latest(snapshots),
                     learns |-> refused, cat |-> Gone, of |-> Gone]
    <3>1. snapshots # <<>> => Latest(snapshots) \in Catalog
      BY <2>0 DEF MetaShape, Latest
    <3>2. r \in DiscoveryRecord /\ r.at = "asked"
      BY <2>0, <3>1, NothingThere DEF MetaShape, DiscoveryRecord
    <3>3. discovery' = [discovery EXCEPT ![d] = r]
      BY <2>1 DEF ReadLatest
    <3> HIDE DEF r
    <3> QED BY <2>1, <3>2, <3>3, DiscoveryMoves DEF ReadLatest
  <2>2. ASSUME NEW d \in Discoverer, DiscoverOne(d) PROVE MetaInv'
    <3>1. PICK c \in Discovered(metaKind, system) :
            discovery' = [discovery EXCEPT ![d].at = "found", ![d].of = system,
              ![d].cat = KeepRequired(metaKind, discovery[d].prev,
                           IF Sampled(metaKind) THEN Learn(c, discovery[d].learns) ELSE c)]
      BY <2>2 DEF DiscoverOne
    <3> DEFINE cat == KeepRequired(metaKind, discovery[d].prev,
                        IF Sampled(metaKind) THEN Learn(c, discovery[d].learns) ELSE c)
               r == [discovery[d] EXCEPT !.at = "found", !.of = system, !.cat = cat]
    <3>2. c \in Catalog /\ discovery[d].prev \in Catalog /\ discovery[d].learns \in BOOLEAN
      BY <2>0, DiscoveredIsCatalog DEF MetaShape, DiscoveryRecord
    <3>3. cat \in Catalog
      BY <3>2, LearntIsCatalog
    <3>4. ~Sampled(metaKind) => cat = c
      BY DEF KeepRequired
    <3>5. discovery' = [discovery EXCEPT ![d] = r]
      BY <2>0, <3>1 DEF MetaShape
    <3> HIDE DEF cat
    <3>6. r \in DiscoveryRecord /\ r.at = "found" /\ r.cat = cat /\ r.of = system
      BY <2>0, <3>3 DEF MetaShape, DiscoveryRecord
    <3> HIDE DEF r
    <3>7. Seen(metaKind, r.cat, r.of)
      BY <2>0, <3>4, <3>6 DEF Seen, MetaShape
    <3> QED BY <2>2, <3>5, <3>6, <3>7, DiscoveryMoves DEF DiscoverOne
  <2>3. ASSUME NEW d \in Discoverer, DiscoverFails(d) PROVE MetaInv'
    <3>1. NoDiscovery \in DiscoveryRecord /\ NoDiscovery.at = "idle"
      BY NothingThere DEF NoDiscovery, DiscoveryRecord
    <3> QED BY <2>3, <3>1, DiscoveryMoves DEF DiscoverFails
  <2>4. ASSUME NEW d \in Discoverer, SaveReads(d) PROVE MetaInv'
    <3> DEFINE p == IF snapshots = <<>> THEN Gone ELSE Latest(snapshots)
               h == snapshots # <<>>
               r == [discovery[d] EXCEPT !.at = "locked", !.prev = p, !.had = h]
    <3>1. p \in Catalog /\ h \in BOOLEAN /\ (snapshots # <<>> => p = Latest(snapshots))
      BY <2>0, NothingThere DEF MetaShape, Latest
    <3>2. discovery' = [discovery EXCEPT ![d] = r]
      BY <2>0, <2>4 DEF SaveReads, MetaShape
    <3>3. h <=> snapshots # <<>>
      OBVIOUS
    <3> HIDE DEF p, h
    <3>4. /\ r \in DiscoveryRecord /\ r.at = "locked" /\ r.prev = p /\ r.had = h
          /\ r.cat = discovery[d].cat /\ r.of = discovery[d].of
      BY <2>0, <3>1 DEF DiscoveryRecord
    <3> HIDE DEF r
    <3>5. Seen(metaKind, r.cat, r.of)
      BY <2>4, <3>4 DEF SaveReads, MetaInv, HeldSeen
    <3>6. /\ \A e \in Discoverer : discovery[e].at # "locked"
          /\ UNCHANGED <<metaKind, system, refused, snapshots, saved>>
      BY <2>4 DEF SaveReads, CatalogFree
    <3>7. r.had <=> snapshots # <<>>
      BY <3>3, <3>4
    <3>8. snapshots # <<>> => r.prev = Latest(snapshots)
      BY <3>1, <3>4
    <3>9. r \in DiscoveryRecord
      BY <3>4
    <3> QED BY <3>2, <3>5, <3>6, <3>7, <3>8, <3>9, DiscoveryMoves
  <2>5. ASSUME NEW d \in Discoverer, SaveWrites(d) PROVE MetaInv'
    <3> DEFINE cat == discovery[d].cat
               entry == [cat |-> cat, of |-> discovery[d].of]
    <3>1. /\ discovery[d].at = "locked" /\ saved' = Append(saved, entry)
          /\ discovery' = [discovery EXCEPT ![d] = NoDiscovery]
          /\ UNCHANGED <<metaKind, system, changed, refused>>
      BY <2>5 DEF SaveWrites
    <3>2. \/ snapshots' = snapshots
          \/ snapshots' = Append(snapshots, cat) /\ ~(discovery[d].had /\ discovery[d].prev = cat)
      BY <2>5 DEF SaveWrites
    <3>3. cat \in Catalog /\ entry \in [cat: Catalog, of: System(metaKind)]
      BY <2>0 DEF DiscoveryRecord
    <3>4. NoDiscovery \in DiscoveryRecord /\ NoDiscovery.at = "idle"
      BY NothingThere DEF NoDiscovery, DiscoveryRecord
    <3>5. MetaShape'
      <4>1. snapshots' \in Seq(Catalog)
        BY <2>0, <3>2, <3>3 DEF MetaShape
      <4>2. saved' \in Seq([cat: Catalog, of: System(metaKind)])
        <5> HIDE DEF entry
        <5> QED BY <2>0, <3>1, <3>3 DEF MetaShape
      <4>3. discovery' \in [Discoverer -> DiscoveryRecord]
        BY <2>0, <3>1, <3>4 DEF MetaShape
      <4> QED BY <2>0, <3>1, <4>1, <4>2, <4>3 DEF MetaShape, DiscoveryRecord
    <3>6. \A e \in Discoverer : discovery'[e].at # "locked"
                                /\ (discovery'[e] = discovery[e] \/ discovery'[e].at = "idle")
      BY <2>0, <3>1, <3>4 DEF MetaInv, LatestHeld, MetaShape
    <3>7. LatestHeld' /\ HeldSeen'
      BY <3>1, <3>6 DEF LatestHeld, HeldSeen, MetaInv
    <3>8. StoredSeen'
      <4>1. Seen(metaKind, entry.cat, entry.of)
        BY <3>1 DEF MetaInv, HeldSeen
      <4> HIDE DEF entry
      <4>2. /\ saved \in Seq([cat: Catalog, of: System(metaKind)])
            /\ entry \in [cat: Catalog, of: System(metaKind)]
        BY <2>0, <3>3 DEF MetaShape
      <4>3. /\ Len(saved') = Len(saved) + 1 /\ Len(saved) \in Nat
            /\ saved'[Len(saved) + 1] = entry
            /\ \A i \in 1..Len(saved) : saved'[i] = saved[i]
        BY <3>1, <4>2
      <4> SUFFICES ASSUME NEW i \in 1..Len(saved') PROVE Seen(metaKind, saved'[i].cat, saved'[i].of)
        BY <3>1 DEF StoredSeen
      <4>4. i \in 1..Len(saved) \/ i = Len(saved) + 1
        BY <4>3
      <4> QED BY <4>1, <4>3, <4>4 DEF MetaInv, StoredSeen
    <3>9. SnapshotsDiffer'
      <4>1. CASE snapshots' = snapshots
        BY <4>1 DEF MetaInv, SnapshotsDiffer
      <4>2. CASE snapshots' = Append(snapshots, cat) /\ ~(discovery[d].had /\ discovery[d].prev = cat)
        <5>1. snapshots = <<>> \/ Latest(snapshots) # cat
          BY <3>1, <4>2 DEF MetaInv, LatestHeld
        <5> HIDE DEF cat
        <5>2. snapshots \in Seq(Catalog) /\ \A i \in 1..(Len(snapshots) - 1) : snapshots[i] # snapshots[i + 1]
          BY <2>0 DEF MetaShape, MetaInv, SnapshotsDiffer
        <5> QED BY <3>3, <4>2, <5>1, <5>2, AddedDiffers DEF SnapshotsDiffer
      <4> QED BY <3>2, <4>1, <4>2
    <3> QED BY <3>5, <3>7, <3>8, <3>9 DEF MetaInv
  <2>6. CASE SystemChanges \/ WriteRefused \/ RefusalForgotten
    <3>1. UNCHANGED <<metaKind, snapshots, saved, discovery>> /\ system' \in System(metaKind) /\ refused' \in BOOLEAN
      BY <2>0, <2>6 DEF SystemChanges, WriteRefused, RefusalForgotten, MetaShape
    <3> QED BY <3>1 DEF MetaInv, MetaShape, DiscoveryRecord, StoredSeen, HeldSeen, LatestHeld, SnapshotsDiffer
  <2>7. CASE UNCHANGED metaVars
    BY <2>7 DEF metaVars, MetaInv, MetaShape, DiscoveryRecord, StoredSeen, HeldSeen, LatestHeld, SnapshotsDiffer
  <2> QED BY <2>1, <2>2, <2>3, <2>4, <2>5, <2>6, <2>7 DEF MetaNext
<1> QED BY <1>1, <1>2, PTL DEF MetaSpec

\* For any number of discoveries and changes of the system: whenever a user of a
\* system whose schema it declares is served, or passes `turgon check`, at one
\* discovery and not at the next, the comparison of the two catalogs reports a
\* breaking change that names this user, and two discoveries at once never
\* store the same snapshot twice.  The connectors whose users update, or that
\* fold creatable and updatable into one mark, need fields that are both or
\* neither: a field that loses one of the two is not reported.
THEOREM SnapshotsTellBreaks ==
  ASSUME PartlyWritable \cap OneWay = {}
  PROVE  MetaSpec => []SnapshotsTell
<1>1. MetaInv => SnapshotsTell
  BY SeenTells
<1> QED BY <1>1, SnapshotsStaySeen, PTL

-----------------------------------------------------------------------------
(* Change data capture. *)

Place == Nat \X Nat
PollRecord == [wf: Workflows, pc: {"idle", "slot", "upto", "flush", "peek", "release", "drain"},
               after: Place, confirmed: Nat, upto: Nat, out: SUBSET Place]

CdcShape ==
  /\ txns \in Seq(Nat) /\ confirmed \in Nat
  /\ cursor \in [Workflows -> Place] /\ runs \in [Workflows -> SUBSET Place]
  /\ poller \in [CdcWorker -> PollRecord]

\* Every change up to a position has its run; every change of a transaction
\* before an LSN has.
Through(p) == \A c \in Changes : ~Before(p, c) => c \in runs[1]
Freed(lsn) == \A c \in Changes : Start(c[1]) < lsn => c \in runs[1]

\* Positions are of transactions in the log, LSNs are not beyond it.
InLog ==
  /\ confirmed <= FlushLSN /\ cursor[1][1] <= Len(txns)
  /\ \A w \in CdcWorker :
       /\ poller[w].after[1] <= Len(txns) /\ poller[w].upto <= FlushLSN
       /\ \A e \in poller[w].out : e[1] <= Len(txns)

\* What a worker has left of its batch, no change before it is missing from.
BatchWhole(w) ==
  \A e \in poller[w].out : \A c \in Changes :
    Before(c, e) => c \in runs[1] \/ c \in poller[w].out

WorkerSound(w) ==
  /\ Through(poller[w].after)
  /\ poller[w].pc = "release" => Freed(poller[w].upto)
  /\ BatchWhole(w)

CdcInv ==
  /\ CdcShape /\ InLog /\ Through(cursor[1]) /\ Freed(confirmed)
  /\ \A w \in CdcWorker : WorkerSound(w)

-----------------------------------------------------------------------------
\* Positions are ordered as their LSNs and indexes are.
LEMMA PositionsOrdered ==
  ASSUME NEW p \in Place, NEW q \in Place
  PROVE  /\ p[1] \in Nat /\ p[2] \in Nat /\ p = <<p[1], p[2]>>
         /\ p = q \/ Before(p, q) \/ Before(q, p)
         /\ ~Before(p, p) /\ ~(Before(p, q) /\ Before(q, p))
         /\ Before(p, q) => p[1] <= q[1]
         /\ p[1] < q[1] => Before(p, q)
         /\ \A r \in Place : Before(p, q) /\ Before(q, r) => Before(p, r)
BY DEF Place, Before

\* The changes of some transactions are their places in the log.
LEMMA ChangesAre ==
  ASSUME txns \in Seq(Nat), NEW s \in SUBSET (DOMAIN txns)
  PROVE  /\ ChangesOf(s) \subseteq Place
         /\ \A c \in ChangesOf(s) : c[1] \in s /\ c[2] \in 1..txns[c[1]]
         /\ \A c \in Place : c[1] \in s /\ c[2] \in 1..txns[c[1]] => c \in ChangesOf(s)
<1>1. \A i \in s : i \in Nat /\ txns[i] \in Nat
  OBVIOUS
<1>2. ASSUME NEW c \in ChangesOf(s)
      PROVE  c \in Place /\ c[1] \in s /\ c[2] \in 1..txns[c[1]]
  <2>1. PICK i \in s : \E k \in 1..txns[i] : c = <<i, k>>
    BY <1>2 DEF ChangesOf, TableChange
  <2>2. PICK k \in 1..txns[i] : c = <<i, k>>
    BY <2>1
  <2> QED BY <1>1, <2>2 DEF Place
<1>3. ASSUME NEW c \in Place, c[1] \in s, c[2] \in 1..txns[c[1]]
      PROVE  c \in ChangesOf(s)
  <2>1. c = <<c[1], c[2]>>
    BY <1>3 DEF Place
  <2> QED BY <1>3, <2>1 DEF ChangesOf, TableChange
<1> QED BY <1>2, <1>3

\* A smallest number of a set.
LEMMA LeastOf ==
  ASSUME NEW S \in SUBSET Nat, S # {}
  PROVE  \E n \in S : \A m \in S : n <= m
<1>1. PICK n \in S : \A m \in S : ~(<<m, n>> \in OpToRel(<, Nat))
  BY WFMin, NatLessThanWellFounded
<1>2. \A m \in S : ~(m < n)
  BY <1>1 DEF OpToRel
<1> QED BY <1>2

\* The rows that decoding some transactions returns: fewer transactions have
\* no more.
LEMMA RowsCounted ==
  ASSUME txns \in Seq(Nat), NEW s \in SUBSET (DOMAIN txns), NEW t \in SUBSET s
  PROVE  RowsOf(s) \in Nat /\ RowsOf(t) \in Nat /\ RowsOf(t) <= RowsOf(s)
<1> DEFINE Rows(u) == UNION {{i} \X (0..(txns[i] + 1)) : i \in u}
<1>1. ASSUME NEW i \in DOMAIN txns PROVE IsFiniteSet({i} \X (0..(txns[i] + 1)))
  <2>1. IsFiniteSet({i})
    BY FS_Singleton
  <2>2. IsFiniteSet(0..(txns[i] + 1))
    <3>1. txns[i] + 1 \in Int /\ 0 \in Int
      OBVIOUS
    <3> QED BY <3>1, FS_Interval
  <2> QED BY <2>1, <2>2, FS_Product
<1>2. IsFiniteSet(DOMAIN txns)
  <2>1. DOMAIN txns = 1..Len(txns) /\ Len(txns) \in Int /\ 1 \in Int
    OBVIOUS
  <2> QED BY <2>1, FS_Interval
<1>3. IsFiniteSet(s)
  BY <1>2, FS_Subset
<1>4. IsFiniteSet({{i} \X (0..(txns[i] + 1)) : i \in s})
  <2> DEFINE f == [i \in s |-> {i} \X (0..(txns[i] + 1))]
  <2>1. f \in Surjection(s, {{i} \X (0..(txns[i] + 1)) : i \in s})
    BY DEF Surjection
  <2> QED BY <1>3, <2>1, FS_Surjection
<1>5. IsFiniteSet(Rows(s))
  BY <1>1, <1>4, FS_UNION
<1>6. Rows(t) \subseteq Rows(s)
  OBVIOUS
<1>7. RowsOf(s) = Cardinality(Rows(s)) /\ RowsOf(t) = Cardinality(Rows(t))
  BY DEF RowsOf
<1> HIDE DEF Rows
<1>8. IsFiniteSet(Rows(t)) /\ Cardinality(Rows(t)) <= Cardinality(Rows(s))
  BY <1>5, <1>6, FS_Subset
<1>9. Cardinality(Rows(s)) \in Nat /\ Cardinality(Rows(t)) \in Nat
  BY <1>5, <1>8, FS_CardinalityType
<1> QED BY <1>7, <1>8, <1>9

\* The changes of some transactions are finitely many.
LEMMA ChangesFinite ==
  ASSUME txns \in Seq(Nat), NEW s \in SUBSET (DOMAIN txns), NEW T \in SUBSET ChangesOf(s)
  PROVE  IsFiniteSet(T) /\ Cardinality(T) \in Nat
<1> DEFINE Of(i) == {TableChange(i, k) : k \in 1..txns[i]}
<1>1. ASSUME NEW i \in DOMAIN txns PROVE IsFiniteSet(Of(i))
  <2>1. IsFiniteSet({i})
    BY FS_Singleton
  <2>2. IsFiniteSet(1..txns[i])
    <3>1. txns[i] \in Int /\ 1 \in Int
      OBVIOUS
    <3> QED BY <3>1, FS_Interval
  <2>3. IsFiniteSet({i} \X (1..txns[i]))
    BY <2>1, <2>2, FS_Product
  <2>4. Of(i) \subseteq {i} \X (1..txns[i])
    BY DEF TableChange
  <2> QED BY <2>3, <2>4, FS_Subset
<1>2. IsFiniteSet(DOMAIN txns)
  <2>1. DOMAIN txns = 1..Len(txns) /\ Len(txns) \in Int /\ 1 \in Int
    OBVIOUS
  <2> QED BY <2>1, FS_Interval
<1>3. IsFiniteSet(s)
  BY <1>2, FS_Subset
<1>4. IsFiniteSet({Of(i) : i \in s})
  <2> DEFINE f == [i \in s |-> Of(i)]
  <2>1. f \in Surjection(s, {Of(i) : i \in s})
    BY DEF Surjection
  <2> QED BY <1>3, <2>1, FS_Surjection
<1>5. IsFiniteSet(ChangesOf(s))
  <2>1. ChangesOf(s) = UNION {Of(i) : i \in s}
    BY DEF ChangesOf
  <2>2. \A T1 \in {Of(i) : i \in s} : IsFiniteSet(T1)
    BY <1>1
  <2> HIDE DEF Of
  <2>3. IsFiniteSet(UNION {Of(i) : i \in s})
    BY <1>4, <2>2, FS_UNION
  <2> QED BY <2>1, <2>3
<1> QED BY <1>5, FS_Subset, FS_CardinalityType

-----------------------------------------------------------------------------
\* What a peek returns: of the transactions from the confirmed position up to
\* upto none before one that is returned is left out, and all are returned if
\* there are fewer rows than were asked for.
LEMMA PeekedWhole ==
  ASSUME txns \in Seq(Nat), confirmed \in Nat, NEW upto \in Nat
  PROVE  /\ Peeked(upto) \subseteq Decodable(upto) /\ Decodable(upto) \subseteq DOMAIN txns
         /\ \A i \in Peeked(upto), j \in Decodable(upto) : j < i => j \in Peeked(upto)
         /\ RowsOf(Peeked(upto)) < CdcBudget => Peeked(upto) = Decodable(upto)
<1> DEFINE D == Decodable(upto)
           Lower(i) == {j \in D : j < i}
<1>0. CdcBudget \in Nat
  BY CdcAssumption
<1>1. D \subseteq DOMAIN txns /\ DOMAIN txns \subseteq Nat
  BY DEF Decodable
<1>2. Peeked(upto) = {i \in D : RowsOf(Lower(i)) < CdcBudget}
  BY DEF Peeked
<1> HIDE DEF D
<1>l. \A i : Lower(i) \subseteq D /\ \A j \in D : j \in Lower(i) <=> j < i
  OBVIOUS
<1> HIDE DEF Lower
<1>3. ASSUME NEW i \in Peeked(upto), NEW j \in D, j < i PROVE j \in Peeked(upto)
  <2>1. i \in Nat /\ j \in Nat /\ i \in D
    BY <1>1, <1>2, <1>3
  <2>a. ASSUME NEW k \in Lower(j) PROVE k \in Lower(i)
    <3>1. k \in D /\ k < j /\ k \in Nat
      BY <1>1, <1>l, <2>a
    <3>2. k < i
      BY <1>3, <2>1, <3>1
    <3> QED BY <1>l, <3>1, <3>2
  <2>2. Lower(j) \subseteq Lower(i) /\ Lower(i) \subseteq DOMAIN txns
    BY <1>1, <1>l, <2>a
  <2>3. RowsOf(Lower(j)) \in Nat /\ RowsOf(Lower(i)) \in Nat /\ RowsOf(Lower(j)) <= RowsOf(Lower(i))
    BY <2>2, RowsCounted
  <2>4. RowsOf(Lower(i)) < CdcBudget
    BY <1>2, <1>3
  <2>5. RowsOf(Lower(j)) < CdcBudget
    BY <1>0, <2>3, <2>4
  <2> QED BY <1>2, <1>3, <2>5
<1>4. ASSUME RowsOf(Peeked(upto)) < CdcBudget, Peeked(upto) # D PROVE FALSE
  <2>1. D \ Peeked(upto) # {} /\ D \ Peeked(upto) \subseteq Nat
    BY <1>1, <1>2, <1>4
  <2>2. PICK i \in D \ Peeked(upto) : \A j \in D \ Peeked(upto) : i <= j
    BY <2>1, LeastOf
  <2>3. Lower(i) \subseteq Peeked(upto) /\ Peeked(upto) \subseteq DOMAIN txns
    BY <1>1, <1>2, <1>l, <2>1, <2>2
  <2>4. /\ RowsOf(Lower(i)) \in Nat /\ RowsOf(Peeked(upto)) \in Nat
        /\ RowsOf(Lower(i)) <= RowsOf(Peeked(upto))
    BY <2>3, RowsCounted
  <2>5. ~(RowsOf(Lower(i)) < CdcBudget)
    BY <1>2, <2>2
  <2> QED BY <1>0, <1>4, <2>4, <2>5
<1> QED BY <1>1, <1>2, <1>3, <1>4 DEF D

\* What a poll takes of the changes: only ones past the cursor, none before
\* one it takes is left out, and none only if there is none.
LEMMA WantedFirst ==
  ASSUME txns \in Seq(Nat), NEW s \in SUBSET (DOMAIN txns), NEW from \in Place
  PROVE  /\ Wanted(from, s) \subseteq ChangesOf(s)
         /\ \A e \in Wanted(from, s), c \in ChangesOf(s) :
              Before(c, e) /\ Before(from, c) => c \in Wanted(from, s)
         /\ Wanted(from, s) = {} => \A c \in ChangesOf(s) : ~Before(from, c)
<1> DEFINE new == {c \in ChangesOf(s) : Before(from, c)}
           Lower(c) == {d \in new : Before(d, c)}
<1>1. Wanted(from, s) = {c \in new : Cardinality(Lower(c)) < CdcLimit}
  BY DEF Wanted
<1>2. new \subseteq ChangesOf(s) /\ ChangesOf(s) \subseteq Place /\ new \subseteq Place
  BY ChangesAre
<1>0. CdcLimit \in Nat /\ CdcLimit > 0
  BY CdcAssumption
<1>3. \A T \in SUBSET new : IsFiniteSet(T) /\ Cardinality(T) \in Nat
  BY <1>2, ChangesFinite
<1>m. \A c \in ChangesOf(s) : c \in new <=> Before(from, c)
  OBVIOUS
<1> HIDE DEF new
<1>4. ASSUME NEW e \in Wanted(from, s), NEW c \in new, Before(c, e)
      PROVE  c \in Wanted(from, s)
  <2>1. e \in new /\ e \in Place /\ c \in Place
    BY <1>1, <1>2, <1>4
  <2>2. Lower(c) \subseteq Lower(e) /\ Lower(e) \subseteq new
    BY <1>2, <1>4, <2>1, PositionsOrdered
  <2>3. Cardinality(Lower(c)) <= Cardinality(Lower(e))
    BY <1>3, <2>2, FS_Subset
  <2>4. Cardinality(Lower(c)) \in Nat /\ Cardinality(Lower(e)) \in Nat
    BY <1>3, <2>2
  <2>5. Cardinality(Lower(e)) < CdcLimit
    BY <1>1
  <2>6. Cardinality(Lower(c)) < CdcLimit
    BY <1>0, <2>3, <2>4, <2>5
  <2> QED BY <1>1, <1>4, <2>6
<1>5. ASSUME new # {} PROVE Wanted(from, s) # {}
  <2> DEFINE N == {Cardinality(Lower(c)) : c \in new}
  <2>1. N \in SUBSET Nat /\ N # {}
    BY <1>3, <1>5
  <2>2. PICK n \in N : \A m \in N : n <= m
    BY <2>1, LeastOf
  <2>3. PICK c \in new : n = Cardinality(Lower(c))
    BY <2>2
  <2>4. ASSUME NEW d \in Lower(c) PROVE FALSE
    <3>1. d \in new /\ Before(d, c) /\ d \in Place /\ c \in Place
      BY <1>2, <2>4
    <3>2. Lower(d) \subseteq Lower(c) /\ d \notin Lower(d)
      BY <1>2, <3>1, PositionsOrdered
    <3>3. IsFiniteSet(Lower(c)) /\ IsFiniteSet(Lower(d))
      BY <1>3
    <3>4. Cardinality(Lower(d)) <= Cardinality(Lower(c)) /\ Cardinality(Lower(d)) # Cardinality(Lower(c))
      BY <2>4, <3>2, <3>3, FS_Subset
    <3>5. Cardinality(Lower(c)) <= Cardinality(Lower(d))
      BY <2>2, <2>3, <3>1
    <3>6. Cardinality(Lower(c)) \in Nat /\ Cardinality(Lower(d)) \in Nat
      BY <1>3
    <3> QED BY <3>4, <3>5, <3>6
  <2>5. Lower(c) = {}
    BY <2>4
  <2>6. Cardinality(Lower(c)) = 0
    BY <2>5, FS_EmptySet
  <2> QED BY <1>0, <1>1, <2>3, <2>6
<1> QED BY <1>1, <1>2, <1>4, <1>5, <1>m

-----------------------------------------------------------------------------
\* A step of one worker: the others are as sound as before, since runs are
\* only added.
LEMMA CdcGoesOn ==
  ASSUME CdcInv, CdcShape', UNCHANGED txns, runs[1] \subseteq runs'[1],
         NEW w \in CdcWorker, \A v \in CdcWorker : v # w => poller'[v] = poller[v],
         poller'[w].after[1] <= Len(txns), poller'[w].upto <= FlushLSN,
         \A e \in poller'[w].out : e[1] <= Len(txns), WorkerSound(w)',
         confirmed' <= FlushLSN, Freed(confirmed)',
         cursor'[1][1] <= Len(txns), Through(cursor[1])'
  PROVE  CdcInv'
<1>1. Changes' = Changes /\ FlushLSN' = FlushLSN
  BY DEF Changes, ChangesOf, FlushLSN
<1>2. ASSUME NEW v \in CdcWorker PROVE WorkerSound(v)'
  <2>1. CASE v = w
    BY <2>1
  <2>2. CASE v # w
    <3>1. poller'[v] = poller[v] /\ WorkerSound(v)
      BY <2>2 DEF CdcInv
    <3>2. Through(poller[v].after)'
      BY <1>1, <3>1 DEF WorkerSound, Through
    <3>3. poller'[v].pc = "release" => Freed(poller[v].upto)'
      BY <1>1, <3>1 DEF WorkerSound, Freed
    <3>4. BatchWhole(v)'
      BY <1>1, <3>1 DEF WorkerSound, BatchWhole
    <3> QED BY <3>2, <3>3, <3>4 DEF WorkerSound
  <2> QED BY <2>1, <2>2
<1>3. InLog'
  BY <1>1 DEF CdcInv, InLog
<1> QED BY <1>2, <1>3 DEF CdcInv

\* What is through and freed stays so.
LEMMA CdcKept ==
  ASSUME CdcInv, UNCHANGED txns, runs[1] \subseteq runs'[1]
  PROVE  /\ UNCHANGED cursor => cursor'[1][1] <= Len(txns) /\ Through(cursor[1])'
         /\ UNCHANGED confirmed => confirmed' <= FlushLSN /\ Freed(confirmed)'
BY DEF CdcInv, InLog, Through, Freed, Changes, ChangesOf

\* A worker at the start of a poll.
LEMMA IdlePoll ==
  ASSUME CdcShape, NEW wf \in Workflows
  PROVE  /\ Poll(wf) \in PollRecord /\ Poll(wf).pc = "idle" /\ Poll(wf).out = {}
         /\ Poll(wf).after = NoPosition /\ Poll(wf).upto = 0 /\ NoPosition[1] = 0
         /\ Through(NoPosition)
<1>1. NoPosition \in Place /\ NoPosition[1] = 0
  BY DEF NoPosition, Place, TableChange
<1>2. \A c \in Changes : c \in Place /\ c[1] \in DOMAIN txns
  BY ChangesAre DEF CdcShape, Changes
<1>3. \A c \in Changes : NoPosition[1] < c[1]
  BY <1>1, <1>2 DEF CdcShape
<1>4. \A c \in Changes : Before(NoPosition, c)
  BY <1>1, <1>2, <1>3, PositionsOrdered
<1> QED BY <1>1, <1>4 DEF Poll, PollRecord, Through

\* A worker goes back to idle.
LEMMA CdcRestarts ==
  ASSUME CdcInv, CdcShape', UNCHANGED <<txns, confirmed, cursor>>, runs[1] \subseteq runs'[1],
         NEW w \in CdcWorker, NEW wf \in Workflows, Goes(w, Poll(wf))
  PROVE  CdcInv'
<1>0. CdcShape /\ poller \in [CdcWorker -> PollRecord] /\ Len(txns) \in Nat
  BY DEF CdcInv, CdcShape
<1>1. poller'[w] = Poll(wf) /\ \A v \in CdcWorker : v # w => poller'[v] = poller[v]
  BY <1>0 DEF Goes
<1>2. /\ Poll(wf).pc = "idle" /\ Poll(wf).out = {} /\ Poll(wf).after = NoPosition
      /\ Poll(wf).upto = 0 /\ NoPosition[1] = 0 /\ Through(NoPosition)
  BY <1>0, IdlePoll
<1>3. Through(poller[w].after)'
  BY <1>1, <1>2 DEF Through, Changes, ChangesOf
<1>4. WorkerSound(w)'
  BY <1>1, <1>2, <1>3 DEF WorkerSound, BatchWhole
<1>5. poller'[w].after[1] <= Len(txns) /\ poller'[w].upto <= FlushLSN
  BY <1>0, <1>1, <1>2 DEF FlushLSN
<1>6. \A e \in poller'[w].out : e[1] <= Len(txns)
  BY <1>1, <1>2
<1> QED BY <1>1, <1>4, <1>5, <1>6, CdcGoesOn, CdcKept

\* Released goes only through what the cursor has passed.
LEMMA ReleasedIsFree ==
  ASSUME CdcShape, NEW p \in Place, Through(p)
  PROVE  Freed(Released(p))
<1>1. \A c \in Changes : c \in Place
  BY ChangesAre DEF CdcShape, Changes
<1>2. ASSUME NEW c \in Changes, Start(c[1]) < Released(p) PROVE c \in runs[1]
  <2>1. c \in Place /\ c[1] \in Nat /\ p[1] \in Nat
    BY <1>1, PositionsOrdered
  <2>2. c[1] < p[1]
    BY <1>2, <2>1 DEF Start, Released, commitOf
  <2>3. ~Before(p, c)
    BY <2>1, <2>2, PositionsOrdered
  <2> QED BY <2>3 DEF Through
<1> QED BY <1>2 DEF Freed

\* What a poll finds is whole, and if it finds nothing up to upto, nothing
\* is left there.
LEMMA PeekSound ==
  ASSUME CdcShape, Freed(confirmed), NEW from \in Place, Through(from), NEW upto \in Nat
  PROVE  /\ Wanted(from, Peeked(upto)) \subseteq Changes
         /\ \A e \in Wanted(from, Peeked(upto)), c \in Changes :
              Before(c, e) => c \in runs[1] \/ c \in Wanted(from, Peeked(upto))
         /\ Wanted(from, Peeked(upto)) = {} /\ RowsOf(Peeked(upto)) < CdcBudget => Freed(upto)
<1> DEFINE seen == Peeked(upto)
           out == Wanted(from, seen)
<1>0. txns \in Seq(Nat) /\ confirmed \in Nat
  BY DEF CdcShape
<1>1. /\ seen \subseteq Decodable(upto) /\ Decodable(upto) \subseteq DOMAIN txns
      /\ \A i \in seen, j \in Decodable(upto) : j < i => j \in seen
      /\ RowsOf(seen) < CdcBudget => seen = Decodable(upto)
  BY <1>0, PeekedWhole
<1> HIDE DEF seen
<1>2. /\ out \subseteq ChangesOf(seen)
      /\ \A e \in out, c \in ChangesOf(seen) : Before(c, e) /\ Before(from, c) => c \in out
      /\ out = {} => \A c \in ChangesOf(seen) : ~Before(from, c)
  BY <1>0, <1>1, WantedFirst
<1> HIDE DEF out
<1>3. /\ \A c \in Changes : c \in Place /\ c[1] \in DOMAIN txns /\ c[2] \in 1..txns[c[1]]
      /\ \A c \in ChangesOf(seen) : c \in Place /\ c[1] \in seen /\ c[2] \in 1..txns[c[1]]
      /\ \A c \in Changes : c[1] \in seen => c \in ChangesOf(seen)
      /\ ChangesOf(seen) \subseteq Changes
  <2>1. seen \in SUBSET (DOMAIN txns) /\ DOMAIN txns \in SUBSET (DOMAIN txns)
    BY <1>1
  <2> QED BY <1>0, <2>1, ChangesAre DEF Changes
<1>4. ASSUME NEW c \in Changes, c \notin runs[1], Start(c[1]) < upto
      PROVE  c[1] \in Decodable(upto) /\ Before(from, c)
  <2>1. c[1] \in Nat /\ txns[c[1]] \in Nat /\ txns[c[1]] > 0
    BY <1>0, <1>3
  <2>2. ~(Start(c[1]) < confirmed)
    BY <1>4 DEF Freed
  <2>3. Start(c[1]) >= confirmed
    BY <1>0, <2>1, <2>2 DEF Start
  <2> QED BY <1>3, <1>4, <2>1, <2>3 DEF Decodable, Through
<1>5. ASSUME NEW e \in out, NEW c \in Changes, Before(c, e), c \notin runs[1]
      PROVE  c \in out
  <2>1. e \in Place /\ c \in Place /\ e[1] \in seen /\ e[1] \in Decodable(upto)
    BY <1>1, <1>2, <1>3
  <2>2. c[1] \in Nat /\ e[1] \in Nat /\ c[1] <= e[1]
    BY <1>5, <2>1, PositionsOrdered
  <2>3. Start(e[1]) < upto
    BY <2>1 DEF Decodable
  <2>4. Start(c[1]) < upto
    BY <2>2, <2>3 DEF Start
  <2>5. c[1] \in Decodable(upto) /\ Before(from, c)
    BY <1>4, <1>5, <2>4
  <2>6. c[1] \in seen
    BY <1>1, <2>1, <2>2, <2>5
  <2> QED BY <1>2, <1>3, <1>5, <2>5, <2>6
<1>6. ASSUME out = {}, RowsOf(seen) < CdcBudget, NEW c \in Changes, Start(c[1]) < upto
      PROVE  c \in runs[1]
  <2> SUFFICES ASSUME c \notin runs[1] PROVE FALSE
    OBVIOUS
  <2>1. c[1] \in seen /\ Before(from, c)
    BY <1>1, <1>4, <1>6
  <2> QED BY <1>2, <1>3, <1>6, <2>1
<1>7. out \subseteq Changes
  BY <1>2, <1>3
<1> QED BY <1>5, <1>6, <1>7 DEF Freed, out, seen

\* The variables keep their shape.
LEMMA CdcShapeKept ==
  ASSUME CdcShape, CdcNext
  PROVE  CdcShape'
<1> USE CdcAssumption
<1>0. /\ txns \in Seq(Nat) /\ confirmed \in Nat /\ FlushLSN \in Nat
      /\ cursor \in [Workflows -> Place] /\ runs \in [Workflows -> SUBSET Place]
      /\ poller \in [CdcWorker -> PollRecord]
  BY DEF CdcShape, FlushLSN
<1>a. ASSUME NEW n \in 0..MaxRows, Transaction(n) PROVE CdcShape'
  <2>1. txns' \in Seq(Nat)
    BY <1>0, <1>a DEF Transaction
  <2> QED BY <1>0, <1>a, <2>1 DEF Transaction, CdcShape
<1>b. ASSUME NEW w \in CdcWorker, CdcStep(w) PROVE CdcShape'
  <2>1. /\ poller[w] \in PollRecord /\ poller[w].wf \in Workflows /\ poller[w].after \in Place
        /\ poller[w].after[1] \in Nat /\ poller[w].upto \in Nat /\ poller[w].out \subseteq Place
    <3>1. poller[w] \in PollRecord
      BY <1>0
    <3>2. poller[w].wf \in Workflows /\ poller[w].after \in Place /\ poller[w].upto \in Nat
          /\ poller[w].out \subseteq Place
      BY <3>1 DEF PollRecord
    <3> QED BY <3>1, <3>2, PositionsOrdered
  <2>2. \A p \in PollRecord : Goes(w, p) => poller' \in [CdcWorker -> PollRecord]
    BY <1>0 DEF Goes
  <2>3. /\ 1 \in Workflows /\ (poller[w].wf % CdcWorkflows) + 1 \in Workflows
        /\ \A f \in Workflows : Poll(f) \in PollRecord
    BY <2>1, IdlePoll DEF Workflows
  <2>4. CASE ReadCursor(w)
    <3>1. [poller[w] EXCEPT !.pc = "slot", !.after = cursor[poller[w].wf]] \in PollRecord
      BY <1>0, <2>1 DEF PollRecord
    <3> QED BY <1>0, <2>2, <2>4, <3>1 DEF ReadCursor, CdcShape
  <2>5. CASE ReadSlot(w)
    <3>1. [poller[w] EXCEPT !.pc = "upto", !.confirmed = confirmed] \in PollRecord
      BY <1>0, <2>1 DEF PollRecord
    <3> QED BY <1>0, <2>2, <2>5, <3>1 DEF ReadSlot, CdcShape
  <2>6. CASE Advance(w)
    <3>1. [poller[w] EXCEPT !.pc = "flush"] \in PollRecord
      BY <2>1 DEF PollRecord
    <3>2. confirmed' \in Nat
      BY <1>0, <2>1, <2>6 DEF Advance, AdvanceTo, Released, commitOf, Start
    <3> QED BY <1>0, <2>2, <2>6, <3>1, <3>2 DEF Advance, CdcShape
  <2>7. CASE ReadFlush(w)
    <3>1. [poller[w] EXCEPT !.pc = "peek", !.upto = FlushLSN] \in PollRecord
      BY <1>0, <2>1 DEF PollRecord
    <3> QED BY <1>0, <2>2, <2>7, <3>1 DEF ReadFlush, CdcShape
  <2>8. CASE Peek(w)
    <3> DEFINE out == Wanted(poller[w].after, Peeked(poller[w].upto))
    <3>1. out \subseteq Place
      <4>1. Peeked(poller[w].upto) \subseteq DOMAIN txns
        BY DEF Peeked, Decodable
      <4>2. out \subseteq ChangesOf(Peeked(poller[w].upto))
        BY <1>0, <2>1, <4>1, WantedFirst
      <4>3. ChangesOf(Peeked(poller[w].upto)) \subseteq Place
        BY <1>0, <4>1, ChangesAre
      <4> QED BY <4>2, <4>3
    <3>2. PICK x \in {"release", "drain"} : Goes(w, [poller[w] EXCEPT !.out = out, !.pc = x])
      BY <2>8 DEF Peek
    <3> HIDE DEF out
    <3>3. [poller[w] EXCEPT !.out = out, !.pc = x] \in PollRecord
      BY <2>1, <3>1, <3>2 DEF PollRecord
    <3> QED BY <1>0, <2>2, <2>8, <3>2, <3>3 DEF Peek, CdcShape
  <2>9. CASE QuietRelease(w)
    <3>1. [poller[w] EXCEPT !.pc = "drain"] \in PollRecord
      BY <2>1 DEF PollRecord
    <3>2. confirmed' \in Nat
      BY <1>0, <2>1, <2>9 DEF QuietRelease, AdvanceTo
    <3> QED BY <1>0, <2>2, <2>9, <3>1, <3>2 DEF QuietRelease, CdcShape
  <2>10. CASE NextWorkflow(w) \/ PollFails(w) \/ WorkerStops(w)
    BY <1>0, <2>2, <2>3, <2>10 DEF NextWorkflow, PollFails, WorkerStops, CdcShape
  <2>11. ASSUME NEW c \in poller[w].out, StartRun(w, c) \/ SetCursorFails(w, c) PROVE CdcShape'
    <3>1. c \in Place
      BY <2>1
    <3>2. runs' \in [Workflows -> SUBSET Place]
      BY <1>0, <2>1, <2>11, <3>1 DEF StartRun, SetCursorFails, Started
    <3>3. cursor' \in [Workflows -> Place]
      BY <1>0, <2>1, <2>11, <3>1 DEF StartRun, SetCursorFails
    <3>4. [poller[w] EXCEPT !.out = @ \ {c}] \in PollRecord
      BY <2>1 DEF PollRecord
    <3>5. poller' \in [CdcWorker -> PollRecord]
      BY <2>2, <2>3, <2>11, <3>4 DEF StartRun, SetCursorFails
    <3> QED BY <1>0, <2>11, <3>2, <3>3, <3>5 DEF StartRun, SetCursorFails, CdcShape
  <2> QED BY <1>b, <2>4, <2>5, <2>6, <2>7, <2>8, <2>9, <2>10, <2>11 DEF CdcStep
<1> QED BY <1>a, <1>b DEF CdcNext

\* A transaction: its changes are after every position, and its commit record
\* after every LSN that was read.
LEMMA CdcTransaction ==
  ASSUME CdcInv, CdcShape', NEW n \in 0..MaxRows, Transaction(n)
  PROVE  CdcInv'
<1>0. /\ txns \in Seq(Nat) /\ n \in Nat /\ txns' = Append(txns, n)
      /\ UNCHANGED <<confirmed, cursor, runs, poller>>
      /\ confirmed \in Nat /\ cursor[1] \in Place
      /\ \A w \in CdcWorker : poller[w] \in PollRecord
  <2>1. n \in Nat
    BY CdcAssumption
  <2>2. 1 \in Workflows
    BY CdcAssumption DEF Workflows
  <2>3. /\ txns \in Seq(Nat) /\ confirmed \in Nat /\ cursor \in [Workflows -> Place]
        /\ poller \in [CdcWorker -> PollRecord]
    BY DEF CdcInv, CdcShape
  <2>4. txns' = Append(txns, n) /\ UNCHANGED <<confirmed, cursor, runs, poller>>
    BY DEF Transaction
  <2> QED BY <2>1, <2>2, <2>3, <2>4
<1>a. \A w \in CdcWorker : /\ poller[w].after \in Place /\ poller[w].out \subseteq Place
                           /\ poller[w].upto \in Nat
  BY <1>0 DEF PollRecord
<1>1. /\ Len(txns) \in Nat /\ Len(txns') = Len(txns) + 1 /\ DOMAIN txns = 1..Len(txns)
      /\ DOMAIN txns' = 1..(Len(txns) + 1)
      /\ \A i \in DOMAIN txns : txns'[i] = txns[i]
  BY <1>0
<1>2. FlushLSN \in Nat /\ FlushLSN = 2 * Len(txns) + 1 /\ FlushLSN' = FlushLSN + 2
  BY <1>1 DEF FlushLSN
<1>3. /\ \A c \in Changes : c \in Place /\ c[1] \in 1..Len(txns)
      /\ \A c \in Changes' : c \in Place /\ c[1] \in Nat /\ (c \in Changes \/ c[1] = Len(txns) + 1)
  <2>1. /\ \A c \in Changes : c \in Place /\ c[1] \in DOMAIN txns
        /\ \A c \in Place : c[1] \in DOMAIN txns /\ c[2] \in 1..txns[c[1]] => c \in Changes
    BY <1>0, ChangesAre DEF Changes
  <2>2. ASSUME NEW c \in Changes'
        PROVE  c \in Place /\ c[1] \in DOMAIN txns' /\ c[2] \in 1..txns'[c[1]]
    <3>1. PICK i \in DOMAIN txns' : \E k \in 1..txns'[i] : c = <<i, k>>
      BY DEF Changes, ChangesOf, TableChange
    <3>2. txns'[i] \in Nat /\ i \in Nat
      BY <1>0, <1>1
    <3> QED BY <3>1, <3>2 DEF Place
  <2>3. ASSUME NEW c \in Changes', c[1] # Len(txns) + 1 PROVE c \in Changes
    BY <1>1, <2>1, <2>2, <2>3
  <2> QED BY <1>1, <2>1, <2>2, <2>3
<1>4. ASSUME NEW p \in Place, p[1] <= Len(txns), Through(p)
      PROVE  \A c \in Changes' : ~Before(p, c) => c \in runs[1]
  <2> SUFFICES ASSUME NEW c \in Changes', ~Before(p, c) PROVE c \in runs[1]
    OBVIOUS
  <2>1. p[1] \in Nat /\ c \in Place /\ c[1] \in Nat
    BY <1>3, PositionsOrdered
  <2>2. c[1] # Len(txns) + 1
    BY <1>1, <1>4, <2>1, PositionsOrdered
  <2> QED BY <1>3, <1>4, <2>2 DEF Through
<1>5. ASSUME NEW l \in Nat, l <= FlushLSN, Freed(l)
      PROVE  \A c \in Changes' : Start(c[1]) < l => c \in runs[1]
  <2> SUFFICES ASSUME NEW c \in Changes', Start(c[1]) < l PROVE c \in runs[1]
    OBVIOUS
  <2>1. c[1] # Len(txns) + 1
    BY <1>1, <1>2, <1>3, <1>5 DEF Start
  <2> QED BY <1>3, <1>5, <2>1 DEF Freed
<1>6. InLog
  BY DEF CdcInv
<1>7. InLog'
  <2>1. \A m \in Nat : m <= Len(txns) => m <= Len(txns')
    BY <1>1
  <2>2. \A m \in Nat : m <= FlushLSN => m <= FlushLSN'
    BY <1>2
  <2>3. \A p \in Place : p[1] \in Nat
    BY DEF Place
  <2>4. confirmed' <= FlushLSN' /\ cursor'[1][1] <= Len(txns')
    BY <1>0, <1>6, <2>1, <2>2, <2>3 DEF InLog
  <2>5. ASSUME NEW w \in CdcWorker
        PROVE  /\ poller'[w].after[1] <= Len(txns') /\ poller'[w].upto <= FlushLSN'
               /\ \A e \in poller'[w].out : e[1] <= Len(txns')
    BY <1>0, <1>6, <1>a, <2>1, <2>2, <2>3 DEF InLog
  <2> QED BY <2>4, <2>5 DEF InLog
<1>8. Through(cursor[1])' /\ Freed(confirmed)'
  BY <1>0, <1>4, <1>5, <1>6 DEF CdcInv, InLog, Through, Freed
<1>9. ASSUME NEW w \in CdcWorker PROVE WorkerSound(w)'
  <2>0. WorkerSound(w)
    BY DEF CdcInv
  <2>1. Through(poller[w].after)'
    BY <1>0, <1>a, <1>4, <1>6, <2>0 DEF InLog, WorkerSound, Through
  <2>2. poller'[w].pc = "release" => Freed(poller[w].upto)'
    BY <1>0, <1>a, <1>5, <1>6, <2>0 DEF InLog, WorkerSound, Freed
  <2>3. BatchWhole(w)'
    <3> SUFFICES ASSUME NEW e \in poller[w].out, NEW c \in Changes', Before(c, e)
                 PROVE  c \in runs[1] \/ c \in poller[w].out
      BY <1>0 DEF BatchWhole
    <3>1. e \in Place /\ c \in Place /\ e[1] \in Nat /\ c[1] \in Nat /\ c[1] <= e[1]
      BY <1>a, <1>3, PositionsOrdered
    <3>2. e[1] <= Len(txns)
      BY <1>6 DEF InLog
    <3>3. c \in Changes
      BY <1>1, <1>3, <3>1, <3>2
    <3> QED BY <2>0, <3>3 DEF WorkerSound, BatchWhole
  <2> QED BY <2>1, <2>2, <2>3 DEF WorkerSound
<1> QED BY <1>7, <1>8, <1>9 DEF CdcInv

\* Every step of a worker that reads the slot keeps the invariant.
LEMMA CdcWorkerSteps ==
  ASSUME CdcWorkflows = 1, CdcInv, CdcShape', NEW w \in CdcWorker, CdcStep(w)
  PROVE  CdcInv'
<1>0. /\ CdcShape /\ txns \in Seq(Nat) /\ Len(txns) \in Nat /\ confirmed \in Nat
      /\ FlushLSN \in Nat /\ FlushLSN = 2 * Len(txns) + 1
      /\ cursor \in [Workflows -> Place] /\ runs \in [Workflows -> SUBSET Place]
      /\ poller \in [CdcWorker -> PollRecord]
      /\ InLog /\ Through(cursor[1]) /\ Freed(confirmed) /\ WorkerSound(w)
  BY DEF CdcInv, CdcShape, FlushLSN
<1>a. Workflows = {1}
  BY DEF Workflows
<1>b. /\ poller[w] \in PollRecord /\ poller[w].wf = 1 /\ poller[w].after \in Place
      /\ poller[w].upto \in Nat /\ poller[w].out \subseteq Place
  <2>1. poller[w] \in PollRecord
    BY <1>0
  <2> QED BY <1>a, <2>1 DEF PollRecord
<1>c. /\ poller[w].after[1] <= Len(txns) /\ poller[w].upto <= FlushLSN
      /\ \A e \in poller[w].out : e[1] <= Len(txns)
  BY <1>0 DEF InLog
<1>d. (poller[w].wf % CdcWorkflows) + 1 \in Workflows
  BY <1>a, <1>b
<1>e. \A p : Goes(w, p) => poller'[w] = p /\ \A v \in CdcWorker : v # w => poller'[v] = poller[v]
  BY <1>0 DEF Goes
<1>1. CASE ReadCursor(w)
  <2>1. /\ poller'[w].pc = "slot" /\ poller'[w].after = cursor[1]
        /\ poller'[w].upto = poller[w].upto /\ poller'[w].out = poller[w].out
        /\ UNCHANGED <<txns, confirmed, cursor, runs>>
        /\ \A v \in CdcWorker : v # w => poller'[v] = poller[v]
    <3>1. Goes(w, [poller[w] EXCEPT !.pc = "slot", !.after = cursor[1]])
      BY <1>b, <1>1 DEF ReadCursor
    <3>2. poller'[w] = [poller[w] EXCEPT !.pc = "slot", !.after = cursor[1]] /\ \A v \in CdcWorker : v # w => poller'[v] = poller[v]
      BY <1>e, <3>1
    <3>3. UNCHANGED <<txns, confirmed, cursor, runs>>
      BY <1>1 DEF ReadCursor
    <3> QED BY <1>b, <3>2, <3>3 DEF PollRecord
  <2>2. Through(poller[w].after)'
    BY <1>0, <2>1 DEF Through, Changes, ChangesOf
  <2>3. BatchWhole(w)'
    BY <1>0, <2>1 DEF WorkerSound, BatchWhole, Changes, ChangesOf
  <2>4. WorkerSound(w)'
    BY <2>1, <2>2, <2>3 DEF WorkerSound
  <2>5. cursor[1][1] <= Len(txns)
    BY <1>0 DEF InLog
  <2> QED BY <1>c, <2>1, <2>4, <2>5, CdcGoesOn, CdcKept
<1>2. CASE ReadSlot(w)
  <2>1. /\ poller'[w].pc = "upto" /\ poller'[w].after = poller[w].after
        /\ poller'[w].upto = poller[w].upto /\ poller'[w].out = poller[w].out
        /\ UNCHANGED <<txns, confirmed, cursor, runs>>
        /\ \A v \in CdcWorker : v # w => poller'[v] = poller[v]
    <3>1. Goes(w, [poller[w] EXCEPT !.pc = "upto", !.confirmed = confirmed])
      BY <1>2 DEF ReadSlot
    <3>2. poller'[w] = [poller[w] EXCEPT !.pc = "upto", !.confirmed = confirmed] /\ \A v \in CdcWorker : v # w => poller'[v] = poller[v]
      BY <1>e, <3>1
    <3>3. UNCHANGED <<txns, confirmed, cursor, runs>>
      BY <1>2 DEF ReadSlot
    <3> QED BY <1>b, <3>2, <3>3 DEF PollRecord
  <2>2. WorkerSound(w)'
    BY <1>0, <2>1 DEF WorkerSound, Through, BatchWhole, Changes, ChangesOf
  <2> QED BY <1>c, <2>1, <2>2, CdcGoesOn, CdcKept
<1>3. CASE Advance(w)
  <2>1. /\ poller'[w].pc = "flush" /\ poller'[w].after = poller[w].after
        /\ poller'[w].upto = poller[w].upto /\ poller'[w].out = poller[w].out
        /\ UNCHANGED <<txns, cursor, runs>>
        /\ confirmed' = confirmed \/ confirmed' = Released(poller[w].after)
        /\ \A v \in CdcWorker : v # w => poller'[v] = poller[v]
    BY <1>b, <1>e, <1>3 DEF Advance, AdvanceTo, PollRecord
  <2>2. WorkerSound(w)'
    BY <1>0, <2>1 DEF WorkerSound, Through, BatchWhole, Changes, ChangesOf
  <2>3. Freed(Released(poller[w].after))
    BY <1>0, <1>b, ReleasedIsFree DEF WorkerSound
  <2>4. Freed(confirmed)'
    BY <1>0, <2>1, <2>3 DEF Freed, Changes, ChangesOf
  <2>5. confirmed' <= FlushLSN
    <3>1. poller[w].after[1] \in Nat /\ confirmed <= FlushLSN
      BY <1>0, <1>b, PositionsOrdered DEF InLog
    <3> QED BY <1>0, <1>c, <2>1, <3>1 DEF Released, commitOf, Start
  <2> QED BY <1>c, <2>1, <2>2, <2>4, <2>5, CdcGoesOn, CdcKept
<1>4. CASE ReadFlush(w)
  <2>1. /\ poller'[w].pc = "peek" /\ poller'[w].after = poller[w].after
        /\ poller'[w].upto = FlushLSN /\ poller'[w].out = poller[w].out
        /\ UNCHANGED <<txns, confirmed, cursor, runs>>
        /\ \A v \in CdcWorker : v # w => poller'[v] = poller[v]
    <3>1. Goes(w, [poller[w] EXCEPT !.pc = "peek", !.upto = FlushLSN])
      BY <1>4 DEF ReadFlush
    <3>2. poller'[w] = [poller[w] EXCEPT !.pc = "peek", !.upto = FlushLSN] /\ \A v \in CdcWorker : v # w => poller'[v] = poller[v]
      BY <1>e, <3>1
    <3>3. UNCHANGED <<txns, confirmed, cursor, runs>>
      BY <1>4 DEF ReadFlush
    <3> QED BY <1>b, <3>2, <3>3 DEF PollRecord
  <2>2. WorkerSound(w)'
    BY <1>0, <2>1 DEF WorkerSound, Through, BatchWhole, Changes, ChangesOf
  <2>3. poller'[w].upto <= FlushLSN
    BY <1>0, <2>1
  <2> QED BY <1>c, <2>1, <2>2, <2>3, CdcGoesOn, CdcKept
<1>5. CASE Peek(w)
  <2> DEFINE seen == Peeked(poller[w].upto)
             out == Wanted(poller[w].after, seen)
  <2>0. /\ out \subseteq Changes
        /\ \A e \in out, c \in Changes : Before(c, e) => c \in runs[1] \/ c \in out
        /\ out = {} /\ RowsOf(seen) < CdcBudget => Freed(poller[w].upto)
    BY <1>0, <1>b, PeekSound DEF WorkerSound
  <2>1. /\ poller'[w].pc = IF Quiet(poller[w], out, RowsOf(seen)) THEN "release" ELSE "drain"
        /\ poller'[w].after = poller[w].after
        /\ poller'[w].upto = poller[w].upto /\ poller'[w].out = out
        /\ UNCHANGED <<txns, confirmed, cursor, runs>>
        /\ \A v \in CdcWorker : v # w => poller'[v] = poller[v]
    <3> DEFINE at == IF Quiet(poller[w], out, RowsOf(seen)) THEN "release" ELSE "drain"
    <3>1. Goes(w, [poller[w] EXCEPT !.out = out, !.pc = at])
      BY <1>5 DEF Peek
    <3> HIDE DEF out, at
    <3>2. poller'[w] = [poller[w] EXCEPT !.out = out, !.pc = at]
          /\ \A v \in CdcWorker : v # w => poller'[v] = poller[v]
      BY <1>e, <3>1
    <3>3. UNCHANGED <<txns, confirmed, cursor, runs>>
      BY <1>5 DEF Peek
    <3>4. /\ poller'[w].pc = at /\ poller'[w].after = poller[w].after
          /\ poller'[w].upto = poller[w].upto /\ poller'[w].out = out
      BY <1>b, <3>2 DEF PollRecord
    <3> QED BY <3>2, <3>3, <3>4 DEF at
  <2>2. poller'[w].pc = "release" => Freed(poller[w].upto)
    BY <2>0, <2>1 DEF Quiet
  <2> HIDE DEF out, seen
  <2>3. poller'[w].pc = "release" => Freed(poller[w].upto)'
    BY <2>1, <2>2 DEF Freed, Changes, ChangesOf
  <2>4. Through(poller[w].after)'
    BY <1>0, <2>1 DEF WorkerSound, Through, Changes, ChangesOf
  <2>5. BatchWhole(w)'
    BY <2>0, <2>1 DEF BatchWhole, Changes, ChangesOf
  <2>6. WorkerSound(w)'
    BY <2>3, <2>4, <2>5 DEF WorkerSound
  <2>7. \A e \in poller'[w].out : e[1] <= Len(txns)
    BY <1>0, <2>0, <2>1, ChangesAre DEF Changes
  <2> QED BY <1>c, <2>1, <2>6, <2>7, CdcGoesOn, CdcKept
<1>6. CASE QuietRelease(w)
  <2>1. /\ poller[w].pc = "release" /\ poller'[w].pc = "drain"
        /\ poller'[w].after = poller[w].after /\ confirmed' = poller[w].upto
        /\ poller'[w].upto = poller[w].upto /\ poller'[w].out = poller[w].out
        /\ UNCHANGED <<txns, cursor, runs>>
        /\ \A v \in CdcWorker : v # w => poller'[v] = poller[v]
    BY <1>b, <1>e, <1>6 DEF QuietRelease, AdvanceTo, PollRecord
  <2>2. WorkerSound(w)'
    BY <1>0, <2>1 DEF WorkerSound, Through, BatchWhole, Changes, ChangesOf
  <2>3. Freed(confirmed)'
    BY <1>0, <2>1 DEF WorkerSound, Freed, Changes, ChangesOf
  <2> QED BY <1>c, <2>1, <2>2, <2>3, CdcGoesOn, CdcKept
<1>7. CASE NextWorkflow(w) \/ PollFails(w) \/ WorkerStops(w)
  <2>1. PICK f \in Workflows : Goes(w, Poll(f)) /\ UNCHANGED <<txns, confirmed, cursor, runs>>
    BY <1>a, <1>d, <1>7 DEF NextWorkflow, PollFails, WorkerStops
  <2> QED BY <2>1, CdcRestarts
<1>8. ASSUME NEW c \in poller[w].out, SetCursorFails(w, c) PROVE CdcInv'
  <2>1. runs[1] \subseteq runs'[1]
    BY <1>0, <1>a, <1>b, <1>8 DEF SetCursorFails, Started
  <2>2. PICK f \in Workflows : Goes(w, Poll(f)) /\ UNCHANGED <<txns, confirmed, cursor>>
    BY <1>d, <1>8 DEF SetCursorFails
  <2> QED BY <2>1, <2>2, CdcRestarts
<1>9. ASSUME NEW c \in poller[w].out, StartRun(w, c) PROVE CdcInv'
  <2>1. /\ poller'[w].pc = poller[w].pc /\ poller[w].pc = "drain"
        /\ poller'[w].after = poller[w].after
        /\ poller'[w].upto = poller[w].upto /\ poller'[w].out = poller[w].out \ {c}
        /\ UNCHANGED <<txns, confirmed>>
        /\ \A v \in CdcWorker : v # w => poller'[v] = poller[v]
    BY <1>b, <1>e, <1>9 DEF StartRun, Started, PollRecord
  <2>2. runs'[1] = runs[1] \cup {c} /\ (cursor'[1] = cursor[1] \/ cursor'[1] = c)
    BY <1>0, <1>a, <1>b, <1>9 DEF StartRun, Started
  <2>3. \A d \in poller[w].out : d = c \/ Before(c, d)
    BY <1>9 DEF StartRun, Started
  <2>4. Changes' = Changes /\ \A d \in Changes : d \in Place
    <3>1. Changes' = Changes
      BY <2>1 DEF Changes, ChangesOf
    <3>2. \A d \in Changes : d \in Place
      BY <1>0, ChangesAre DEF Changes
    <3> QED BY <3>1, <3>2
  <2>5. ASSUME NEW d \in Changes, ~Before(c, d) PROVE d \in runs'[1]
    <3>1. d = c \/ Before(d, c)
      BY <1>b, <1>9, <2>4, <2>5, PositionsOrdered
    <3>2. CASE Before(d, c)
      <4>1. d \in runs[1] \/ d \in poller[w].out
        BY <1>0, <3>2 DEF WorkerSound, BatchWhole
      <4>2. d \notin poller[w].out
        BY <1>b, <2>3, <2>5, <3>2, PositionsOrdered
      <4> QED BY <2>2, <4>1, <4>2
    <3> QED BY <2>2, <3>1, <3>2
  <2>6. Through(cursor[1])'
    BY <1>0, <2>2, <2>4, <2>5 DEF Through
  <2>7. Through(poller[w].after)'
    BY <1>0, <2>1, <2>2, <2>4 DEF WorkerSound, Through
  <2>8. BatchWhole(w)'
    BY <1>0, <2>1, <2>2, <2>4 DEF WorkerSound, BatchWhole
  <2>9. WorkerSound(w)'
    BY <2>1, <2>7, <2>8 DEF WorkerSound
  <2>10. cursor'[1][1] <= Len(txns) /\ \A e \in poller'[w].out : e[1] <= Len(txns)
    BY <1>0, <1>c, <2>1, <2>2 DEF InLog
  <2> QED BY <1>c, <2>1, <2>2, <2>6, <2>9, <2>10, CdcGoesOn, CdcKept
<1> QED BY <1>1, <1>2, <1>3, <1>4, <1>5, <1>6, <1>7, <1>8, <1>9 DEF CdcStep

\* NoChangeSkipped for any number of workers, any limits and transactions, if
\* an event triggers one workflow (changes.go: a crash re-reads events and
\* never skips one).
THEOREM ChangesAreNotSkipped ==
  ASSUME CdcWorkflows = 1
  PROVE  CdcSpec => []NoChangeSkipped
<1>a. Workflows = {1}
  BY DEF Workflows
<1>1. CdcInit => CdcInv
  <2> SUFFICES ASSUME CdcInit PROVE CdcInv
    OBVIOUS
  <2>1. NoPosition \in Place /\ NoPosition[1] = 0
    BY DEF NoPosition, Place, TableChange
  <2>2. Poll(1) \in PollRecord
    BY <1>a, <2>1 DEF Poll, PollRecord
  <2>3. CdcShape
    BY <2>1, <2>2 DEF CdcInit, CdcShape
  <2>4. txns = <<>> /\ Len(txns) = 0 /\ Changes = {} /\ FlushLSN = 1
    BY DEF CdcInit, Changes, ChangesOf, FlushLSN
  <2>5. \A w \in CdcWorker : poller[w].after = NoPosition /\ poller[w].upto = 0 /\ poller[w].out = {}
    BY DEF CdcInit, Poll
  <2>6. InLog
    BY <1>a, <2>1, <2>4, <2>5 DEF CdcInit, InLog
  <2> QED BY <2>3, <2>4, <2>6 DEF CdcInv, Through, Freed, WorkerSound, BatchWhole
<1>2. ASSUME CdcInv, [CdcNext]_cdcVars PROVE CdcInv'
  <2>1. CASE CdcNext
    <3>1. CdcShape'
      BY <1>2, <2>1, CdcShapeKept DEF CdcInv
    <3> QED BY <1>2, <2>1, <3>1, CdcTransaction, CdcWorkerSteps DEF CdcNext
  <2>2. CASE UNCHANGED cdcVars
    BY <1>2, <2>2 DEF CdcInv, cdcVars, CdcShape, InLog, Through, Freed, WorkerSound, BatchWhole,
                      Changes, ChangesOf, FlushLSN
  <2> QED BY <1>2, <2>1, <2>2
<1>3. CdcInv => NoChangeSkipped
  <2> SUFFICES ASSUME CdcInv, NEW c \in Changes \ runs[1]
               PROVE  Start(c[1]) >= confirmed /\ ~Before(c, cursor[1]) /\ c # cursor[1]
    BY <1>a DEF NoChangeSkipped
  <2>1. c \in Place /\ c[1] \in Nat /\ cursor[1] \in Place /\ confirmed \in Nat
    BY <1>a, ChangesAre, PositionsOrdered DEF CdcInv, CdcShape, Changes
  <2>2. Before(cursor[1], c) /\ ~(Start(c[1]) < confirmed)
    BY DEF CdcInv, Through, Freed
  <2> QED BY <2>1, <2>2, PositionsOrdered DEF Start
<1> QED BY <1>1, <1>2, <1>3, PTL DEF CdcSpec

-----------------------------------------------------------------------------
(* Polled records. *)

\* What the source keeps: stamps are of the past; in Odoo a transaction ends
\* before its records count as settled; IDs are given in order.
SourceSound ==
  /\ \A r \in Rec : stamp[r] <= clock
  /\ source # "odoo" => \A r \in Rec : stamp[r] > 0 => r \in visible \cup gone
  /\ source = "odoo" =>
       \A r \in Rec \ (visible \cup gone) : stamp[r] > 0 => clock < stamp[r] + Settle
  /\ source \in ById =>
       \A q, r \in Rec : q < r /\ stamp[r] > 0 => stamp[q] > 0 /\ stamp[q] <= stamp[r]

\* A position of the source's kind.
OfKind(p) == (source \in ById => p[1] = 0) /\ (source \in ByStamp => p[2] = 0)

\* The cursor is one of the past.
CursorSound ==
  /\ OfKind(pollCursor)
  /\ source \in ById /\ pollCursor[2] # 0 =>
       pollCursor[2] \in Rec /\ stamp[pollCursor[2]] > 0
  /\ source \notin ById => pollCursor[1] < clock

\* The records that still need a run and were not lost in a known way, and
\* those of them that are ahead of the cursor.
Owed == IF source \in ByStamp THEN Unstarted \ slipped ELSE Unstarted
Ahead == {r \in Owed : After(Pos(r), pollCursor)}

\* A worker has read a cursor that has not moved back since.  What is ahead
\* and not in its batch is after all of the batch; while SAP's pages are being
\* read, not before any of it.
DrainSound(w) ==
  /\ OfKind(after[w])
  /\ \A q \in polled[w] : source \notin ById => stamp[q] < clock
  /\ pollPc[w] = "idle" => polled[w] = {}
  /\ pollPc[w] = "reading" =>
       /\ ~After(after[w], pollCursor)
       /\ \A q \in polled[w], r \in Ahead \ polled[w] : stamp[q] <= stamp[r]
  /\ pollPc[w] = "starting" =>
       \A q \in polled[w], r \in Ahead \ polled[w] : After(Pos(r), Pos(q))

\* What the cursor has passed is in a batch being drained; where positions are
\* unique nothing is.
Covered ==
  /\ source \notin ByStamp => Owed \subseteq Ahead
  /\ \A r \in Owed \ Ahead :
       \E w \in PollWorker : pollPc[w] = "starting" /\ r \in polled[w]

PollingInv ==
  /\ PollingTypeOK /\ SourceSound /\ CursorSound /\ Covered
  /\ \A w \in PollWorker : DrainSound(w)

\* The types of the polling state, as plain facts on numbers.
LEMMA PollingTypes ==
  ASSUME PollingTypeOK
  PROVE  /\ \A r \in Rec : r \in Nat /\ r > 0 /\ stamp[r] \in Nat
         /\ clock \in Nat /\ clock > 0 /\ visible \subseteq Rec /\ stamp \in [Rec -> Nat]
         /\ \A r \in visible : stamp[r] > 0 /\ r \notin gone
         /\ pollCursor[1] \in Nat /\ pollCursor[2] \in Nat
         /\ \A w \in PollWorker : polled[w] \subseteq Rec /\ \A q \in polled[w] : stamp[q] > 0
         /\ PollLimit \in Nat /\ PollLimit > 0 /\ Settle \in Nat /\ Settle > 0 /\ MaxPages \in Nat
         /\ MaxRecs \in Nat /\ MaxClock \in Nat
<1>1. /\ \A r \in Rec : r \in Nat /\ r > 0 /\ stamp[r] \in Nat
      /\ clock \in Nat /\ clock > 0 /\ visible \subseteq Rec /\ stamp \in [Rec -> Nat]
      /\ \A r \in visible : stamp[r] > 0 /\ r \notin gone
      /\ PollLimit \in Nat /\ PollLimit > 0 /\ Settle \in Nat /\ Settle > 0 /\ MaxPages \in Nat
      /\ MaxRecs \in Nat /\ MaxClock \in Nat
  BY PollingAssumption DEF PollingTypeOK, Rec
<1>2. pollCursor[1] \in Nat /\ pollCursor[2] \in Nat
  BY <1>1 DEF PollingTypeOK, Position
<1>3. \A w \in PollWorker : polled[w] \subseteq Rec /\ \A q \in polled[w] : stamp[q] > 0
  BY DEF PollingTypeOK
<1> QED BY <1>1, <1>2, <1>3

\* A position is a pair of numbers.
LEMMA PositionNumbers ==
  ASSUME NEW p \in Position
  PROVE  p[1] \in Nat /\ p[2] \in Nat
BY PollingAssumption DEF Position

\* Positions are ordered.
LEMMA AfterOrder ==
  ASSUME NEW p \in Position, NEW q \in Position, NEW s \in Position
  PROVE  /\ ~After(p, p)
         /\ After(p, q) => ~After(q, p)
         /\ After(p, q) /\ ~After(s, q) => After(p, s)
         /\ After(p, q) /\ After(q, s) => After(p, s)
BY PositionNumbers DEF After

\* The kinds of sources.
LEMMA SourcesDiffer ==
  ASSUME source \in Source
  PROVE  /\ source \in ById \/ source \in ByStamp \/ source = "odoo"
         /\ source \in ByStamp => source \notin ById /\ source # "odoo"
         /\ source \in ById => source # "odoo" /\ source \in RestSource
         /\ source \in ById => source \notin {"xero", "stripe"}
         /\ source \in {"xero", "stripe"} => source \in ByStamp
         /\ source \in RestSource => source \notin {"sap", "salesforce", "odoo"}
         /\ source \in ByStamp => source \in {"sap", "salesforce"} \/ source \in RestSource
BY PollingAssumption DEF ById, ByStamp, RestSource

\* Sets of records can be counted.
LEMMA SetsOfRecs ==
  ASSUME PollingTypeOK, NEW S \in SUBSET Rec
  PROVE  IsFiniteSet(S) /\ Cardinality(S) \in Nat
<1>1. MaxRecs \in Int /\ 1 \in Int
  BY PollingTypes
<1>2. IsFiniteSet(Rec)
  BY <1>1, FS_Interval DEF Rec
<1> QED BY <1>2, FS_Subset, FS_CardinalityType

\* Lists are in an order; it goes by stamps, and by IDs where these are given
\* in order.
LEMMA ListOrder ==
  ASSUME PollingTypeOK, NEW q \in Rec, NEW r \in Rec
  PROVE  /\ q = r \/ Listed(q, r) \/ Listed(r, q)
         /\ ~Listed(q, q) /\ ~(Listed(q, r) /\ Listed(r, q))
         /\ Listed(q, r) => stamp[q] <= stamp[r]
         /\ stamp[q] < stamp[r] => Listed(q, r)
         /\ \A s \in Rec : Listed(q, r) /\ Listed(r, s) => Listed(q, s)
BY PollingTypes DEF Listed, After

\* The first n records of a list: none before one of them is left out, a
\* record that is left out has n before it, and unless there are n none is.
LEMMA FirstOnes ==
  ASSUME PollingTypeOK, NEW s \in SUBSET Rec, NEW n \in Nat
  PROVE  /\ FirstOf(s, n) \subseteq s
         /\ \A p \in FirstOf(s, n), r \in s \ FirstOf(s, n) : Listed(p, r)
         /\ \A r \in s \ FirstOf(s, n) : Cardinality({q \in s : Listed(q, r)}) >= n
         /\ Cardinality(s) <= n => FirstOf(s, n) = s
         /\ Cardinality(FirstOf(s, n)) < n => FirstOf(s, n) = s
<1> DEFINE Lower(r) == {q \in s : Listed(q, r)}
<1>0. \A T \in SUBSET s : IsFiniteSet(T) /\ Cardinality(T) \in Nat
  BY SetsOfRecs
<1>1. FirstOf(s, n) = {r \in s : Cardinality(Lower(r)) < n}
  BY DEF FirstOf
<1>2. \A r : Lower(r) \subseteq s /\ \A q \in s : q \in Lower(r) <=> Listed(q, r)
  OBVIOUS
<1> HIDE DEF Lower
<1>3. ASSUME NEW p \in s, NEW r \in s, Listed(r, p)
      PROVE  Cardinality(Lower(r)) < Cardinality(Lower(p))
  <2>1. ASSUME NEW q \in Lower(r) PROVE q \in Lower(p)
    <3>1. q \in s /\ Listed(q, r)
      BY <1>2
    <3> QED BY <1>2, <1>3, <3>1, ListOrder
  <2>2. Lower(r) \subseteq Lower(p) /\ r \in Lower(p) /\ r \notin Lower(r)
    BY <1>2, <1>3, <2>1, ListOrder
  <2>3. IsFiniteSet(Lower(p)) /\ Cardinality(Lower(p)) \in Nat /\ Cardinality(Lower(r)) \in Nat
    BY <1>0, <1>2
  <2>4. /\ Cardinality(Lower(r)) <= Cardinality(Lower(p))
        /\ Cardinality(Lower(r)) # Cardinality(Lower(p))
    BY <2>2, <2>3, FS_Subset
  <2> QED BY <2>3, <2>4
<1>4. ASSUME NEW p \in FirstOf(s, n), NEW r \in s \ FirstOf(s, n) PROVE Listed(p, r)
  <2>1. p \in s /\ Cardinality(Lower(p)) < n /\ ~(Cardinality(Lower(r)) < n) /\ p # r
    BY <1>1, <1>4
  <2>2. Cardinality(Lower(p)) \in Nat /\ Cardinality(Lower(r)) \in Nat
    BY <1>0, <1>2
  <2>3. ~Listed(r, p)
    BY <1>3, <2>1, <2>2
  <2> QED BY <2>1, <2>3, ListOrder
<1>5. ASSUME NEW r \in s \ FirstOf(s, n) PROVE Cardinality(Lower(r)) >= n
  BY <1>0, <1>1, <1>2
<1>6. ASSUME Cardinality(s) <= n PROVE FirstOf(s, n) = s
  <2> SUFFICES ASSUME NEW r \in s PROVE Cardinality(Lower(r)) < n
    BY <1>1
  <2>1. Lower(r) \subseteq s /\ r \notin Lower(r)
    BY <1>2, ListOrder
  <2>2. IsFiniteSet(s) /\ Cardinality(s) \in Nat /\ Cardinality(Lower(r)) \in Nat
    BY <1>0, <2>1
  <2>3. Cardinality(Lower(r)) <= Cardinality(s) /\ Cardinality(Lower(r)) # Cardinality(s)
    BY <2>1, <2>2, FS_Subset
  <2> QED BY <1>6, <2>2, <2>3
<1>7. ASSUME Cardinality(FirstOf(s, n)) < n, FirstOf(s, n) # s PROVE FALSE
  <2> DEFINE N == {Cardinality(Lower(r)) : r \in s \ FirstOf(s, n)}
  <2>1. N \subseteq Nat /\ N # {}
    BY <1>0, <1>1, <1>2, <1>7
  <2>2. PICK m \in N : \A k \in N : m <= k
    BY <2>1, LeastOf
  <2>3. PICK r \in s \ FirstOf(s, n) : m = Cardinality(Lower(r))
    BY <2>2
  <2>4. ASSUME NEW q \in Lower(r) PROVE q \in FirstOf(s, n)
    <3>1. q \in s /\ Listed(q, r)
      BY <1>2
    <3>2. Cardinality(Lower(q)) < Cardinality(Lower(r))
      BY <1>3, <3>1
    <3>3. Cardinality(Lower(q)) \in Nat /\ Cardinality(Lower(r)) \in Nat
      BY <1>0, <1>2
    <3>4. q \notin s \ FirstOf(s, n)
      BY <2>2, <2>3, <3>2, <3>3
    <3> QED BY <3>1, <3>4
  <2>5. Lower(r) \subseteq FirstOf(s, n) /\ FirstOf(s, n) \subseteq s
    BY <1>1, <2>4
  <2>6. IsFiniteSet(FirstOf(s, n)) /\ Cardinality(FirstOf(s, n)) \in Nat /\ Cardinality(Lower(r)) \in Nat
    BY <1>0, <1>2, <2>5
  <2>7. Cardinality(Lower(r)) <= Cardinality(FirstOf(s, n))
    BY <2>5, <2>6, FS_Subset
  <2> QED BY <1>5, <1>7, <2>3, <2>6, <2>7
<1>8. FirstOf(s, n) \subseteq s
  BY <1>1
<1> QED BY <1>4, <1>5, <1>6, <1>7, <1>8 DEF Lower

\* What the sources list.
LEMMA ListsAre ==
  ASSUME source \in Source, NEW p
  PROVE  /\ source = "odoo" => Lists(p) = OdooLists(p)
         /\ source \in ByStamp /\ source # "xero" => Lists(p) = Modified(p)
         /\ source = "xero" => Lists(p) = XeroLists(p)
         /\ source \in ById => Lists(p) = {r \in visible : r > p[2]}
         /\ Lists(p) \subseteq visible
<1> USE DEF Lists, S4Lists, SalesforceLists, HubspotLists, BcLists, DataverseLists,
            NetsuiteLists, QboLists, StripeLists, ShopLists, B1Lists
<1>1. source = "odoo" => Lists(p) = OdooLists(p)
  OBVIOUS
<1>2. ASSUME source \in ByStamp, source # "xero" PROVE Lists(p) = Modified(p)
  <2>1. source \in {"sap", "salesforce", "hubspot", "bc", "dataverse", "netsuite", "qbo", "stripe"}
    BY <1>2 DEF ByStamp, RestSource, ById
  <2> QED BY <2>1
<1>3. source = "xero" => Lists(p) = XeroLists(p)
  OBVIOUS
<1>4. ASSUME source \in ById PROVE Lists(p) = {r \in visible : r > p[2]}
  BY <1>4 DEF ById
<1>5. Lists(p) \subseteq visible
  BY <1>1, <1>2, <1>3, <1>4, SourcesDiffer DEF OdooLists, Modified, XeroLists
<1> QED BY <1>1, <1>2, <1>3, <1>4, <1>5

\* The records that are there, match the event and are after a position.
NewRecs(p) == {r \in Rec : stamp[r] > 0 /\ r \notin gone /\ After(Pos(r), p)}

\* A batch takes new records, and leaves none behind it but those it loses.
WholeBatch(b, p, left) ==
  /\ b \subseteq NewRecs(p) \cap visible
  /\ \A q \in b, r \in NewRecs(p) \ b : After(Pos(r), Pos(q)) \/ r \in left

\* The position of a record: its ID, its time stamp, or both.
LEMMA Positions ==
  ASSUME PollingTypeOK, NEW r \in Rec
  PROVE  /\ source \in ById => Pos(r)[1] = 0 /\ Pos(r)[2] = r
         /\ source \in ByStamp => Pos(r)[1] = stamp[r] /\ Pos(r)[2] = 0
         /\ source = "odoo" => Pos(r)[1] = stamp[r] /\ Pos(r)[2] = r
         /\ Pos(r) \in Position
         /\ Pos(r)[1] \in Nat /\ Pos(r)[2] \in Nat
<1>0. source \in Source /\ stamp[r] \in 0..MaxClock /\ r \in 0..MaxRecs /\ 0 \in 0..MaxClock /\ 0 \in 0..MaxRecs
  BY PollingAssumption DEF PollingTypeOK, Rec
<1> USE DEF Position
<1>1. CASE source \in ById
  <2>1. source \notin ByStamp /\ source # "odoo" /\ Pos(r) = <<0, r>>
    BY <1>0, <1>1, SourcesDiffer DEF Pos
  <2> QED BY <1>0, <2>1, PollingAssumption
<1>2. CASE source \in ByStamp
  <2>1. source \notin ById /\ source # "odoo" /\ Pos(r) = <<stamp[r], 0>>
    BY <1>0, <1>2, SourcesDiffer DEF Pos
  <2> QED BY <1>0, <2>1, PollingAssumption
<1>3. CASE source = "odoo"
  <2>1. source \notin ById /\ source \notin ByStamp /\ Pos(r) = <<stamp[r], r>>
    BY <1>0, <1>3, SourcesDiffer DEF Pos
  <2> QED BY <1>0, <2>1, PollingAssumption
<1> QED BY <1>0, <1>1, <1>2, <1>3, SourcesDiffer

\* A list read to its first n, less the last group, is whole.
LEMMA BoundaryWhole ==
  ASSUME PollingTypeOK, source \in ByStamp, NEW p, NewRecs(p) \subseteq visible,
         NEW n \in Nat, NEW left
  PROVE  WholeBatch(Boundary(FirstOf(NewRecs(p), n)), p, left)
<1> DEFINE s == FirstOf(NewRecs(p), n)
<1>0. NewRecs(p) \subseteq Rec /\ Boundary(s) \subseteq s
  BY DEF NewRecs, Boundary
<1>1. s \subseteq NewRecs(p) /\ \A q \in s, r \in NewRecs(p) \ s : Listed(q, r)
  BY <1>0, FirstOnes
<1> HIDE DEF s
<1>2. ASSUME NEW q \in Boundary(s), NEW r \in NewRecs(p) \ Boundary(s)
      PROVE  After(Pos(r), Pos(q))
  <2>1. PICK u \in s : stamp[u] > stamp[q]
    BY <1>2 DEF Boundary
  <2>2. q \in Rec /\ u \in Rec /\ r \in Rec
    BY <1>0, <1>1, <1>2
  <2>3. stamp[q] \in Nat /\ stamp[u] \in Nat /\ stamp[r] \in Nat
    BY <2>2, PollingTypes
  <2>4. CASE r \in s
    <3>1. ~(stamp[u] > stamp[r])
      BY <1>2, <2>4 DEF Boundary
    <3> QED BY <2>1, <2>2, <2>3, <3>1, Positions DEF After
  <2>5. CASE r \notin s
    <3>1. Listed(u, r)
      BY <1>1, <2>5
    <3>2. stamp[u] <= stamp[r]
      BY <2>2, <3>1, ListOrder
    <3> QED BY <2>1, <2>2, <2>3, <3>2, Positions DEF After
  <2> QED BY <2>4, <2>5
<1> QED BY <1>0, <1>1, <1>2 DEF WholeBatch, s

\* What Odoo is polled for is whole, and all of it is settled.
LEMMA OdooPollWhole ==
  ASSUME PollingTypeOK, SourceSound, source = "odoo", NEW p, NEW left
  PROVE  WholeBatch(OdooPoll(p), p, left) /\ \A q \in OdooPoll(p) : stamp[q] < clock
<1>0. source \in Source
  BY DEF PollingTypeOK
<1>1. /\ Lists(p) = {r \in visible : After(Pos(r), p) /\ stamp[r] <= Settled}
      /\ Settled = IF clock > Settle THEN clock - Settle ELSE 0
  BY <1>0, ListsAre DEF OdooLists, Settled
<1>2. PollLimit \in Nat /\ Lists(p) \in SUBSET Rec /\ Settled \in Nat
  BY <1>1, PollingTypes
<1>3. /\ OdooPoll(p) \subseteq Lists(p)
      /\ \A q \in OdooPoll(p), r \in Lists(p) \ OdooPoll(p) : Listed(q, r)
  BY <1>2, FirstOnes DEF OdooPoll
<1>4. Lists(p) \subseteq NewRecs(p) \cap visible
  BY <1>1, <1>2, PollingTypes DEF NewRecs
<1>5. \A q \in OdooPoll(p) : q \in Rec /\ stamp[q] \in Nat /\ stamp[q] > 0 /\ stamp[q] <= Settled
  BY <1>1, <1>3, PollingTypes
<1>6. \A q \in OdooPoll(p) : clock > Settle /\ stamp[q] + Settle <= clock /\ stamp[q] < clock
  BY <1>1, <1>5, PollingTypes
<1>7. ASSUME NEW q \in OdooPoll(p), NEW r \in NewRecs(p) \ OdooPoll(p)
      PROVE  After(Pos(r), Pos(q))
  <2>0. r \in Rec /\ stamp[r] \in Nat /\ stamp[r] > 0 /\ r \notin gone /\ After(Pos(r), p)
    BY <1>7, PollingTypes DEF NewRecs
  <2>1. CASE r \in Lists(p)
    <3>1. Listed(q, r)
      BY <1>3, <1>7, <2>1
    <3> QED BY <1>5, <2>0, <3>1, Positions DEF After, Listed
  <2>2. CASE r \notin visible
    <3>1. clock < stamp[r] + Settle
      BY <2>0, <2>2 DEF SourceSound
    <3>2. stamp[q] < stamp[r]
      BY <1>5, <1>6, <2>0, <3>1, PollingTypes
    <3> QED BY <1>5, <2>0, <3>2, Positions DEF After
  <2>3. CASE r \in visible /\ ~(stamp[r] <= Settled)
    <3>1. stamp[q] < stamp[r]
      BY <1>2, <1>5, <2>0, <2>3
    <3> QED BY <1>5, <2>0, <3>1, Positions DEF After
  <2> QED BY <1>1, <2>0, <2>1, <2>2, <2>3
<1> QED BY <1>3, <1>4, <1>6, <1>7 DEF WholeBatch

\* Where the stamp is the position, or the ID, every new record is listed,
\* and by most sources no other.
LEMMA NewIsListed ==
  ASSUME PollingTypeOK, SourceSound, NEW p \in Position, OfKind(p), source # "odoo"
  PROVE  /\ NewRecs(p) \subseteq visible /\ NewRecs(p) \subseteq Rec
         /\ NewRecs(p) = {r \in Lists(p) : After(Pos(r), p)}
         /\ source # "xero" => Lists(p) = NewRecs(p)
<1>0. source \in Source /\ p[1] \in Nat /\ p[2] \in Nat
  BY PositionNumbers DEF PollingTypeOK
<1>1. /\ NewRecs(p) = {r \in visible : After(Pos(r), p)}
      /\ visible \subseteq Rec
  BY PollingTypes DEF NewRecs, SourceSound
<1>2. CASE source \in ById
  <2>1. \A r \in visible : After(Pos(r), p) <=> r > p[2]
    BY <1>0, <1>1, <1>2, Positions, PollingTypes DEF After, OfKind
  <2> QED BY <1>0, <1>1, <1>2, <2>1, ListsAre
<1>3. CASE source \in ByStamp
  <2>1. \A r \in visible : After(Pos(r), p) <=> stamp[r] > p[1]
    BY <1>0, <1>1, <1>3, Positions, PollingTypes DEF After, OfKind
  <2>2. CASE source # "xero"
    BY <1>0, <1>1, <1>3, <2>1, <2>2, ListsAre DEF Modified
  <2>3. CASE source = "xero"
    <3>1. Lists(p) = {r \in visible : stamp[r] >= p[1]}
      BY <1>0, <2>3, ListsAre DEF XeroLists
    <3>2. \A r \in visible : stamp[r] > p[1] => stamp[r] >= p[1]
      BY <1>0, <1>1, PollingTypes
    <3> QED BY <1>1, <2>1, <2>3, <3>1, <3>2
  <2> QED BY <2>2, <2>3
<1> QED BY <1>0, <1>2, <1>3, SourcesDiffer

\* A poll of Salesforce cuts no group of one time stamp.
LEMMA SalesforceWhole ==
  ASSUME PollingTypeOK, SourceSound, NEW p \in Position, OfKind(p),
         source = "salesforce", PagesRead(p) # {}, NEW left
  PROVE  WholeBatch(SalesforcePoll(p), p, left)
<1>0. source \in ByStamp /\ source # "odoo" /\ source # "xero"
  BY DEF ByStamp
<1>1. Lists(p) = NewRecs(p) /\ NewRecs(p) \subseteq visible /\ NewRecs(p) \in SUBSET Rec
  BY <1>0, NewIsListed
<1>2. PagesRead(p) \in SUBSET Nat
  BY PollingTypes DEF PagesRead
<1> DEFINE n == CHOOSE n \in PagesRead(p) : \A m \in PagesRead(p) : n <= m
<1>3. n \in PagesRead(p)
  BY <1>2, LeastOf
<1>4. SalesforcePoll(p) = IF SalesforceEnded(p, n) THEN FirstOf(Lists(p), n * PollLimit)
                                                   ELSE Boundary(FirstOf(Lists(p), n * PollLimit))
  BY DEF SalesforcePoll
<1> HIDE DEF n
<1>5. n \in Nat /\ n * PollLimit \in Nat
  BY <1>2, <1>3, PollingTypes
<1>6. CASE SalesforceEnded(p, n)
  <2>1. Cardinality(NewRecs(p)) <= n * PollLimit
    BY <1>1, <1>6 DEF SalesforceEnded
  <2>2. FirstOf(NewRecs(p), n * PollLimit) = NewRecs(p)
    BY <1>1, <1>5, <2>1, FirstOnes
  <2> QED BY <1>1, <1>4, <1>6, <2>2 DEF WholeBatch
<1>7. CASE ~SalesforceEnded(p, n)
  BY <1>0, <1>1, <1>4, <1>5, <1>7, BoundaryWhole
<1> QED BY <1>6, <1>7

\* Reading the first n once more takes no less.
LEMMA FirstAgain ==
  ASSUME PollingTypeOK, NEW s \in SUBSET Rec, NEW n \in Nat
  PROVE  FirstOf(FirstOf(s, n), n) = FirstOf(s, n)
<1> DEFINE f == FirstOf(s, n)
           Of(S, r) == {q \in S : Listed(q, r)}
<1>1. f \subseteq s
  BY FirstOnes
<1>2. \A r \in f : Cardinality(Of(s, r)) < n
  BY DEF FirstOf
<1>3. FirstOf(f, n) = {r \in f : Cardinality(Of(f, r)) < n}
  BY DEF FirstOf
<1> HIDE DEF f
<1>4. ASSUME NEW r \in f PROVE Cardinality(Of(f, r)) < n
  <2>1. Of(f, r) \subseteq Of(s, r) /\ Of(s, r) \in SUBSET Rec /\ Of(f, r) \in SUBSET Rec
    BY <1>1
  <2> HIDE DEF Of
  <2>2. IsFiniteSet(Of(s, r)) /\ Cardinality(Of(s, r)) \in Nat /\ Cardinality(Of(f, r)) \in Nat
    BY <2>1, SetsOfRecs
  <2>3. Cardinality(Of(f, r)) <= Cardinality(Of(s, r))
    BY <2>1, <2>2, FS_Subset
  <2> QED BY <1>2, <2>2, <2>3
<1>5. FirstOf(f, n) = f
  BY <1>3, <1>4
<1> QED BY <1>5 DEF f

\* What a REST poll returns: the first records, or those before the last time
\* stamp.
LEMMA RestPollIs ==
  ASSUME PollingTypeOK, SourceSound, NEW p \in Position, OfKind(p), source \in RestSource
  PROVE  LET s == FirstOf(NewRecs(p), PollLimit)
         IN  \/ RestPoll(p) = s /\ source \in ById
             \/ RestPoll(p) = s /\ s = NewRecs(p)
             \/ RestPoll(p) = s /\ Boundary(s) = {} /\ RestCut(p) /\ FirstOf(RestNew(p), PollLimit) = s
             \/ RestPoll(p) = Boundary(s) /\ source \in ByStamp
<1>0. source \in Source /\ PollLimit \in Nat
  BY PollingTypes DEF PollingTypeOK
<1>1. source # "odoo"
  BY <1>0, SourcesDiffer
<1>2. /\ NewRecs(p) \in SUBSET Rec /\ NewRecs(p) = {r \in Lists(p) : After(Pos(r), p)}
      /\ source # "xero" => Lists(p) = NewRecs(p)
  BY <1>1, NewIsListed
<1> DEFINE s == FirstOf(RestNew(p), PollLimit)
           f == FirstOf(NewRecs(p), PollLimit)
<1>3. /\ RestPoll(p) = IF RestCut(p) /\ Boundary(s) # {} THEN Boundary(s) ELSE s
      /\ RestCut(p) <=> RestShort(p) /\ source \notin ById
  BY DEF RestPoll, RestCut
<1>4. s = f /\ (~RestShort(p) => f = NewRecs(p))
  <2>0. Cardinality(NewRecs(p)) \in Nat
    BY <1>2, SetsOfRecs
  <2>1. CASE source \in {"xero", "stripe"}
    <3>1. RestNew(p) = NewRecs(p)
      BY <1>2, <2>1 DEF RestNew, RestList
    <3>2. ~RestShort(p) => Cardinality(NewRecs(p)) <= PollLimit
      BY <1>0, <2>0, <3>1 DEF RestShort
    <3> QED BY <1>0, <1>2, <3>1, <3>2, FirstOnes
  <2>2. CASE source \notin {"xero", "stripe"}
    <3>1. RestList(p) = f
      BY <1>2, <2>2 DEF RestList
    <3>2. f \subseteq NewRecs(p)
      BY <1>0, <1>2, FirstOnes
    <3>3. RestNew(p) = f
      BY <1>2, <3>1, <3>2 DEF RestNew
    <3>4. s = f
      BY <1>0, <1>2, <3>3, FirstAgain
    <3>5. Cardinality(f) \in Nat
      BY <1>2, <3>2, SetsOfRecs
    <3>6. ~RestShort(p) => Cardinality(f) < PollLimit
      BY <1>0, <2>2, <3>1, <3>5 DEF RestShort
    <3> QED BY <1>0, <1>2, <3>4, <3>6, FirstOnes
  <2> QED BY <2>1, <2>2
<1>5. source \in ById \/ source \in ByStamp
  BY <1>0, <1>1, SourcesDiffer
<1> HIDE DEF s
<1> QED BY <1>3, <1>4, <1>5 DEF s

\* Where IDs are given in order, lists are in the order of the IDs.
LEMMA ListedById ==
  ASSUME PollingTypeOK, SourceSound, source \in ById,
         NEW p \in Rec, NEW r \in Rec, stamp[p] > 0, stamp[r] > 0, Listed(p, r)
  PROVE  r > p
<1>1. r < p => stamp[r] <= stamp[p]
  BY DEF SourceSound
<1> QED BY <1>1, PollingTypes DEF Listed, After

\* A REST poll cuts no group of one time stamp but one that fills the batch.
LEMMA RestPollWhole ==
  ASSUME PollingTypeOK, SourceSound, NEW p \in Position, OfKind(p), source \in RestSource
  PROVE  WholeBatch(RestPoll(p), p, Overflow(p))
<1> DEFINE s == FirstOf(NewRecs(p), PollLimit)
<1>0. source # "odoo" /\ PollLimit \in Nat
  BY SourcesDiffer, PollingTypes DEF PollingTypeOK
<1>1. /\ NewRecs(p) \in SUBSET Rec /\ NewRecs(p) \subseteq visible
      /\ NewRecs(p) \subseteq Lists(p)
  BY <1>0, NewIsListed
<1>2. s \subseteq NewRecs(p) /\ \A q \in s, r \in NewRecs(p) \ s : Listed(q, r)
  BY <1>0, <1>1, FirstOnes
<1>3. \/ RestPoll(p) = s /\ source \in ById
      \/ RestPoll(p) = s /\ s = NewRecs(p)
      \/ RestPoll(p) = s /\ Boundary(s) = {} /\ RestCut(p) /\ FirstOf(RestNew(p), PollLimit) = s
      \/ RestPoll(p) = Boundary(s) /\ source \in ByStamp
  BY RestPollIs
<1>4. CASE RestPoll(p) = s /\ source \in ById
  <2>1. ASSUME NEW q \in s, NEW r \in NewRecs(p) \ s PROVE After(Pos(r), Pos(q))
    <3>1. q \in Rec /\ r \in Rec /\ stamp[q] > 0 /\ stamp[r] > 0 /\ Listed(q, r)
      BY <1>2 DEF NewRecs
    <3>2. r > q
      BY <1>4, <3>1, ListedById
    <3> QED BY <1>4, <3>1, <3>2, Positions DEF After
  <2> QED BY <1>1, <1>2, <1>4, <2>1 DEF WholeBatch
<1>5. CASE RestPoll(p) = s /\ s = NewRecs(p)
  BY <1>1, <1>5 DEF WholeBatch
<1>6. CASE RestPoll(p) = s /\ Boundary(s) = {} /\ RestCut(p) /\ FirstOf(RestNew(p), PollLimit) = s
  <2>1. source \in ByStamp /\ Batch(p) = RestPoll(p)
    BY <1>0, <1>6, SourcesDiffer DEF PollingTypeOK, RestCut, Batch
  <2>2. Overflow(p) = {r \in Lists(p) \ s : \E q \in s : stamp[q] = stamp[r]}
    BY <1>6, <2>1 DEF Overflow
  <2> HIDE DEF s
  <2>3. ASSUME NEW q \in s, NEW r \in NewRecs(p) \ s, r \notin Overflow(p)
        PROVE  After(Pos(r), Pos(q))
    <3>1. q \in Rec /\ r \in Rec /\ Listed(q, r) /\ stamp[q] \in Nat /\ stamp[r] \in Nat
      BY <1>1, <1>2, PollingTypes
    <3>2. stamp[q] <= stamp[r] /\ stamp[q] # stamp[r]
      BY <1>1, <2>2, <2>3, <3>1, ListOrder
    <3> QED BY <2>1, <3>1, <3>2, Positions DEF After
  <2>4. \A q \in s, r \in NewRecs(p) \ s : After(Pos(r), Pos(q)) \/ r \in Overflow(p)
    BY <2>3
  <2> QED BY <1>1, <1>2, <1>6, <2>4 DEF WholeBatch
<1>7. CASE RestPoll(p) = Boundary(s) /\ source \in ByStamp
  BY <1>0, <1>1, <1>7, BoundaryWhole
<1> QED BY <1>3, <1>4, <1>5, <1>6, <1>7

\* Every connector's Poll returns a whole batch, and loses records only of a
\* group that fills a REST batch.
LEMMA BatchesWhole ==
  ASSUME PollingTypeOK, SourceSound, NEW p \in Position, OfKind(p), source # "sap",
         source = "salesforce" => PagesRead(p) # {}
  PROVE  /\ WholeBatch(Batch(p), p, Overflow(p))
         /\ source = "odoo" => \A q \in Batch(p) : stamp[q] < clock
<1>1. CASE source = "odoo"
  BY <1>1, OdooPollWhole DEF Batch
<1>2. CASE source = "salesforce"
  <2>1. Batch(p) = SalesforcePoll(p) /\ source # "odoo"
    BY <1>2 DEF Batch
  <2> QED BY <1>2, <2>1, SalesforceWhole
<1>3. CASE source \notin {"sap", "salesforce", "odoo"}
  <2>1. Batch(p) = RestPoll(p) /\ source \in RestSource
    BY <1>3, PollingAssumption DEF Batch, PollingTypeOK
  <2> QED BY <1>3, <2>1, RestPollWhole
<1> QED BY <1>1, <1>2, <1>3

\* A poll returns records that are visible.
LEMMA BatchesVisible ==
  ASSUME source \in Source, NEW p
  PROVE  Batch(p) \subseteq visible /\ \A n : FirstOf(Lists(p), n) \subseteq visible
<1>1. Lists(p) \subseteq visible
  BY ListsAre
<1>2. /\ \A s, n : FirstOf(s, n) \subseteq s
      /\ \A s : Boundary(s) \subseteq s
  BY DEF FirstOf, Boundary
<1>3. SalesforcePoll(p) \subseteq visible /\ OdooPoll(p) \subseteq visible
  BY <1>1, <1>2 DEF SalesforcePoll, OdooPoll
<1>4. RestPoll(p) \subseteq visible
  <2>1. RestNew(p) \subseteq visible
    BY <1>1, <1>2 DEF RestNew, RestList
  <2>2. RestPoll(p) \in {FirstOf(RestNew(p), PollLimit), Boundary(FirstOf(RestNew(p), PollLimit))}
    BY DEF RestPoll
  <2> QED BY <1>2, <2>1, <2>2
<1>5. Batch(p) \subseteq visible
  BY <1>3, <1>4 DEF Batch
<1> QED BY <1>1, <1>2, <1>5

\* An answer keeps the types when the batch is of records that were read.
LEMMA AnswersTyped ==
  ASSUME PollingTypeOK, NEW w \in PollWorker, NEW pc \in {"reading", "starting"},
         NEW n \in 0..MaxPages, NEW b \in SUBSET {r \in Rec : stamp[r] > 0},
         Answered(w, pc, n, b), slipped' \subseteq Rec
  PROVE  PollingTypeOK'
<1>1. /\ UNCHANGED <<source, stamp, visible, gone, pollCursor, startedRecs>>
      /\ pollPc' = [pollPc EXCEPT ![w] = pc] /\ page' = [page EXCEPT ![w] = n]
      /\ polled' = [polled EXCEPT ![w] = b]
  BY DEF Answered
<1>2. clock' \in 1..MaxClock
  BY PollingAssumption DEF Answered, PollingTypeOK
<1>3. after' \in [PollWorker -> Position]
  BY PollingAssumption DEF Answered, PollingTypeOK, Position
<1>4. /\ pollPc' \in [PollWorker -> {"idle", "reading", "starting"}]
      /\ page' \in [PollWorker -> 0..MaxPages]
      /\ polled' \in [PollWorker -> SUBSET {r \in Rec : stamp[r] > 0}]
  BY <1>1 DEF PollingTypeOK
<1> QED BY <1>1, <1>2, <1>3, <1>4 DEF PollingTypeOK

\* A poll returns records that are visible, and the cursor is a position of
\* one of them.
LEMMA PollingTypesStay == PollingTypeOK /\ [PollingNext]_pollingVars => PollingTypeOK'
<1> SUFFICES ASSUME PollingTypeOK, [PollingNext]_pollingVars PROVE PollingTypeOK'
  OBVIOUS
<1> DEFINE Stamped == {r \in Rec : stamp[r] > 0}
<1>0. /\ source \in Source /\ clock \in 1..MaxClock /\ stamp \in [Rec -> 0..MaxClock]
      /\ visible \subseteq Stamped \ gone /\ gone \subseteq Stamped
      /\ pollCursor \in Position
      /\ pollPc \in [PollWorker -> {"idle", "reading", "starting"}]
      /\ after \in [PollWorker -> Position] /\ page \in [PollWorker -> 0..MaxPages]
      /\ polled \in [PollWorker -> SUBSET Stamped]
      /\ startedRecs \subseteq Stamped /\ slipped \subseteq Rec
      /\ MaxClock \in Nat /\ <<0, 0>> \in Position /\ 0 \in 0..MaxPages /\ MaxPages \in Nat
  BY PollingAssumption DEF PollingTypeOK, Position
<1>1. ASSUME NEW r \in Rec, Stamps(r) PROVE PollingTypeOK'
  <2>1. /\ stamp[r] = 0 /\ stamp' = [stamp EXCEPT ![r] = clock]
        /\ UNCHANGED <<source, clock, gone, pollCursor, pollPc, after, page, polled, startedRecs, slipped>>
        /\ visible' = visible \/ (visible' = visible \cup {r} /\ source # "odoo")
    BY <1>1 DEF Stamps, drainVars
  <2>2. stamp' \in [Rec -> 0..MaxClock] /\ clock > 0
    BY <1>0, <2>1
  <2>3. \A q \in Rec : stamp[q] > 0 => stamp'[q] > 0
    BY <1>0, <2>1, <2>2
  <2>4. Stamped \subseteq {q \in Rec : stamp'[q] > 0} /\ stamp'[r] > 0
    BY <1>0, <2>1, <2>2, <2>3
  <2>g. r \notin gone
    BY <1>0, <2>1
  <2>5. visible' \subseteq {q \in Rec : stamp'[q] > 0} \ gone
    BY <1>0, <2>1, <2>4, <2>g
  <2> HIDE DEF Stamped
  <2> QED BY <1>0, <2>1, <2>2, <2>4, <2>5 DEF PollingTypeOK
<1>2. ASSUME NEW r \in Rec, CommitsRecord(r) PROVE PollingTypeOK'
  BY <1>0, <1>2 DEF CommitsRecord, PollingTypeOK, drainVars
<1>3. ASSUME NEW r \in Rec, Leaves(r) PROVE PollingTypeOK'
  BY <1>0, <1>3 DEF Leaves, PollingTypeOK, drainVars
<1>4. CASE Tick
  <2>1. clock' \in 1..MaxClock
    BY <1>0, <1>4 DEF Tick
  <2> QED BY <1>0, <1>4, <2>1 DEF Tick, PollingTypeOK, drainVars
<1>5. ASSUME NEW w \in PollWorker, ReadsCursor(w) PROVE PollingTypeOK'
  BY <1>0, <1>5 DEF ReadsCursor, PollingTypeOK, pollingSource
<1>6. ASSUME NEW w \in PollWorker, SapReads(w) PROVE PollingTypeOK'
  <2> DEFINE s == polled[w] \cup (FirstOf(Lists(after[w]), (page[w] + 1) * PollLimit)
                                    \ SkippedPages(w))
  <2>1. /\ \/ Answered(w, "starting", 0, s)
           \/ Answered(w, "starting", 0, Boundary(s))
           \/ page[w] + 1 < MaxPages /\ Answered(w, "reading", page[w] + 1, s)
        /\ slipped' = slipped \cup (SkippedPages(w) \ polled[w])
    BY <1>6 DEF SapReads
  <2>2. \A n : FirstOf(Lists(after[w]), n) \subseteq Stamped
    BY <1>0, BatchesVisible
  <2>3. s \in SUBSET Stamped /\ slipped' \subseteq Rec /\ Boundary(s) \subseteq s
    BY <1>0, <2>1, <2>2 DEF SkippedPages, Boundary
  <2>4. page[w] + 1 < MaxPages => page[w] + 1 \in 0..MaxPages
    BY <1>0
  <2> HIDE DEF s
  <2> QED BY <1>0, <2>1, <2>3, <2>4, AnswersTyped
<1>7. ASSUME NEW w \in PollWorker, Polls(w) PROVE PollingTypeOK'
  <2>1. Batch(after[w]) \in SUBSET Stamped /\ Lists(after[w]) \subseteq Stamped
    BY <1>0, BatchesVisible, ListsAre
  <2>2. slipped' \subseteq Rec
    BY <1>0, <1>7, <2>1 DEF Polls, Overflow
  <2>3. Answered(w, "starting", 0, Batch(after[w]))
    BY <1>7 DEF Polls
  <2> QED BY <1>0, <2>1, <2>2, <2>3, AnswersTyped
<1>8. ASSUME NEW w \in PollWorker, PollErrs(w) PROVE PollingTypeOK'
  BY <1>0, <1>8 DEF PollErrs, PollingTypeOK, pollingSource
<1>9. ASSUME NEW w \in PollWorker, NEW r \in Rec, Starts(w, r) PROVE PollingTypeOK'
  <2>1. /\ UNCHANGED <<source, clock, stamp, visible, gone, pollPc, after, page, slipped>>
        /\ r \in polled[w] /\ startedRecs' = startedRecs \cup {r}
        /\ pollCursor' \in {Pos(r), pollCursor}
        /\ polled' = [polled EXCEPT ![w] = @ \ {r}]
    BY <1>9 DEF Starts, First, pollingSource
  <2>2. pollCursor' \in Position
    BY <1>0, <2>1, Positions
  <2>3. polled' \in [PollWorker -> SUBSET Stamped] /\ r \in Stamped
    BY <1>0, <2>1
  <2> QED BY <1>0, <2>1, <2>2, <2>3 DEF PollingTypeOK
<1>10. ASSUME NEW w \in PollWorker, Drained(w) PROVE PollingTypeOK'
  BY <1>0, <1>10 DEF Drained, PollingTypeOK, pollingSource
<1>11. ASSUME NEW w \in PollWorker, NEW r \in Rec, DrainStops(w) \/ CursorNotMoved(w, r)
       PROVE  PollingTypeOK'
  <2>1. /\ UNCHANGED <<source, clock, stamp, visible, gone, pollCursor, after, page>>
        /\ pollPc' = [pollPc EXCEPT ![w] = "idle"] /\ polled' = [polled EXCEPT ![w] = {}]
        /\ slipped' \subseteq slipped \cup polled[w]
        /\ startedRecs' \subseteq startedRecs \cup polled[w]
    BY <1>11 DEF DrainStops, CursorNotMoved, GivesUp, First, pollingSource
  <2>2. polled[w] \subseteq Stamped /\ Stamped \subseteq Rec
    BY <1>0
  <2> QED BY <1>0, <2>1, <2>2 DEF PollingTypeOK
<1>12. ASSUME NEW w \in PollWorker, DrainStops(w) PROVE PollingTypeOK'
  <2>1. PICK r \in polled[w] : TRUE
    BY <1>12 DEF DrainStops
  <2>2. r \in Rec
    BY <1>0, <2>1
  <2> QED BY <1>11, <1>12, <2>2
<1>13. CASE UNCHANGED pollingVars
  BY <1>0, <1>13 DEF pollingVars, pollingSource, drainVars, PollingTypeOK
<1>14. CASE PollingNext
  BY <1>1, <1>2, <1>3, <1>4, <1>5, <1>6, <1>7, <1>8, <1>9, <1>10, <1>11, <1>12, <1>14
     DEF PollingNext
<1> QED BY <1>13, <1>14

\* Nothing is visible and nothing was polled at first.
LEMMA PollingStarts == PollingInit => PollingInv
<1> SUFFICES ASSUME PollingInit PROVE PollingInv
  OBVIOUS
<1>0. /\ source \in Source /\ clock = 1 /\ stamp = [r \in Rec |-> 0] /\ visible = {} /\ gone = {}
      /\ pollCursor = <<0, 0>> /\ startedRecs = {} /\ slipped = {}
      /\ pollPc = [w \in PollWorker |-> "idle"] /\ after = [w \in PollWorker |-> <<0, 0>>]
      /\ page = [w \in PollWorker |-> 0] /\ polled = [w \in PollWorker |-> {}]
  BY DEF PollingInit
<1>1. MaxClock \in Nat /\ MaxRecs \in Nat /\ MaxClock > 0 /\ MaxPages \in Nat
  BY PollingAssumption
<1>2. PollingTypeOK
  <2>1. stamp \in [Rec -> 0..MaxClock] /\ clock \in 1..MaxClock
    BY <1>0, <1>1
  <2>2. <<0, 0>> \in Position /\ 0 \in 0..MaxPages
    BY <1>1 DEF Position
  <2> QED BY <1>0, <2>1, <2>2 DEF PollingTypeOK
<1>3. SourceSound
  BY <1>0 DEF SourceSound
<1>4. CursorSound
  BY <1>0 DEF CursorSound, OfKind
<1>5. Unstarted = {}
  BY <1>0 DEF Unstarted
<1>6. Covered
  BY <1>5 DEF Covered, Owed, Ahead
<1>7. ASSUME NEW w \in PollWorker PROVE DrainSound(w)
  BY <1>0 DEF DrainSound, OfKind
<1> QED BY <1>2, <1>3, <1>4, <1>6, <1>7 DEF PollingInv

\* The invariant is one of the polling state.
LEMMA PollingStutters == PollingInv /\ UNCHANGED pollingVars => PollingInv'
<1> SUFFICES ASSUME PollingInv, UNCHANGED pollingVars PROVE PollingInv'
  OBVIOUS
<1>1. /\ source' = source /\ clock' = clock /\ stamp' = stamp /\ visible' = visible
      /\ gone' = gone /\ pollCursor' = pollCursor /\ polled' = polled /\ pollPc' = pollPc
      /\ after' = after /\ page' = page /\ startedRecs' = startedRecs /\ slipped' = slipped
  BY DEF pollingVars, pollingSource, drainVars
<1>2. PollingTypeOK' /\ SourceSound' /\ CursorSound'
  BY <1>1 DEF PollingInv, PollingTypeOK, SourceSound, CursorSound, OfKind
<1>3. /\ Owed' = Owed /\ Ahead' = Ahead /\ \A q : Pos(q)' = Pos(q)
      /\ \A p : OfKind(p)' = OfKind(p)
  BY <1>1 DEF Owed, Ahead, Unstarted, Pos, OfKind
<1>4. Covered'
  BY <1>1, <1>3 DEF PollingInv, Covered
<1>5. ASSUME NEW w \in PollWorker PROVE DrainSound(w)'
  BY <1>1, <1>3 DEF PollingInv, DrainSound
<1> QED BY <1>2, <1>4, <1>5 DEF PollingInv

\* A record that is written gets a time stamp that is not of the past.
LEMMA StampsStep ==
  ASSUME PollingInv, PollingTypeOK', NEW r \in Rec, Stamps(r)
  PROVE  PollingInv'
<1>0. PollingTypeOK /\ SourceSound /\ CursorSound /\ Covered
  BY DEF PollingInv
<1>1. /\ stamp[r] = 0 /\ stamp' = [stamp EXCEPT ![r] = clock]
      /\ source' = source /\ clock' = clock /\ pollCursor' = pollCursor /\ gone' = gone
      /\ polled' = polled /\ pollPc' = pollPc /\ after' = after
      /\ startedRecs' = startedRecs /\ slipped' = slipped
      /\ visible' = IF source = "odoo" THEN visible ELSE visible \cup {r}
      /\ source \in ById => \A q \in 1..(r - 1) : stamp[q] > 0
  BY DEF Stamps, drainVars
<1>2. /\ \A q \in Rec : q # r => stamp'[q] = stamp[q] /\ Pos(q)' = Pos(q)
      /\ stamp'[r] = clock /\ clock > 0
  BY <1>0, <1>1, PollingTypes DEF Pos
<1>3. /\ \A w \in PollWorker : polled[w] \subseteq Rec /\ r \notin polled[w]
      /\ \A w \in PollWorker : \A q \in polled[w] : q \in Rec /\ q # r /\ stamp[q] > 0 /\ stamp'[q] = stamp[q] /\ stamp[q] \in Nat
      /\ source \in Source /\ pollCursor \in Position
  BY <1>0, <1>1, <1>2, PollingTypes DEF PollingTypeOK
<1>5. \A q \in Rec : source \in ById /\ stamp[q] > 0 => q < r
  <2> SUFFICES ASSUME NEW q \in Rec, source \in ById, stamp[q] > 0 PROVE q < r
    OBVIOUS
  <2>1. ~(r < q)
    BY <1>0, <1>1 DEF SourceSound
  <2> QED BY <1>0, <1>1, <2>1, PollingTypes
<1>6. SourceSound'
  <2>1. \A q \in Rec : stamp'[q] <= clock'
    BY <1>0, <1>1, <1>2, PollingTypes DEF SourceSound
  <2>2. source' # "odoo" => \A q \in Rec : stamp'[q] > 0 => q \in (visible \cup gone)'
    BY <1>0, <1>1, <1>2 DEF SourceSound
  <2>3. source' = "odoo" =>
          \A q \in Rec \ (visible \cup gone)' : stamp'[q] > 0 => clock' < stamp'[q] + Settle
    BY <1>0, <1>1, <1>2, PollingTypes DEF SourceSound
  <2>4. ASSUME source' \in ById, NEW p \in Rec, NEW q \in Rec, p < q, stamp'[q] > 0
        PROVE  stamp'[p] > 0 /\ stamp'[p] <= stamp'[q]
    <3>1. CASE q = r
      <4>1. p \in 1..(r - 1) /\ p # r
        BY <1>0, <2>4, <3>1, PollingTypes
      <4> QED BY <1>0, <1>1, <1>2, <2>4, <3>1, <4>1 DEF SourceSound
    <3>2. CASE q # r
      <4>1. q < r /\ p # r
        BY <1>0, <1>1, <1>2, <1>5, <2>4, <3>2, PollingTypes
      <4> QED BY <1>0, <1>1, <1>2, <2>4, <3>2, <4>1 DEF SourceSound
    <3> QED BY <3>1, <3>2
  <2> QED BY <2>1, <2>2, <2>3, <2>4 DEF SourceSound
<1>7. CursorSound'
  <2>1. pollCursor[2] \in Rec /\ stamp[pollCursor[2]] > 0 => stamp'[pollCursor[2]] > 0
    BY <1>1, <1>2
  <2> QED BY <1>0, <1>1, <2>1 DEF CursorSound, OfKind
<1>8. ASSUME NEW w \in PollWorker, DrainSound(w), NEW q \in polled[w]
      PROVE  After(Pos(r)', Pos(q)') /\ stamp[q] <= clock
  <2>1. q \in Rec /\ q # r /\ stamp[q] > 0 /\ stamp'[q] = stamp[q] /\ stamp[q] \in Nat
    BY <1>3
  <2>2. stamp[q] <= clock
    BY <1>0, <2>1 DEF SourceSound
  <2>3. CASE source \in ById
    <3>1. Pos(r)' = <<0, r>> /\ Pos(q)' = <<0, q>>
      BY <1>1, <2>3 DEF Pos
    <3> QED BY <1>5, <2>1, <2>2, <2>3, <3>1 DEF After
  <2>4. CASE source \notin ById
    <3>1. Pos(r)'[1] = clock /\ Pos(q)'[1] = stamp[q]
      BY <1>1, <1>2, <2>1, <2>4 DEF Pos
    <3>2. stamp[q] < clock
      BY <1>8, <2>4 DEF DrainSound
    <3> QED BY <1>0, <2>1, <2>2, <3>1, <3>2, PollingTypes DEF After
  <2> QED BY <2>3, <2>4
<1>9. After(Pos(r)', pollCursor')
  <2>1. CASE source \in ById
    <3>1. Pos(r)' = <<0, r>>
      BY <1>1, <2>1 DEF Pos
    <3>2. pollCursor[1] = 0 /\ pollCursor[2] < r
      BY <1>0, <1>5, <2>1, PollingTypes DEF CursorSound, OfKind
    <3> QED BY <1>1, <3>1, <3>2 DEF After
  <2>2. CASE source \notin ById
    <3>1. Pos(r)'[1] = clock
      BY <1>1, <1>2, <2>2 DEF Pos
    <3> QED BY <1>0, <1>1, <2>2, <3>1, PollingTypes DEF After, CursorSound
  <2> QED BY <2>1, <2>2
<1>10. \A q : q \in Owed' => q = r \/ (q \in Rec /\ q # r /\ q \in Owed)
  BY <1>1, <1>2 DEF Owed, Unstarted
<1>11. \A q : q \in Ahead' => q = r \/ (q \in Rec /\ q # r /\ q \in Ahead)
  BY <1>1, <1>2, <1>10 DEF Ahead
<1>12. \A q : q \in Owed' /\ q \notin Ahead' => q \in Owed /\ q \notin Ahead
  BY <1>1, <1>2, <1>9, <1>10 DEF Ahead
<1>13. Covered'
  <2>1. source' \notin ByStamp => Owed' \subseteq Ahead'
    BY <1>0, <1>1, <1>12 DEF Covered
  <2> QED BY <1>0, <1>1, <1>12, <2>1 DEF Covered
<1>14. ASSUME NEW w \in PollWorker PROVE DrainSound(w)'
  <2>0. DrainSound(w)
    BY DEF PollingInv
  <2>1. OfKind(after[w])' /\ \A q \in polled'[w] : source' \notin ById => stamp'[q] < clock'
    BY <1>1, <1>3, <2>0 DEF DrainSound, OfKind
  <2>2. pollPc'[w] = "idle" => polled'[w] = {}
    BY <1>1, <2>0 DEF DrainSound
  <2>4. ASSUME pollPc'[w] = "reading", NEW q \in polled'[w], NEW u \in Ahead', u \notin polled'[w]
        PROVE  stamp'[q] <= stamp'[u]
    <3>1. q \in polled[w] /\ u \notin polled[w] /\ stamp'[q] = stamp[q]
      BY <1>1, <1>3, <2>4
    <3>2. CASE u = r
      BY <1>2, <1>8, <2>0, <3>1, <3>2
    <3>3. CASE u # r
      <4>1. u \in Ahead /\ stamp'[u] = stamp[u]
        BY <1>2, <1>11, <2>4, <3>3
      <4> QED BY <1>1, <2>0, <2>4, <3>1, <4>1 DEF DrainSound
    <3> QED BY <3>2, <3>3
  <2>5. ASSUME pollPc'[w] = "starting", NEW q \in polled'[w], NEW u \in Ahead', u \notin polled'[w]
        PROVE  After(Pos(u)', Pos(q)')
    <3>1. q \in polled[w] /\ u \notin polled[w] /\ Pos(q)' = Pos(q)
      BY <1>1, <1>2, <1>3, <2>5
    <3>2. CASE u = r
      BY <1>8, <2>0, <3>1, <3>2
    <3>3. CASE u # r
      <4>1. u \in Ahead /\ Pos(u)' = Pos(u)
        BY <1>2, <1>11, <2>5, <3>3
      <4> QED BY <1>1, <2>0, <2>5, <3>1, <4>1 DEF DrainSound
    <3> QED BY <3>2, <3>3
  <2>6. pollPc'[w] = "reading" => ~After(after'[w], pollCursor')
    BY <1>1, <2>0 DEF DrainSound
  <2> QED BY <2>1, <2>2, <2>4, <2>5, <2>6 DEF DrainSound
<1> QED BY <1>6, <1>7, <1>13, <1>14 DEF PollingInv

\* As long as no record gets a stamp, fewer need a run and fewer are ahead.
LEMMA OwedShrinks ==
  ASSUME PollingTypeOK, PollingTypeOK', source' = source, stamp' = stamp,
         gone \subseteq gone', startedRecs \subseteq startedRecs', slipped \subseteq slipped',
         pollCursor' = pollCursor \/ After(pollCursor', pollCursor)
  PROVE  /\ Owed' \subseteq Owed /\ Ahead' \subseteq Ahead
         /\ \A q : Pos(q)' = Pos(q)
         /\ \A p : OfKind(p)' = OfKind(p)
         /\ \A r : r \in Owed' /\ r \notin Ahead' => ~After(Pos(r), pollCursor')
         /\ pollCursor' = pollCursor =>
              \A r : r \in Owed' /\ r \notin Ahead' => r \in Owed /\ r \notin Ahead
<1>1. Owed' \subseteq Owed /\ Owed \subseteq Rec
  BY DEF Owed, Unstarted
<1>2. \A q : Pos(q)' = Pos(q)
  BY DEF Pos
<1>3. ASSUME NEW r \in Ahead' PROVE r \in Ahead
  <2>1. r \in Owed /\ r \in Rec /\ After(Pos(r), pollCursor')
    BY <1>1, <1>2 DEF Ahead
  <2>2. Pos(r) \in Position /\ pollCursor \in Position /\ pollCursor' \in Position
    BY <2>1, Positions DEF PollingTypeOK
  <2>3. After(Pos(r), pollCursor)
    BY <2>1, <2>2, AfterOrder
  <2> QED BY <2>1, <2>3 DEF Ahead
<1>4. \A p : OfKind(p)' = OfKind(p)
  BY DEF OfKind
<1>5. \A r : r \in Owed' /\ r \notin Ahead' => r \in Owed /\ ~After(Pos(r), pollCursor')
  BY <1>1, <1>2 DEF Ahead
<1> QED BY <1>1, <1>2, <1>3, <1>4, <1>5 DEF Ahead

\* A worker that takes no step keeps its batch.
LEMMA DrainStays ==
  ASSUME PollingTypeOK, PollingTypeOK', NEW w \in PollWorker, DrainSound(w),
         source' = source, stamp' = stamp, clock' >= clock,
         gone \subseteq gone', startedRecs \subseteq startedRecs', slipped \subseteq slipped',
         pollCursor' = pollCursor \/ After(pollCursor', pollCursor),
         pollPc'[w] = pollPc[w], after'[w] = after[w], polled'[w] = polled[w]
  PROVE  DrainSound(w)'
<1>1. /\ Ahead' \subseteq Ahead /\ \A q : Pos(q)' = Pos(q)
      /\ \A p : OfKind(p)' = OfKind(p)
  BY OwedShrinks
<1>2. OfKind(after[w])'
  BY <1>1 DEF DrainSound, OfKind
<1>3. \A q \in polled[w] : stamp[q] \in Nat
  BY PollingTypes
<1>4. clock \in Nat /\ clock' \in Nat
  BY PollingAssumption DEF PollingTypeOK
<1>5. \A q \in polled'[w] : source' \notin ById => stamp'[q] < clock'
  BY <1>3, <1>4 DEF DrainSound
<1>6. ASSUME pollPc'[w] = "reading" PROVE ~After(after'[w], pollCursor')
  <2>1. ~After(after[w], pollCursor)
    BY <1>6 DEF DrainSound
  <2>2. after[w] \in Position /\ pollCursor \in Position /\ pollCursor' \in Position
    BY DEF PollingTypeOK
  <2> QED BY <2>1, <2>2, AfterOrder
<1> QED BY <1>1, <1>2, <1>5, <1>6 DEF DrainSound

\* The source stays sound while the records are what they were.
LEMMA SourceStays ==
  ASSUME PollingTypeOK, PollingTypeOK', SourceSound, source' = source, stamp' = stamp,
         visible \cup gone \subseteq visible' \cup gone', clock' >= clock,
         source = "odoo" => \A q \in Rec \ (visible \cup gone) :
                              stamp[q] > 0 => clock' < stamp[q] + Settle
  PROVE  SourceSound'
<1>1. clock \in Nat /\ clock' \in Nat /\ stamp \in [Rec -> Nat]
  BY PollingAssumption DEF PollingTypeOK
<1> QED BY <1>1 DEF SourceSound

\* A cursor of the past stays one.
LEMMA CursorStays ==
  ASSUME PollingTypeOK, PollingTypeOK', CursorSound, source' = source, stamp' = stamp,
         clock' >= clock, pollCursor' = pollCursor
  PROVE  CursorSound'
<1>1. clock \in Nat /\ clock' \in Nat /\ pollCursor[1] \in Nat
  BY PollingTypes DEF PollingTypeOK
<1> QED BY <1>1 DEF CursorSound, OfKind

\* A step that leaves the stamps and the drains alone.
LEMMA RecordSteps ==
  ASSUME PollingInv, PollingTypeOK',
         Tick \/ \E r \in Rec : CommitsRecord(r) \/ Leaves(r)
  PROVE  PollingInv'
<1>0. PollingTypeOK /\ SourceSound /\ CursorSound /\ Covered
  BY DEF PollingInv
<1>1. /\ source' = source /\ stamp' = stamp /\ pollCursor' = pollCursor
      /\ polled' = polled /\ pollPc' = pollPc /\ after' = after
      /\ startedRecs' = startedRecs /\ slipped' = slipped /\ gone \subseteq gone'
      /\ visible \cup gone \subseteq visible' \cup gone' /\ clock' >= clock
      /\ source = "odoo" => \A q \in Rec \ (visible \cup gone) :
                              stamp[q] > 0 => clock' < stamp[q] + Settle
  <2>0. clock \in Nat /\ stamp \in [Rec -> Nat]
    BY <1>0, PollingTypes
  <2>1. CASE Tick
    BY <2>0, <2>1 DEF Tick, drainVars
  <2>2. CASE \E r \in Rec : CommitsRecord(r) \/ Leaves(r)
    BY <1>0, <2>0, <2>2 DEF CommitsRecord, Leaves, drainVars, SourceSound
  <2> QED BY <2>1, <2>2
<1>2. SourceSound' /\ CursorSound'
  BY <1>0, <1>1, SourceStays, CursorStays
<1>3. Covered'
  <2>1. \A r : r \in Owed' /\ r \notin Ahead' => r \in Owed /\ r \notin Ahead
    BY <1>0, <1>1, OwedShrinks
  <2> QED BY <1>0, <1>1, <2>1 DEF Covered
<1>4. ASSUME NEW w \in PollWorker PROVE DrainSound(w)'
  BY <1>0, <1>1, DrainStays DEF PollingInv
<1> QED BY <1>2, <1>3, <1>4 DEF PollingInv

\* A step of one worker that does not move the cursor, and after which its
\* batch is as it should be.
LEMMA WorkerSteps ==
  ASSUME PollingInv, PollingTypeOK', NEW w \in PollWorker,
         source' = source, stamp' = stamp, visible' = visible, gone' = gone,
         pollCursor' = pollCursor, clock' >= clock, source = "odoo" => clock' = clock,
         startedRecs \subseteq startedRecs', slipped \subseteq slipped',
         \A x \in PollWorker \ {w} :
            pollPc'[x] = pollPc[x] /\ after'[x] = after[x] /\ polled'[x] = polled[x],
         pollPc[w] = "starting" => \A r \in polled[w] \ Ahead' : r \notin Owed',
         DrainSound(w)'
  PROVE  PollingInv'
<1>0. PollingTypeOK /\ SourceSound /\ CursorSound /\ Covered
  BY DEF PollingInv
<1>1. SourceSound'
  <2>1. source = "odoo" => \A q \in Rec \ (visible \cup gone) :
                              stamp[q] > 0 => clock' < stamp[q] + Settle
    BY <1>0 DEF SourceSound
  <2> QED BY <1>0, <2>1, SourceStays
<1>2. CursorSound'
  BY <1>0, CursorStays
<1>3. Covered'
  <2>1. \A r : r \in Owed' /\ r \notin Ahead' => r \in Owed /\ r \notin Ahead
    BY <1>0, OwedShrinks
  <2>2. ASSUME NEW r \in Owed' \ Ahead'
        PROVE  \E x \in PollWorker : pollPc'[x] = "starting" /\ r \in polled'[x]
    <3>1. PICK x \in PollWorker : pollPc[x] = "starting" /\ r \in polled[x]
      BY <1>0, <2>1 DEF Covered
    <3>2. x # w
      BY <3>1
    <3> QED BY <3>1, <3>2
  <2> QED BY <1>0, <2>1, <2>2 DEF Covered
<1>4. ASSUME NEW x \in PollWorker PROVE DrainSound(x)'
  <2>1. CASE x = w
    BY <2>1
  <2>2. CASE x # w
    <3>1. pollPc'[x] = pollPc[x] /\ after'[x] = after[x] /\ polled'[x] = polled[x]
      BY <2>2
    <3>2. DrainSound(x)
      BY DEF PollingInv
    <3> QED BY <1>0, <3>1, <3>2, DrainStays
  <2> QED BY <2>1, <2>2
<1> QED BY <1>1, <1>2, <1>3, <1>4 DEF PollingInv

\* A cursor that was read, a poll that failed and a batch that was drained or
\* given up lose no record in another way.
LEMMA DrainSteps ==
  ASSUME PollingInv, PollingTypeOK', NEW w \in PollWorker,
         ReadsCursor(w) \/ PollErrs(w) \/ Drained(w) \/ DrainStops(w)
           \/ \E r \in Rec : CursorNotMoved(w, r)
  PROVE  PollingInv'
<1>0. PollingTypeOK /\ CursorSound /\ Covered /\ DrainSound(w)
  BY DEF PollingInv
<1>1. /\ source' = source /\ clock' = clock /\ stamp' = stamp /\ visible' = visible
      /\ gone' = gone /\ pollCursor' = pollCursor
      /\ startedRecs \subseteq startedRecs' /\ slipped \subseteq slipped'
  BY DEF ReadsCursor, PollErrs, Drained, DrainStops, CursorNotMoved, GivesUp, pollingSource
<1>2. \A x \in PollWorker \ {w} :
         pollPc'[x] = pollPc[x] /\ after'[x] = after[x] /\ polled'[x] = polled[x]
  BY <1>0 DEF ReadsCursor, PollErrs, Drained, DrainStops, CursorNotMoved, GivesUp, PollingTypeOK
<1>3. polled'[w] = {} /\ pollPc'[w] \in {"idle", "reading"}
  <2>1. CASE ReadsCursor(w)
    BY <1>0, <2>1 DEF ReadsCursor, DrainSound, PollingTypeOK
  <2>2. CASE Drained(w)
    BY <1>0, <2>2 DEF Drained, PollingTypeOK
  <2>3. CASE PollErrs(w) \/ DrainStops(w) \/ \E r \in Rec : CursorNotMoved(w, r)
    BY <1>0, <2>3 DEF PollErrs, DrainStops, CursorNotMoved, GivesUp, PollingTypeOK
  <2> QED BY <2>1, <2>2, <2>3
<1>4. OfKind(after[w])' /\ (pollPc'[w] = "reading" => ~After(after'[w], pollCursor'))
  <2>1. CASE ReadsCursor(w)
    <3>1. after'[w] = pollCursor
      BY <1>0, <2>1 DEF ReadsCursor, PollingTypeOK
    <3>2. pollCursor \in Position
      BY <1>0 DEF PollingTypeOK
    <3>3. ~After(pollCursor, pollCursor)
      BY <3>2, AfterOrder
    <3> QED BY <1>0, <1>1, <3>1, <3>3 DEF CursorSound, OfKind
  <2>2. CASE PollErrs(w)
    <3>1. after'[w] = <<0, 0>> /\ pollPc'[w] = "idle"
      BY <1>0, <2>2 DEF PollErrs, PollingTypeOK
    <3> QED BY <3>1 DEF OfKind
  <2>3. CASE Drained(w) \/ DrainStops(w) \/ \E r \in Rec : CursorNotMoved(w, r)
    <3>1. after'[w] = after[w] /\ pollPc'[w] = "idle"
      BY <1>0, <2>3 DEF Drained, DrainStops, CursorNotMoved, GivesUp, PollingTypeOK
    <3> QED BY <1>0, <1>1, <3>1 DEF DrainSound, OfKind
  <2> QED BY <2>1, <2>2, <2>3
<1>5. DrainSound(w)'
  BY <1>3, <1>4 DEF DrainSound
<1>6. ASSUME pollPc[w] = "starting", NEW r \in polled[w], r \notin Ahead', r \in Owed'
      PROVE  FALSE
  <2>1. /\ Owed' \subseteq Owed /\ ~After(Pos(r), pollCursor)
        /\ r \in Owed /\ r \notin Ahead
    BY <1>0, <1>1, <1>6, OwedShrinks
  <2>2. source \in ByStamp
    BY <1>0, <2>1 DEF Covered
  <2>3. r \notin slipped'
    BY <1>1, <1>6, <2>2 DEF Owed
  <2>4. CASE ReadsCursor(w) \/ PollErrs(w)
    BY <1>6, <2>4 DEF ReadsCursor, PollErrs
  <2>5. CASE Drained(w)
    BY <1>6, <2>5 DEF Drained
  <2>6. CASE DrainStops(w) \/ \E q \in Rec : CursorNotMoved(w, q)
    BY <2>1, <2>3, <2>6 DEF DrainStops, CursorNotMoved, GivesUp
  <2> QED BY <2>4, <2>5, <2>6
<1>7. clock' >= clock
  BY <1>0, <1>1, PollingTypes
<1>8. pollPc[w] = "starting" => \A r \in polled[w] \ Ahead' : r \notin Owed'
  BY <1>6
<1> QED BY <1>1, <1>2, <1>5, <1>7, <1>8, WorkerSteps

\* What an answer leaves as it was.
LEMMA AnswersKeep ==
  ASSUME PollingTypeOK, NEW w \in PollWorker, NEW pc, NEW n, NEW b, Answered(w, pc, n, b)
  PROVE  /\ source' = source /\ stamp' = stamp /\ visible' = visible /\ gone' = gone
         /\ pollCursor' = pollCursor /\ startedRecs' = startedRecs
         /\ clock' >= clock /\ (source = "odoo" => clock' = clock)
         /\ source # "odoo" => clock' = clock + 1
         /\ \A x \in PollWorker \ {w} :
              pollPc'[x] = pollPc[x] /\ after'[x] = after[x] /\ polled'[x] = polled[x]
         /\ pollPc'[w] = pc /\ polled'[w] = b
         /\ after'[w] = IF pc = "reading" THEN after[w] ELSE <<0, 0>>
<1>1. clock \in Nat
  BY PollingTypes
<1>2. clock' >= clock /\ (source = "odoo" => clock' = clock) /\ (source # "odoo" => clock' = clock + 1)
  BY <1>1 DEF Answered
<1>3. /\ source' = source /\ stamp' = stamp /\ visible' = visible /\ gone' = gone
      /\ pollCursor' = pollCursor /\ startedRecs' = startedRecs
  BY DEF Answered
<1>4. /\ \A x \in PollWorker \ {w} :
           pollPc'[x] = pollPc[x] /\ after'[x] = after[x] /\ polled'[x] = polled[x]
      /\ pollPc'[w] = pc /\ polled'[w] = b
      /\ after'[w] = IF pc = "reading" THEN after[w] ELSE <<0, 0>>
  BY DEF Answered, PollingTypeOK
<1> QED BY <1>2, <1>3, <1>4

\* What is still ahead after an answer was ahead, and new to the cursor that
\* the worker had read.
LEMMA AheadIsNew ==
  ASSUME PollingInv, PollingTypeOK', NEW w \in PollWorker, pollPc[w] = "reading",
         source' = source, stamp' = stamp, gone' = gone, pollCursor' = pollCursor,
         startedRecs' = startedRecs, slipped \subseteq slipped'
  PROVE  /\ Ahead' \subseteq Ahead /\ Ahead' \subseteq NewRecs(after[w])
         /\ source \in ByStamp => \A r \in Ahead' : r \notin slipped'
<1>0. PollingTypeOK /\ DrainSound(w)
  BY DEF PollingInv
<1>1. Ahead' \subseteq Ahead
  BY <1>0, OwedShrinks
<1>2. ASSUME NEW r \in Ahead' PROVE r \in NewRecs(after[w])
  <2>1. r \in Rec /\ stamp[r] > 0 /\ r \notin gone /\ After(Pos(r), pollCursor)
    BY <1>1 DEF Ahead, Owed, Unstarted
  <2>2. ~After(after[w], pollCursor)
    BY <1>0 DEF DrainSound
  <2>3. Pos(r) \in Position /\ pollCursor \in Position /\ after[w] \in Position
    BY <1>0, <2>1, Positions DEF PollingTypeOK
  <2>4. After(Pos(r), after[w])
    BY <2>1, <2>2, <2>3, AfterOrder
  <2> QED BY <2>1, <2>4 DEF NewRecs
<1>3. source \in ByStamp => \A r \in Ahead' : r \notin slipped'
  BY DEF Ahead, Owed
<1> QED BY <1>1, <1>2, <1>3

\* A poll takes a whole batch.
LEMMA PollsStep ==
  ASSUME PollingInv, PollingTypeOK', NEW w \in PollWorker, Polls(w)
  PROVE  PollingInv'
<1> DEFINE p == after[w]
<1>0. PollingTypeOK /\ SourceSound /\ DrainSound(w) /\ p \in Position /\ OfKind(p)
  BY DEF PollingInv, DrainSound, PollingTypeOK
<1>1. /\ Answered(w, "starting", 0, Batch(p)) /\ slipped' = slipped \cup Overflow(p)
      /\ pollPc[w] = "reading" /\ source # "sap"
      /\ source = "salesforce" => PagesRead(p) # {}
  BY DEF Polls
<1>2. /\ source' = source /\ stamp' = stamp /\ visible' = visible /\ gone' = gone
      /\ pollCursor' = pollCursor /\ startedRecs' = startedRecs
      /\ clock' >= clock /\ (source = "odoo" => clock' = clock)
      /\ source # "odoo" => clock' = clock + 1
      /\ \A x \in PollWorker \ {w} :
           pollPc'[x] = pollPc[x] /\ after'[x] = after[x] /\ polled'[x] = polled[x]
      /\ pollPc'[w] = "starting" /\ polled'[w] = Batch(p) /\ after'[w] = <<0, 0>>
  BY <1>0, <1>1, AnswersKeep
<1> HIDE DEF p
<1>3. /\ WholeBatch(Batch(p), p, Overflow(p))
      /\ source = "odoo" => \A q \in Batch(p) : stamp[q] < clock
  BY <1>0, <1>1, BatchesWhole
<1>4. /\ Ahead' \subseteq NewRecs(p)
      /\ source \in ByStamp => \A r \in Ahead' : r \notin slipped'
  BY <1>1, <1>2, AheadIsNew DEF p
<1>5. Overflow(p) # {} => source \in ByStamp
  BY DEF Overflow, RestCut, ByStamp
<1>6. \A q \in Batch(p), r \in Ahead' \ Batch(p) : After(Pos(r), Pos(q))
  BY <1>1, <1>3, <1>4, <1>5 DEF WholeBatch
<1>7. ASSUME NEW q \in Batch(p) PROVE stamp[q] < clock'
  <2>1. q \in Rec /\ stamp[q] \in Nat /\ clock \in Nat /\ stamp[q] <= clock
    BY <1>0, <1>3, PollingTypes DEF WholeBatch, SourceSound
  <2> QED BY <1>2, <1>3, <2>1
<1>8. DrainSound(w)'
  <2>1. \A q : Pos(q)' = Pos(q)
    BY <1>2 DEF Pos
  <2>2. OfKind(after[w])'
    BY <1>2 DEF OfKind
  <2> QED BY <1>2, <1>6, <1>7, <2>1, <2>2 DEF DrainSound
<1>9. slipped \subseteq slipped' /\ startedRecs \subseteq startedRecs' /\ pollPc[w] # "starting"
  BY <1>1, <1>2
<1> QED BY <1>2, <1>8, <1>9, WorkerSteps

\* A page of SAP's list: what has moved up into the pages before is lost, and
\* nothing else is left behind the batch.
LEMMA SapStep ==
  ASSUME PollingInv, PollingTypeOK', NEW w \in PollWorker, SapReads(w)
  PROVE  PollingInv'
<1> DEFINE p == after[w]
           N == (page[w] + 1) * PollLimit
           L == Lists(p)
           s == polled[w] \cup (FirstOf(L, N) \ SkippedPages(w))
<1>0. /\ PollingTypeOK /\ SourceSound /\ DrainSound(w) /\ p \in Position /\ OfKind(p)
      /\ page[w] \in Nat /\ polled[w] \subseteq Rec
  BY PollingTypes DEF PollingInv, DrainSound, PollingTypeOK
<1>1. /\ \/ ~SapFull(w) /\ Answered(w, "starting", 0, s)
         \/ Answered(w, "starting", 0, Boundary(s))
         \/ Answered(w, "reading", page[w] + 1, s)
      /\ slipped' = slipped \cup (SkippedPages(w) \ polled[w])
      /\ pollPc[w] = "reading" /\ source = "sap"
  BY DEF SapReads
<1>2. N \in Nat /\ source \in ByStamp /\ source \notin ById /\ source # "odoo" /\ source # "xero"
  BY <1>0, <1>1, PollingTypes DEF ByStamp, ById
<1>3. L = NewRecs(p) /\ L \in SUBSET Rec
  BY <1>0, <1>2, NewIsListed
<1>4. /\ FirstOf(L, N) \subseteq L
      /\ \A q \in FirstOf(L, N), r \in L \ FirstOf(L, N) : Listed(q, r)
      /\ Cardinality(L) <= N => FirstOf(L, N) = L
  BY <1>0, <1>2, <1>3, FirstOnes
<1>5. ~SapFull(w) => FirstOf(L, N) = L
  <2>1. Cardinality(L) \in Nat
    BY <1>0, <1>3, SetsOfRecs
  <2>2. ~SapFull(w) => Cardinality(L) < N
    BY <1>2, <2>1 DEF SapFull
  <2> QED BY <1>2, <1>4, <2>1, <2>2
<1> HIDE DEF p, N, L
<1>6. s \subseteq Rec /\ Boundary(s) \subseteq s
  BY <1>0, <1>3, <1>4 DEF Boundary
<1>7. PICK pc, n, b :
        /\ Answered(w, pc, n, b) /\ b \subseteq s
        /\ \/ ~SapFull(w) /\ pc = "starting" /\ b = s
           \/ pc = "starting" /\ b = Boundary(s)
           \/ pc = "reading" /\ b = s
  BY <1>1, <1>6
<1>8. /\ source' = source /\ stamp' = stamp /\ visible' = visible /\ gone' = gone
      /\ pollCursor' = pollCursor /\ startedRecs' = startedRecs
      /\ clock' >= clock /\ clock' = clock + 1
      /\ \A x \in PollWorker \ {w} :
           pollPc'[x] = pollPc[x] /\ after'[x] = after[x] /\ polled'[x] = polled[x]
      /\ pollPc'[w] = pc /\ polled'[w] = b
      /\ after'[w] = IF pc = "reading" THEN after[w] ELSE <<0, 0>>
  BY <1>0, <1>2, <1>7, AnswersKeep
<1>9. Ahead' \subseteq Ahead /\ Ahead' \subseteq L /\ \A r \in Ahead' : r \notin slipped'
  BY <1>1, <1>2, <1>3, <1>8, AheadIsNew DEF p
<1>10. ASSUME NEW r \in Ahead', r \notin s
       PROVE  r \in L /\ r \in Ahead /\ r \notin polled[w] /\ r \notin FirstOf(L, N)
  BY <1>1, <1>9, <1>10
<1>11. ASSUME NEW q \in s, NEW r \in Ahead', r \notin s PROVE stamp[q] <= stamp[r]
  <2>1. CASE q \in polled[w]
    BY <1>0, <1>1, <1>10, <1>11, <2>1 DEF DrainSound
  <2>2. CASE q \in FirstOf(L, N)
    <3>1. Listed(q, r) /\ q \in Rec /\ r \in Rec
      BY <1>3, <1>4, <1>10, <1>11, <2>2
    <3> QED BY <1>0, <3>1, ListOrder
  <2> QED BY <1>11, <2>1, <2>2
<1>12. ~SapFull(w) => Ahead' \subseteq s
  BY <1>5, <1>10
<1> HIDE DEF s
<1>13. ASSUME NEW q \in Boundary(s), NEW r \in Ahead', r \notin Boundary(s)
       PROVE  After(Pos(r), Pos(q))
  <2>1. PICK u \in s : stamp[u] > stamp[q]
    BY <1>13 DEF Boundary
  <2>2. q \in Rec /\ u \in Rec /\ r \in Rec
    BY <1>3, <1>6, <1>9, <1>13
  <2>3. stamp[q] \in Nat /\ stamp[u] \in Nat /\ stamp[r] \in Nat
    BY <1>0, <2>2, PollingTypes
  <2>4. stamp[u] <= stamp[r]
    <3>1. CASE r \in s
      BY <1>13, <2>3, <3>1 DEF Boundary
    <3>2. CASE r \notin s
      BY <1>11, <3>2
    <3> QED BY <3>1, <3>2
  <2> QED BY <1>0, <1>2, <2>1, <2>2, <2>3, <2>4, Positions DEF After
<1>14. ASSUME NEW q \in b PROVE stamp[q] < clock'
  <2>1. q \in Rec /\ stamp[q] \in Nat /\ clock \in Nat /\ stamp[q] <= clock
    BY <1>0, <1>6, <1>7, PollingTypes DEF SourceSound
  <2> QED BY <1>8, <2>1
<1>15. DrainSound(w)'
  <2>1. \A q : Pos(q)' = Pos(q)
    BY <1>8 DEF Pos
  <2>2. OfKind(after[w])'
    BY <1>0, <1>8 DEF OfKind, p
  <2>3. pc = "reading" => ~After(after'[w], pollCursor')
    BY <1>0, <1>1, <1>8 DEF DrainSound
  <2>4. pc = "reading" => \A q \in b, r \in Ahead' \ b : stamp[q] <= stamp[r]
    BY <1>7, <1>11
  <2>5. pc = "starting" => \A q \in b, r \in Ahead' \ b : After(Pos(r), Pos(q))
    BY <1>7, <1>12, <1>13
  <2> QED BY <1>7, <1>8, <1>14, <2>1, <2>2, <2>3, <2>4, <2>5 DEF DrainSound
<1>16. slipped \subseteq slipped' /\ startedRecs \subseteq startedRecs' /\ pollPc[w] # "starting"
  BY <1>1, <1>8
<1> QED BY <1>2, <1>8, <1>15, <1>16, WorkerSteps

\* A run that starts moves the cursor to its record, or it was there before.
LEMMA StartsStep ==
  ASSUME PollingInv, PollingTypeOK', NEW w \in PollWorker, NEW r \in Rec, Starts(w, r)
  PROVE  PollingInv'
<1>0. PollingTypeOK /\ SourceSound /\ CursorSound /\ Covered /\ DrainSound(w)
  BY DEF PollingInv
<1>1. /\ source' = source /\ stamp' = stamp /\ visible' = visible /\ gone' = gone
      /\ clock' = clock /\ pollPc' = pollPc /\ after' = after /\ slipped' = slipped
      /\ startedRecs' = startedRecs \cup {r}
      /\ pollCursor' = IF After(Pos(r), pollCursor) THEN Pos(r) ELSE pollCursor
      /\ polled' = [polled EXCEPT ![w] = @ \ {r}]
      /\ pollPc[w] = "starting" /\ r \in polled[w]
      /\ \A q \in polled[w] : q = r \/ Listed(r, q)
  BY DEF Starts, First, pollingSource
<1>2. /\ stamp[r] > 0 /\ source \in Source /\ clock \in Nat /\ clock' >= clock
      /\ polled'[w] = polled[w] \ {r}
      /\ \A x \in PollWorker \ {w} : polled'[x] = polled[x]
      /\ pollCursor' = pollCursor \/ After(pollCursor', pollCursor)
  BY <1>0, <1>1, PollingTypes DEF PollingTypeOK
<1>3. SourceSound'
  BY <1>0, <1>1, <1>2 DEF SourceSound
<1>4. CursorSound'
  <2>1. CASE pollCursor' = pollCursor
    BY <1>0, <1>1, <1>2, <2>1, CursorStays
  <2>2. CASE pollCursor' = Pos(r)
    <3>1. source \notin ById => Pos(r)[1] = stamp[r] /\ stamp[r] < clock
      BY <1>0, <1>1, <1>2, Positions, SourcesDiffer DEF DrainSound
    <3> QED BY <1>0, <1>1, <1>2, <2>2, <3>1, Positions DEF CursorSound, OfKind
  <2> QED BY <1>1, <2>1, <2>2
<1>5. /\ Owed' \subseteq Owed /\ Ahead' \subseteq Ahead
      /\ \A q : Pos(q)' = Pos(q)
      /\ \A p : OfKind(p)' = OfKind(p)
      /\ \A q : q \in Owed' /\ q \notin Ahead' => ~After(Pos(q), pollCursor')
  BY <1>0, <1>1, <1>2, OwedShrinks
<1>6. r \notin Owed'
  BY <1>1 DEF Owed, Unstarted
<1>7. ASSUME NEW q \in Owed', q \notin Ahead', q \in Ahead
      PROVE  q \in polled[w] /\ q # r /\ source \in ByStamp
  <2>1. q # r /\ q \in Owed /\ q \in Rec /\ stamp[q] > 0
    BY <1>5, <1>6, <1>7 DEF Owed, Unstarted
  <2>2. pollCursor' = Pos(r) /\ ~After(Pos(q), Pos(r))
    BY <1>1, <1>5, <1>7, <2>1 DEF Ahead
  <2>3. q \in polled[w]
    BY <1>0, <1>1, <1>7, <2>2 DEF DrainSound
  <2>4. Listed(r, q)
    BY <1>1, <2>1, <2>3
  <2>5. CASE source \in ById
    <3>1. q > r
      BY <1>0, <1>2, <2>1, <2>4, <2>5, ListedById
    <3> QED BY <1>0, <2>1, <2>2, <2>5, <3>1, Positions DEF After
  <2>6. CASE source = "odoo"
    BY <1>0, <2>1, <2>2, <2>4, <2>6, Positions DEF After, Listed
  <2> QED BY <1>2, <2>1, <2>3, <2>5, <2>6, SourcesDiffer
<1>8. Covered'
  <2>1. ASSUME NEW q \in Owed', q \notin Ahead'
        PROVE  /\ source \in ByStamp
               /\ \E x \in PollWorker : pollPc'[x] = "starting" /\ q \in polled'[x]
    <3>1. q \in Owed /\ q # r
      BY <1>5, <1>6, <2>1
    <3>2. CASE q \in Ahead
      <4>1. q \in polled[w] /\ source \in ByStamp
        BY <1>7, <2>1, <3>2
      <4> QED BY <1>1, <1>2, <3>1, <4>1
    <3>3. CASE q \notin Ahead
      <4>1. source \in ByStamp
        BY <1>0, <3>1, <3>3 DEF Covered
      <4>2. PICK x \in PollWorker : pollPc[x] = "starting" /\ q \in polled[x]
        BY <1>0, <3>1, <3>3 DEF Covered
      <4>3. q \in polled'[x]
        BY <1>2, <3>1, <4>2
      <4> QED BY <1>1, <4>1, <4>2, <4>3
    <3> QED BY <3>2, <3>3
  <2> QED BY <1>1, <2>1 DEF Covered
<1>9. ASSUME NEW x \in PollWorker PROVE DrainSound(x)'
  <2>1. CASE x = w
    <3>1. OfKind(after[w])' /\ pollPc'[w] = "starting"
      BY <1>0, <1>1, <1>5 DEF DrainSound, OfKind
    <3>2. \A q \in polled'[w] : source' \notin ById => stamp'[q] < clock'
      BY <1>0, <1>1, <1>2 DEF DrainSound
    <3>3. ASSUME NEW q \in polled'[w], NEW u \in Ahead', u \notin polled'[w]
          PROVE  After(Pos(u)', Pos(q)')
      <4>1. u # r /\ u \in Ahead /\ u \notin polled[w] /\ q \in polled[w]
        BY <1>2, <1>5, <1>6, <3>3 DEF Ahead
      <4> QED BY <1>0, <1>1, <1>5, <4>1 DEF DrainSound
    <3> QED BY <2>1, <3>1, <3>2, <3>3 DEF DrainSound
  <2>2. CASE x # w
    <3>1. pollPc'[x] = pollPc[x] /\ after'[x] = after[x] /\ polled'[x] = polled[x] /\ DrainSound(x)
      BY <1>1, <1>2, <2>2 DEF PollingInv
    <3> QED BY <1>0, <1>1, <1>2, <3>1, DrainStays
  <2> QED BY <2>1, <2>2
<1> QED BY <1>3, <1>4, <1>8, <1>9 DEF PollingInv

\* A record that is there, matches the event and has no run yet is ahead of the
\* cursor or in a batch being drained, whatever the source lists, wherever a
\* poll's batch ends and however many workers drain (sap.go, salesforce.go,
\* odoo.go, rest.go Poll; runtime.go drain).  Odoo and the sources polled by ID
\* lose none; where a position is a time stamp alone, records are lost only in
\* the three ways that slipped records.
THEOREM RecordsAreNotSkipped == PollingSpec => []SkipsOnlyKnown
<1>1. PollingInv /\ [PollingNext]_pollingVars => PollingInv'
  <2> SUFFICES ASSUME PollingInv, [PollingNext]_pollingVars PROVE PollingInv'
    OBVIOUS
  <2>0. PollingTypeOK'
    BY PollingTypesStay DEF PollingInv
  <2>1. ASSUME NEW r \in Rec, Stamps(r) PROVE PollingInv'
    BY <2>0, <2>1, StampsStep
  <2>2. CASE Tick \/ \E r \in Rec : CommitsRecord(r) \/ Leaves(r)
    BY <2>0, <2>2, RecordSteps
  <2>3. ASSUME NEW w \in PollWorker, Polls(w) PROVE PollingInv'
    BY <2>0, <2>3, PollsStep
  <2>4. ASSUME NEW w \in PollWorker, SapReads(w) PROVE PollingInv'
    BY <2>0, <2>4, SapStep
  <2>5. ASSUME NEW w \in PollWorker, NEW r \in Rec, Starts(w, r) PROVE PollingInv'
    BY <2>0, <2>5, StartsStep
  <2>6. ASSUME NEW w \in PollWorker,
               ReadsCursor(w) \/ PollErrs(w) \/ Drained(w) \/ DrainStops(w)
                 \/ \E r \in Rec : CursorNotMoved(w, r)
        PROVE  PollingInv'
    BY <2>0, <2>6, DrainSteps
  <2>7. CASE UNCHANGED pollingVars
    BY <2>7, PollingStutters
  <2>8. CASE PollingNext
    BY <2>1, <2>2, <2>3, <2>4, <2>5, <2>6, <2>8 DEF PollingNext
  <2> QED BY <2>7, <2>8
<1>2. PollingInv => SkipsOnlyKnown
  <2> SUFFICES ASSUME PollingInv, NEW r \in Unstarted
               PROVE  Waiting(r) \/ (source \in ByStamp /\ r \in slipped)
    BY DEF SkipsOnlyKnown
  <2>1. CASE r \in Owed
    BY <2>1 DEF PollingInv, Covered, Ahead, Waiting
  <2>2. CASE r \notin Owed
    BY <2>2 DEF Owed
  <2> QED BY <2>1, <2>2
<1> QED BY <1>1, <1>2, PollingStarts, PTL DEF PollingSpec

-----------------------------------------------------------------------------
(* The types and the bounds of every part, and of the parts together. *)

\* Whatever the unit is, every part runs its own specification.
LEMMA PartsRun ==
  MCSpec => /\ TokensSpec /\ SessionsSpec /\ StreamsSpec /\ CdcSpec /\ PollingSpec
            /\ TargetWriteSpec /\ RemoteSpec /\ MetaSpec
<1>1. MCInit => /\ TokensInit /\ SessionsInit /\ StreamsInit /\ CdcInit /\ PollingInit
                /\ TargetWriteInit /\ RemoteInit /\ MetaInit
  BY DEF MCInit
<1>2. ASSUME [MCNext]_mcVars
      PROVE  /\ [TokensNext]_tokenVars /\ [SessionsNext]_sessionVars /\ [StreamsNext]_streamVars
             /\ [CdcNext]_cdcVars /\ [PollingNext]_pollingVars /\ [TargetWriteNext]_targetVars
             /\ [RemoteNext]_remoteVars /\ [MetaNext]_metaVars
  BY <1>2, Zenon DEF MCNext, UnitSteps, OthersStay, mcVars
<1> QED BY <1>1, <1>2, PTL DEF MCSpec, TokensSpec, SessionsSpec, StreamsSpec, CdcSpec,
           PollingSpec, TargetWriteSpec, RemoteSpec, MetaSpec

\* Every access token a worker or the store has was given out.
IssuedState == [refresh: Nat, access: 0..issued]
Rotations == [spent: Nat, state: IssuedState]
TokensTyped ==
  /\ TokensTypeOK /\ row \in IssuedState /\ found \in [TokenWorker -> IssuedState]
  /\ pending \in [TokenWorker -> Rotations]

\* Tokens are handed on and stored as they were given out.
LEMMA TokensHaveTypes == TokensSpec => []TokensTypeOK
<1>1. TokensInit => TokensTyped
  <2> SUFFICES ASSUME TokensInit PROVE TokensTyped
    OBVIOUS
  <2>1. issued = 0 /\ NoState \in IssuedState /\ NoState \in State
    BY DEF TokensInit, NoState, IssuedState, State
  <2>2. NoRotation \in Rotations /\ NoRotation \in [spent: Nat, state: State]
    BY <2>1 DEF NoRotation, Rotations
  <2>3. issued \in 0..MaxAccess /\ tokenFaults \in 0..MaxTokenFaults /\ 0 \in 0..issued /\ live \in Nat
    BY <2>1, TokensAssumption DEF TokensInit, Seed
  <2> QED BY <2>1, <2>2, <2>3 DEF TokensInit, TokensTyped, TokensTypeOK
<1>2. TokensTyped /\ [TokensNext]_tokenVars => TokensTyped'
  <2> SUFFICES ASSUME TokensTyped, [TokensNext]_tokenVars PROVE TokensTyped'
    OBVIOUS
  <2>0. /\ auth \in AuthKind /\ live \in Nat /\ issued \in Nat /\ issued <= MaxAccess
        /\ expired \subseteq 1..issued /\ row \in IssuedState
        /\ held \in [TokenWorker -> 0..issued] /\ rejected \in [TokenWorker -> 0..issued]
        /\ pending \in [TokenWorker -> Rotations]
        /\ tpc \in [TokenWorker -> {"idle", "grant", "store"}]
        /\ found \in [TokenWorker -> IssuedState]
        /\ lost \in BOOLEAN /\ unsound \in BOOLEAN /\ tokenFaults \in 0..MaxTokenFaults
    BY TokensAssumption DEF TokensTyped, TokensTypeOK
  <2>1. /\ \A n : n \in Nat /\ n >= issued =>
             /\ 0..issued \subseteq 0..n /\ 1..issued \subseteq 1..n
    BY <2>0
  \* What is to be shown of the next state.
  <2> DEFINE Typed(n) ==
        /\ auth' \in AuthKind /\ live' \in Nat
        /\ expired' \subseteq 1..n /\ row' \in [refresh: Nat, access: 0..n]
        /\ held' \in [TokenWorker -> 0..n] /\ rejected' \in [TokenWorker -> 0..n]
        /\ pending' \in [TokenWorker -> [spent: Nat, state: [refresh: Nat, access: 0..n]]]
        /\ tpc' \in [TokenWorker -> {"idle", "grant", "store"}]
        /\ found' \in [TokenWorker -> [refresh: Nat, access: 0..n]]
        /\ lost' \in BOOLEAN /\ unsound' \in BOOLEAN /\ tokenFaults' \in 0..MaxTokenFaults
  <2>2. ASSUME issued' \in Nat, issued' <= MaxAccess, Typed(issued') PROVE TokensTyped'
    <3>1. issued' \in 0..MaxAccess
      BY <2>2, TokensAssumption
    <3>2. [refresh: Nat, access: 0..issued'] \subseteq State
      BY <2>2 DEF State
    <3>3. [spent: Nat, state: [refresh: Nat, access: 0..issued']] \subseteq [spent: Nat, state: State]
      BY <3>2
    <3>4. /\ row' \in State /\ pending' \in [TokenWorker -> [spent: Nat, state: State]]
          /\ found' \in [TokenWorker -> State]
      BY <2>2, <3>2, <3>3
    <3> QED BY <2>2, <3>1, <3>4 DEF TokensTyped, TokensTypeOK, IssuedState, Rotations
  <2>3. \A w \in TokenWorker :
          /\ pending[w] \in Rotations /\ pending[w].state \in IssuedState /\ pending[w].spent \in Nat
          /\ found[w] \in IssuedState /\ found[w].access \in 0..issued /\ found[w].refresh \in Nat
          /\ held[w] \in 0..issued
    <3>1. \A w \in TokenWorker : pending[w] \in Rotations /\ found[w] \in IssuedState
      BY <2>0
    <3> QED BY <2>0, <3>1 DEF Rotations, IssuedState
  <2>4. NoState \in IssuedState /\ NoRotation \in Rotations /\ 0 \in 0..issued
    BY <2>0 DEF NoState, NoRotation, Rotations, IssuedState
  <2>5. Stored \in IssuedState
    BY <2>0 DEF Stored, IssuedState, Seed
  <2>6. ASSUME issued' = issued, Typed(issued) PROVE TokensTyped'
    BY <2>0, <2>2, <2>6
  \* One more token: what was given out still is.
  <2>7. ASSUME issued < MaxAccess, issued' = issued + 1
        PROVE  /\ issued' \in Nat /\ issued' <= MaxAccess /\ issued' \in 0..issued'
               /\ expired \subseteq 1..issued' /\ row \in [refresh: Nat, access: 0..issued']
               /\ held \in [TokenWorker -> 0..issued'] /\ rejected \in [TokenWorker -> 0..issued']
               /\ pending \in [TokenWorker -> [spent: Nat, state: [refresh: Nat, access: 0..issued']]]
               /\ found \in [TokenWorker -> [refresh: Nat, access: 0..issued']]
    <3>1. issued' \in Nat /\ issued' <= MaxAccess /\ issued' \in 0..issued' /\ issued' >= issued
      BY <2>0, <2>7, TokensAssumption
    <3>2. 0..issued \subseteq 0..issued' /\ 1..issued \subseteq 1..issued'
      BY <2>1, <3>1
    <3>3. IssuedState \subseteq [refresh: Nat, access: 0..issued']
      BY <3>2 DEF IssuedState
    <3>4. Rotations \subseteq [spent: Nat, state: [refresh: Nat, access: 0..issued']]
      BY <3>3 DEF Rotations
    <3> QED BY <2>0, <3>1, <3>2, <3>3, <3>4
  <2>8. ASSUME TokenFault PROVE tokenFaults' \in 0..MaxTokenFaults /\ unsound' \in BOOLEAN
    BY <2>0, <2>8, TokensAssumption DEF TokenFault
  <2>9. ASSUME NEW w \in TokenWorker, Refresh(w) PROVE TokensTyped'
    <3>1. Current(w) \in IssuedState
      BY <2>3, <2>5 DEF Current
    <3>2. found' \in [TokenWorker -> IssuedState] /\ pending' \in [TokenWorker -> Rotations]
      BY <2>0, <2>3, <2>4, <2>9, <3>1 DEF Refresh
    <3>3. tpc' \in [TokenWorker -> {"idle", "grant", "store"}]
      BY <2>0, <2>9 DEF Refresh
    <3> QED BY <2>0, <2>6, <2>9, <3>2, <3>3 DEF Refresh, serverVars, Rotations, IssuedState
  <2>10. ASSUME NEW w \in TokenWorker, Grant(w) PROVE TokensTyped'
    <3> DEFINE st == [refresh |-> live', access |-> issued']
    <3>1. /\ issued < MaxAccess /\ issued' = issued + 1 /\ live' \in {live, live + 1}
          /\ expired' = expired /\ found' = [found EXCEPT ![w] = st]
          /\ pending' = [pending EXCEPT ![w] = [spent |-> Supersede(w), state |-> st]]
          /\ tpc' = [tpc EXCEPT ![w] = "store"]
          /\ auth' = auth /\ row' = row /\ held' = held /\ rejected' = rejected
          /\ lost' = lost /\ unsound' = unsound /\ tokenFaults' = tokenFaults
      BY <2>10 DEF Grant, ServerGrants
    <3>2. live' \in Nat /\ Supersede(w) \in Nat
      BY <2>0, <2>3, <3>1 DEF Supersede
    <3>3. st \in [refresh: Nat, access: 0..issued']
      BY <2>7, <3>1, <3>2
    <3> HIDE DEF st
    <3>4. found' \in [TokenWorker -> [refresh: Nat, access: 0..issued']]
      BY <2>7, <3>1, <3>3
    <3>5. pending' \in [TokenWorker -> [spent: Nat, state: [refresh: Nat, access: 0..issued']]]
      BY <2>7, <3>1, <3>2, <3>3
    <3>6. tpc' \in [TokenWorker -> {"idle", "grant", "store"}]
      BY <2>0, <3>1
    <3>7. Typed(issued')
      BY <2>0, <2>7, <3>1, <3>2, <3>4, <3>5, <3>6
    <3> QED BY <2>2, <2>7, <3>1, <3>7
  <2>11. ASSUME NEW w \in TokenWorker, GrantRefused(w) PROVE TokensTyped'
    BY <2>0, <2>6, <2>11 DEF GrantRefused, serverVars, workerVars, Rotations, IssuedState
  <2>12. ASSUME NEW w \in TokenWorker, GrantFails(w) PROVE TokensTyped'
    <3>1. /\ tpc' \in [TokenWorker -> {"idle", "grant", "store"}] /\ lost' \in BOOLEAN
          /\ auth' = auth /\ row' = row /\ held' = held /\ rejected' = rejected
          /\ pending' = pending /\ found' = found
      BY <2>0, <2>12 DEF GrantFails, workerVars
    <3>2. tokenFaults' \in 0..MaxTokenFaults /\ unsound' \in BOOLEAN
      BY <2>8, <2>12 DEF GrantFails
    <3>3. CASE UNCHANGED serverVars
      BY <2>0, <2>6, <3>1, <3>2, <3>3 DEF serverVars, Rotations, IssuedState
    <3>4. CASE ServerGrants(w)
      <4>1. /\ issued < MaxAccess /\ issued' = issued + 1 /\ live' \in Nat /\ expired' = expired
        BY <2>0, <3>4 DEF ServerGrants
      <4>2. Typed(issued')
        BY <2>0, <2>7, <3>1, <3>2, <4>1
      <4> QED BY <2>2, <2>7, <4>1, <4>2
    <3> QED BY <2>12, <3>3, <3>4 DEF GrantFails
  <2>13. ASSUME NEW w \in TokenWorker, VaultStores(w) PROVE TokensTyped'
    <3>1. /\ row' \in IssuedState /\ held' \in [TokenWorker -> 0..issued]
          /\ pending' \in [TokenWorker -> Rotations]
          /\ tpc' \in [TokenWorker -> {"idle", "grant", "store"}]
      BY <2>0, <2>3, <2>4, <2>13 DEF VaultStores
    <3> QED BY <2>0, <2>6, <2>13, <3>1 DEF VaultStores, serverVars, Rotations, IssuedState
  <2>14. ASSUME NEW w \in TokenWorker, VaultFails(w) PROVE TokensTyped'
    <3>1. row' \in IssuedState /\ tpc' \in [TokenWorker -> {"idle", "grant", "store"}]
      BY <2>0, <2>3, <2>14 DEF VaultFails
    <3>2. tokenFaults' \in 0..MaxTokenFaults /\ unsound' \in BOOLEAN
      BY <2>8, <2>14 DEF VaultFails
    <3> QED BY <2>0, <2>6, <2>14, <3>1, <3>2 DEF VaultFails, serverVars, workerVars, Rotations, IssuedState
  <2>15. ASSUME NEW w \in TokenWorker, TokenWorkerDies(w) PROVE TokensTyped'
    <3>1. /\ held' \in [TokenWorker -> 0..issued] /\ rejected' \in [TokenWorker -> 0..issued]
          /\ pending' \in [TokenWorker -> Rotations] /\ lost' \in BOOLEAN
          /\ tpc' \in [TokenWorker -> {"idle", "grant", "store"}]
      BY <2>0, <2>4, <2>15 DEF TokenWorkerDies
    <3>2. tokenFaults' \in 0..MaxTokenFaults /\ unsound' \in BOOLEAN
      BY <2>8, <2>15 DEF TokenWorkerDies
    <3> QED BY <2>0, <2>6, <2>15, <3>1, <3>2 DEF TokenWorkerDies, serverVars, Rotations, IssuedState
  <2>16. ASSUME NEW w \in TokenWorker, ClientCredentials(w) \/ SessionLogin(w) \/ SalesforceLogin(w)
         PROVE TokensTyped'
    <3>1. /\ issued < MaxAccess /\ issued' = issued + 1 /\ held' = [held EXCEPT ![w] = issued']
          /\ UNCHANGED <<auth, live, expired, row, rejected, pending, tpc, found, lost, unsound,
                         tokenFaults>>
      BY <2>16 DEF ClientCredentials, SessionLogin, SalesforceLogin, LogsIn
    <3>2. held' \in [TokenWorker -> 0..issued']
      BY <2>7, <3>1
    <3>3. Typed(issued')
      BY <2>0, <2>7, <3>1, <3>2
    <3> QED BY <2>2, <2>7, <3>1, <3>3
  <2>17. ASSUME NEW w \in TokenWorker, Invalidate(w) PROVE TokensTyped'
    <3>1. held' \in [TokenWorker -> 0..issued] /\ rejected' \in [TokenWorker -> 0..issued]
      BY <2>0, <2>3, <2>4, <2>17 DEF Invalidate
    <3> QED BY <2>0, <2>6, <2>17, <3>1 DEF Invalidate, serverVars, Rotations, IssuedState
  <2>18. ASSUME NEW a \in 1..issued, Expire(a) PROVE TokensTyped'
    BY <2>0, <2>6, <2>18 DEF Expire, workerVars, Rotations, IssuedState
  <2>19. CASE UNCHANGED tokenVars
    BY <2>0, <2>6, <2>19 DEF tokenVars, serverVars, workerVars, Rotations, IssuedState
  <2> QED BY <2>9, <2>10, <2>11, <2>12, <2>13, <2>14, <2>15, <2>16, <2>17, <2>18, <2>19
             DEF TokensNext
<1>3. TokensTyped => TokensTypeOK
  BY DEF TokensTyped
<1> QED BY <1>1, <1>2, <1>3, PTL DEF TokensSpec

\* What a call sends was given out, and sessions end so often at most.
LEMMA SessionsHaveTypes == SessionsSpec => []SessionsTypeOK
<1>1. SessionsInv => SessionsTypeOK
  BY SessionTypes DEF SessionsInv
<1> QED BY <1>1, SessionsStaySound, PTL

\* A session asks for events before none is left to come, and holds at most
\* a batch; one worker at most has the lock; the inbox has what was wanted.
PendingBound(s) ==
  s.pending <= StreamBatch /\ (s.pc \in {"fix", "recv"} => s.pending > 0)
StreamBounds ==
  /\ kind \in StreamKind /\ start \in {"latest", "earliest"}
  /\ Len(log) <= MaxPublished
  /\ streamInbox \subseteq {e \in 1..Len(log) : log[e] = "wanted"}
  /\ \A w \in Subscriber : PendingBound(session[w])
  /\ holder = {} \/ \E w \in Subscriber : holder = {w}
  /\ owedFrom <= Tip

\* A step of one session, by what it becomes.
LEMMA SessionBecomes ==
  ASSUME StreamsInv, StreamBounds, NEW w \in Subscriber, NEW s, Becomes(w, s), PendingBound(s)
  PROVE  \A v \in Subscriber : PendingBound(session'[v])
<1>1. \A v \in Subscriber : session'[v] = IF v = w THEN s ELSE session[v]
  BY StreamTypes DEF Becomes
<1> QED BY <1>1 DEF StreamBounds

\* Every step of a subscription keeps what is owed to it within a batch.
LEMMA StreamBoundsStep ==
  ASSUME StreamsInv, StreamBounds, [StreamsNext]_streamVars
  PROVE  StreamBounds'
<1>0. /\ log \in Seq(Message) /\ Len(log) \in Nat /\ Tip \in Nat /\ owedFrom \in Nat
      /\ Tip = Len(log) + 1
      /\ StreamBatch \in Nat /\ StreamBatch > 0 /\ MaxPublished \in Nat
  BY StreamTypes, StreamsAssumption DEF StreamsInv, StreamsShape
<1>1. ASSUME NEW w \in Subscriber
      PROVE  /\ session[w] \in SessionRecord /\ PendingBound(session[w])
             /\ session[w].pending \in Nat /\ session[w].pending <= StreamBatch
             /\ session[w].from \in Nat /\ session[w].next \in Nat
             /\ session[w].from <= Tip /\ session[w].next <= Tip
             /\ session[w].pc \notin {"standby", "resume"} => session[w].from >= 1
  BY StreamTypes DEF StreamBounds, PendingBound, SessionSound
\* A step that leaves the source, the lock and the inbox alone.
<1>2. ASSUME NEW w \in Subscriber, NEW s, Becomes(w, s), PendingBound(s),
             UNCHANGED <<sourceVars, streamInbox, owedFrom>>,
             holder' \in {holder, {}, {w}}
      PROVE  StreamBounds'
  <2>1. \A v \in Subscriber : PendingBound(session'[v])
    BY <1>2, SessionBecomes
  <2>2. kind' = kind /\ start' = start /\ log' = log
    BY <1>2 DEF sourceVars
  <2> QED BY <1>2, <2>1, <2>2 DEF StreamBounds, Tip
<1>3. ASSUME NEW m \in Message, Published(m) PROVE StreamBounds'
  <2>1. /\ Len(log) < MaxPublished /\ log' = Append(log, m)
        /\ UNCHANGED <<kind, start, streamInbox, session, holder, owedFrom>>
    BY <1>3 DEF Published
  <2>2. /\ Len(log') = Len(log) + 1 /\ \A e \in 1..Len(log) : log'[e] = log[e]
    BY <1>0, <2>1
  <2>3. streamInbox \subseteq {e \in 1..Len(log') : log'[e] = "wanted"}
    BY <1>0, <2>2 DEF StreamBounds
  <2>4. owedFrom <= Tip' /\ Len(log') <= MaxPublished
    BY <1>0, <2>1, <2>2 DEF StreamBounds, Tip
  <2> QED BY <2>1, <2>3, <2>4 DEF StreamBounds
<1>4. CASE RetentionPasses \/ LockLost \/ UNCHANGED streamVars
  BY <1>4 DEF RetentionPasses, LockLost, streamVars, sourceVars, StreamBounds, Tip
<1>5. ASSUME NEW w \in Subscriber, TryLock(w) PROVE StreamBounds'
  <2>1. PendingBound([Standby EXCEPT !.pc = "resume"])
    BY <1>0 DEF Standby, PendingBound
  <2> QED BY <1>2, <1>5, <2>1 DEF TryLock
<1>6. ASSUME NEW w \in Subscriber, SessionEnds(w) PROVE StreamBounds'
  <2>1. PendingBound(Standby)
    BY <1>0 DEF Standby, PendingBound
  <2>2. holder' \in {holder, {}}
    BY <1>6 DEF SessionEnds, StreamBounds
  <2> QED BY <1>2, <1>6, <2>1, <2>2 DEF SessionEnds
<1>7. ASSUME NEW w \in Subscriber, NEW pc, NEW from, Opened(w, pc, from) PROVE StreamBounds'
  <2>1. PendingBound([pc |-> pc, from |-> from, next |-> from, pending |-> StreamBatch])
    BY <1>0 DEF PendingBound
  <2>2. /\ Becomes(w, [pc |-> pc, from |-> from, next |-> from, pending |-> StreamBatch])
        /\ UNCHANGED <<sourceVars, streamInbox, owedFrom, holder>>
    BY <1>7 DEF Opened
  <2> QED BY <1>2, <2>1, <2>2
<1>8. ASSUME NEW w \in Subscriber, OpenReplay(w) \/ OpenManaged(w) \/ OpenKafka(w)
                                   \/ OpenQueue(w) \/ OpenSidecar(w)
      PROVE  StreamBounds'
  BY <1>7, <1>8 DEF OpenReplay, OpenManaged, OpenKafka, OpenQueue, OpenSidecar
<1>9. ASSUME NEW w \in Subscriber, Owes(w) PROVE owedFrom' <= Tip
  BY <1>1, <1>9 DEF Owes, StreamBounds
<1>10. ASSUME NEW w \in Subscriber, NEW pc \in {"recv", "delivered"},
              pc = "recv" => session[w].pc \in {"fix", "recv"}
       PROVE  PendingBound([session[w] EXCEPT !.pc = pc])
  <2>1. /\ [session[w] EXCEPT !.pc = pc].pc = pc
        /\ [session[w] EXCEPT !.pc = pc].pending = session[w].pending
    BY <1>1 DEF SessionRecord
  <2> QED BY <1>1, <1>10, <2>1 DEF PendingBound
<1>11. ASSUME NEW w \in Subscriber, StartFixed(w) PROVE StreamBounds'
  <2>1. PendingBound([session[w] EXCEPT !.pc = "recv"])
    BY <1>10, <1>11 DEF StartFixed, Is
  <2>2. /\ kind' = kind /\ start' = start /\ log' = log /\ streamInbox' = streamInbox
        /\ holder' = holder /\ owedFrom' <= Tip
    BY <1>9, <1>11 DEF StartFixed, sourceVars
  <2>3. \A v \in Subscriber : PendingBound(session'[v])
    BY <1>11, <2>1, SessionBecomes DEF StartFixed
  <2> QED BY <2>2, <2>3 DEF StreamBounds, Tip
<1>12. ASSUME NEW w \in Subscriber, NEW n \in 0..StreamBatch, Receive(w, n) PROVE StreamBounds'
  <2> DEFINE first == Max({session[w].next, kept})
             s == [session[w] EXCEPT !.pc = "received", !.from = first,
                                     !.next = first + n, !.pending = @ - n]
  <2>1. s.pc = "received" /\ s.pending = session[w].pending - n
    BY <1>1 DEF SessionRecord
  <2>2. n \in Nat /\ session[w].pending \in Nat /\ session[w].pending <= StreamBatch
    BY <1>0, <1>1
  <2>3. Becomes(w, s) /\ UNCHANGED <<sourceVars, streamInbox, owedFrom, holder>>
    BY <1>12 DEF Receive
  <2> HIDE DEF s
  <2>4. PendingBound(s)
    BY <1>0, <2>1, <2>2 DEF PendingBound
  <2> QED BY <1>2, <2>3, <2>4
<1>13. ASSUME NEW w \in Subscriber, NEW e \in 1..Len(log), TakeMessage(w, e) PROVE StreamBounds'
  <2> DEFINE s == [session[w] EXCEPT !.pc = "received", !.from = e, !.next = e + 1]
  <2>1. s.pc = "received" /\ s.pending = session[w].pending
    BY <1>1 DEF SessionRecord
  <2>2. Becomes(w, s) /\ UNCHANGED <<sourceVars, streamInbox, owedFrom, holder>>
    BY <1>13 DEF TakeMessage
  <2> HIDE DEF s
  <2>3. PendingBound(s)
    BY <1>1, <2>1 DEF PendingBound
  <2> QED BY <1>2, <2>2, <2>3
<1>14. ASSUME NEW w \in Subscriber, NEW position, DeliverStream(w, position) PROVE StreamBounds'
  <2>1. PendingBound([session[w] EXCEPT !.pc = "delivered"])
    BY <1>10
  <2>2. /\ kind' = kind /\ start' = start /\ log' = log
        /\ streamInbox' = streamInbox \cup WantedBy(w)
        /\ holder' = holder /\ owedFrom' <= Tip
    BY <1>9, <1>14 DEF DeliverStream, sourceVars
  <2>3. \A v \in Subscriber : PendingBound(session'[v])
    BY <1>14, <2>1, SessionBecomes DEF DeliverStream
  <2>4. session[w].from >= 1
    BY <1>1, <1>14 DEF DeliverStream, Is
  <2>5. ReceivedBy(w) \subseteq 1..Len(log)
    BY <1>0, <1>1, <2>4 DEF ReceivedBy
  <2>6. WantedBy(w) \subseteq {e \in 1..Len(log) : log[e] = "wanted"}
    BY <2>5 DEF WantedBy
  <2>7. streamInbox' \subseteq {e \in 1..Len(log) : log[e] = "wanted"}
    BY <2>2, <2>6 DEF StreamBounds
  <2> QED BY <2>2, <2>3, <2>7 DEF StreamBounds, Tip
<1>15. ASSUME NEW w \in Subscriber, GoOn(w), UNCHANGED <<sourceVars, streamInbox, holder, owedFrom>>
       PROVE  StreamBounds'
  <2> DEFINE s == [session[w] EXCEPT !.pc = "recv", !.from = session[w].next, !.pending = Asked(@)]
  <2>1. s.pc = "recv" /\ s.pending = Asked(session[w].pending)
    BY <1>1 DEF SessionRecord
  <2>2. Becomes(w, s)
    BY <1>15 DEF GoOn
  <2> HIDE DEF s
  <2>3. Asked(session[w].pending) <= StreamBatch /\ Asked(session[w].pending) > 0
    <3>1. /\ StreamBatch \div 2 \in Nat /\ session[w].pending \in Nat
          /\ session[w].pending <= StreamBatch
      BY <1>0, <1>1
    <3> QED BY <1>0, <3>1 DEF Asked
  <2>4. PendingBound(s)
    BY <2>1, <2>3 DEF PendingBound
  <2> QED BY <1>2, <1>15, <2>2, <2>4
<1>16. ASSUME NEW w \in Subscriber, CommitReplay(w) \/ Ack(w) \/ AckBatch(w) \/ Continue(w)
       PROVE  StreamBounds'
  BY <1>15, <1>16 DEF CommitReplay, Ack, AckBatch, Acknowledged, Continue
<1>17. CASE \E m \in Message : PublishChange(m) \/ PublishRecord(m) \/ PublishMessage(m)
  BY <1>3, <1>17 DEF PublishChange, PublishRecord, PublishMessage
<1>18. ASSUME NEW w \in Subscriber,
              \/ \E n \in 0..StreamBatch :
                   Subscribe(w, n) \/ ManagedSubscribe(w, n) \/ PollFetches(w, n)
              \/ \E e \in 1..Len(log) : Consume(w, e) \/ ReceiveBatch(w, e)
              \/ HandOver(w) \/ DeliverRecords(w) \/ ConvertMessage(w) \/ DeliverBatch(w)
       PROVE  StreamBounds'
  BY <1>12, <1>13, <1>14, <1>18 DEF Subscribe, ManagedSubscribe, PollFetches, Consume,
     ReceiveBatch, HandOver, DeliverRecords, ConvertMessage, DeliverBatch
<1> QED BY <1>4, <1>5, <1>6, <1>8, <1>11, <1>16, <1>17, <1>18 DEF StreamsNext

\* A subscription is always owed an event while it waits for one.
LEMMA StreamsHaveTypes == StreamsSpec => []StreamsTypeOK
<1>1. StreamsInit => StreamBounds
  <2> SUFFICES ASSUME StreamsInit PROVE StreamBounds
    OBVIOUS
  <2>1. Len(log) = 0 /\ Tip = 1 /\ owedFrom \in {0, 1}
    BY DEF StreamsInit, Tip
  <2>2. PendingBound(Standby)
    BY StreamsAssumption DEF PendingBound, Standby
  <2> QED BY <2>1, <2>2, StreamsAssumption DEF StreamsInit, StartsFrom, StreamBounds
<1>2. StreamsInv /\ StreamBounds => StreamsTypeOK
  <2> SUFFICES ASSUME StreamsInv, StreamBounds PROVE StreamsTypeOK
    OBVIOUS
  <2>1. /\ kept \in 1..Tip /\ committed \in 1..Tip /\ stored \in 0..Tip /\ owedFrom \in 0..Tip
    BY StreamTypes DEF StreamBounds
  <2>2. holder \subseteq Subscriber /\ Cardinality(holder) <= 1
    <3>1. CASE holder = {}
      <4>1. Cardinality({}) = 0
        BY FS_EmptySet
      <4> QED BY <3>1, <4>1
    <3>2. ASSUME NEW w \in Subscriber, holder = {w} PROVE holder \subseteq Subscriber /\ Cardinality(holder) <= 1
      <4>1. Cardinality({w}) = 1
        BY FS_Singleton
      <4> QED BY <3>2, <4>1
    <3> QED BY <3>1, <3>2 DEF StreamBounds
  <2>3. ASSUME NEW w \in Subscriber
        PROVE  /\ session[w].pc \in {"standby", "resume", "fix", "recv", "received", "delivered"}
               /\ session[w].from \in 0..Tip /\ session[w].next \in 0..Tip
               /\ session[w].pending \in IF session[w].pc = "recv" THEN 1..StreamBatch ELSE 0..StreamBatch
    <3>1. /\ session[w].pending \in Nat /\ session[w].from \in Nat /\ session[w].next \in Nat
          /\ session[w].from <= Tip /\ session[w].next <= Tip /\ Tip \in Nat
          /\ session[w] \in SessionRecord
      BY StreamTypes
    <3>2. session[w].pc \in {"standby", "resume", "fix", "recv", "received", "delivered"}
      BY <3>1 DEF SessionRecord
    <3>3. PendingBound(session[w]) /\ StreamBatch \in Nat
      BY StreamsAssumption DEF StreamBounds
    <3> QED BY <3>1, <3>2, <3>3 DEF PendingBound
  <2>4. log \in Seq(Message) /\ acked \subseteq 1..Len(log)
    BY DEF StreamsInv, StreamsShape
  <2> QED BY <2>1, <2>2, <2>3, <2>4 DEF StreamsTypeOK, StreamBounds
<1> QED BY <1>1, <1>2, StreamBoundsStep, StreamsStaySound, PTL DEF StreamsSpec

\* What the proof of the answers leaves open of the types.
RemoteBounds ==
  /\ caps \subseteq Capability /\ described \in BOOLEAN
  /\ instanceOf \in {"none", "open", "closed"}
  /\ bound \in BOOLEAN /\ sidecarDeaths \in 0..MaxSidecarDeaths

\* A sidecar dies so often at most; an instance is configured and closed.
LEMMA RemotesHaveTypes == RemoteSpec => []RemoteTypeOK
<1>1. RemoteInit => RemoteBounds
  <2>1. 0 \in 0..MaxSidecarDeaths
    BY RemoteAssumption
  <2> QED BY <2>1, Zenon DEF RemoteInit, RemoteBounds
<1>2. RemoteBounds /\ [RemoteNext]_remoteVars => RemoteBounds'
  <2> SUFFICES ASSUME RemoteBounds, [RemoteNext]_remoteVars PROVE RemoteBounds'
    OBVIOUS
  <2>1. CASE SidecarDies
    <3>1. sidecarDeaths < MaxSidecarDeaths /\ sidecarDeaths' = sidecarDeaths + 1
      BY <2>1, Zenon DEF SidecarDies
    <3>2. sidecarDeaths' \in 0..MaxSidecarDeaths
      BY <3>1, RemoteAssumption DEF RemoteBounds
    <3> QED BY <2>1, <3>2, Zenon DEF SidecarDies, RemoteBounds
  <2>2. CASE ConfigureRemote \/ CloseRemote
    BY <2>2 DEF ConfigureRemote, CloseRemote, Bind, RemoteBounds
  <2>3. ASSUME NEW c \in RemoteCall, ConfigureAgain(c) PROVE RemoteBounds'
    BY <2>3 DEF ConfigureAgain, Bind, RemoteBounds
  <2>4. CASE UNCHANGED <<caps, described, instanceOf, bound, sidecarDeaths>>
    BY <2>4 DEF RemoteBounds
  <2> QED BY <2>1, <2>2, <2>3, <2>4 DEF RemoteNext, remoteVars, SidecarTakes, TakesEffect,
             SidecarAnswers, RemoteSimulate, RemoteCommit, RemoteConfirm, RemoteRead, RemotePoll,
             RemoteExport, RemoteCheck, RemoteReceive, RemoteDiscover, Calls, CallAgain,
             ConfigureAgainFails, Wrapped
<1>3. RemoteInv /\ RemoteBounds => RemoteTypeOK
  <2> SUFFICES ASSUME RemoteInv, RemoteBounds PROVE RemoteTypeOK
    OBVIOUS
  <2>1. \A c \in RemoteCall : rcall[c] \in RemoteRecord
    BY DEF RemoteInv
  <2> QED BY <2>1 DEF RemoteRecord, RemoteBounds, RemoteTypeOK
<1> QED BY <1>1, <1>2, <1>3, CallsStaySound, PTL DEF RemoteSpec

-----------------------------------------------------------------------------
\* The least number of a set that is not empty is in it.
LEMMA MinIn ==
  ASSUME NEW S \in SUBSET Nat, S # {}
  PROVE  Min(S) \in S
<1>1. PICK n \in S : \A m \in S : n <= m
  BY LeastOf
<1> QED BY <1>1 DEF Min

\* What the request does at any target; a document is numbered by its attempt.
TargetTyped == TargetWriteTypeOK /\ (att.pc = "send" => tries # 0)
AttemptOf == [pc: {"idle", "send", "answered", "stored", "over", "refused"}, res: Result]

\* What a request does leaves documents numbered by attempts.
LEMMA EffectHasTypes ==
  ASSUME TargetTyped, att.pc = "send", Effect
  PROVE  /\ docs' \subseteq 1..MaxTries /\ known' \in 0..MaxTries /\ value' \in {"old", "new"}
         /\ AnswersWith \in 0..MaxTries
<1>0. /\ docs \subseteq 1..MaxTries /\ known \in 0..MaxTries /\ value \in {"old", "new"}
      /\ tries \in 1..MaxTries /\ MaxTries \in Nat
  BY TargetWriteAssumption DEF TargetTyped, TargetWriteTypeOK
<1>1. \/ Creates
      \/ Keeps /\ (target \in {"netsuite", "dataverse", "postgres"} => docs # {})
      \/ target \in Updated /\ docs' = docs /\ known' \in {known, tries} /\ value' \in {value, "new"}
  <2>1. CASE S4Creates \/ OdooCreates \/ BcCreates \/ B1Creates
    BY <2>1, Zenon DEF S4Creates, OdooCreates, BcCreates, B1Creates
  <2>2. CASE NetsuiteUpserts \/ DataverseUpserts \/ PostgresInserts
    BY <2>2, Zenon DEF NetsuiteUpserts, DataverseUpserts, PostgresInserts
  <2>3. CASE XeroCreates \/ QboCreates
    BY <2>3 DEF XeroCreates, QboCreates
  <2>4. CASE SalesforcePatches \/ HubspotUpdates \/ ShopUpdates
    BY <2>4 DEF SalesforcePatches, HubspotUpdates, ShopUpdates, Replaces, Updated
  <2>5. CASE StripeUpdates
    BY <2>5 DEF StripeUpdates, Keeps, storeVars, Updated
  <2> QED BY <2>1, <2>2, <2>3, <2>4, <2>5, Zenon DEF Effect
<1>2. docs' \subseteq 1..MaxTries /\ known' \in 0..MaxTries /\ value' \in {"old", "new"}
  <2>1. CASE Creates
    BY <1>0, <2>1 DEF Creates
  <2>2. CASE Keeps
    BY <1>0, <2>2 DEF Keeps, storeVars
  <2>3. CASE docs' = docs /\ known' \in {known, tries} /\ value' \in {value, "new"}
    <3>1. known' \in 0..MaxTries
      BY <1>0, <2>3
    <3> QED BY <1>0, <2>3, <3>1
  <2> QED BY <1>1, <2>1, <2>2, <2>3
<1>3. AnswersWith \in 0..MaxTries
  <2>1. CASE target \in {"netsuite", "dataverse", "postgres"}
    <3>1. docs' # {} /\ docs' \in SUBSET Nat
      BY <1>0, <1>1, <1>2, <2>1 DEF Creates, Keeps, storeVars, Updated
    <3>2. Min(docs') \in docs'
      BY <3>1, MinIn
    <3> QED BY <1>0, <1>2, <2>1, <3>2 DEF AnswersWith, Updated
  <2>2. CASE target \notin {"netsuite", "dataverse", "postgres"}
    BY <1>0, <1>2, <2>2 DEF AnswersWith, NoDoc
  <2> QED BY <2>1, <2>2
<1> QED BY <1>2, <1>3

\* Attempts are counted, and a document is numbered by the attempt that made it.
LEMMA TargetsHaveTypes == TargetWriteSpec => []TargetWriteTypeOK
<1>1. TargetWriteInit => TargetTyped
  <2>1. 0 \in 0..MaxTries
    BY TargetWriteAssumption
  <2>2. TargetWriteInit => unheard \in BOOLEAN
    BY Zenon DEF TargetWriteInit
  <2> QED BY <2>1, <2>2 DEF TargetWriteInit, TargetTyped, TargetWriteTypeOK, IdleAttempt, Attempt,
                      NoResult, NoDoc, Result
<1>2. TargetTyped /\ [TargetWriteNext]_targetVars => TargetTyped'
  <2> SUFFICES ASSUME TargetTyped, [TargetWriteNext]_targetVars PROVE TargetTyped'
    OBVIOUS
  <2>0. /\ target \in Target /\ request \in {"ok", "malformed", "unacceptable"}
        /\ preview \in {"none", "ok", "refused"}
        /\ docs \subseteq 1..MaxTries /\ known \in 0..MaxTries /\ value \in {"old", "new"}
        /\ att \in AttemptOf /\ result \in Result
        /\ readBack \in {"none", "yes", "no"} /\ undoSt \in {"none", "done", "failed"}
        /\ tries \in 0..MaxTries /\ MaxTries \in Nat /\ unheard \in BOOLEAN
        /\ att.pc = "send" => tries # 0
    BY TargetWriteAssumption DEF TargetTyped, TargetWriteTypeOK, AttemptOf
  <2>a. att.res \in Result /\ att.res.doc \in 0..MaxTries /\ att.res.prev \in {"old", "new"}
        /\ result.doc \in 0..MaxTries /\ result.prev \in {"old", "new"}
    BY <2>0 DEF AttemptOf, Result
  <2>b. ASSUME NEW pc \in {"idle", "send", "answered", "stored", "over", "refused"},
               NEW d \in 0..MaxTries, NEW v \in {"old", "new"}
        PROVE  Attempt(pc, d, v) \in AttemptOf /\ Attempt(pc, d, v).pc = pc
    BY DEF Attempt, AttemptOf, Result
  <2>c. NoDoc \in 0..MaxTries
    BY <2>0 DEF NoDoc
  <2>d. IdleAttempt \in AttemptOf /\ IdleAttempt.pc = "idle"
        /\ Attempt("refused", NoDoc, "old") \in AttemptOf /\ Attempt("refused", NoDoc, "old").pc = "refused"
    BY <2>b, <2>c DEF IdleAttempt
  <2>e. \A pc \in {"stored", "over"} :
          [att EXCEPT !.pc = pc] \in AttemptOf /\ [att EXCEPT !.pc = pc].pc = pc
    BY <2>0 DEF AttemptOf
  <2>f. ASSUME Try PROVE tries' \in 1..MaxTries
    BY <2>0, <2>f DEF Try
  \* What is to be shown of a step that leaves target and request alone.
  <2>g. ASSUME target' = target, request' = request, preview' \in {"none", "ok", "refused"},
               docs' \subseteq 1..MaxTries, known' \in 0..MaxTries, value' \in {"old", "new"},
               att' \in AttemptOf, result' \in Result,
               readBack' \in {"none", "yes", "no"}, undoSt' \in {"none", "done", "failed"},
               tries' \in 0..MaxTries, att'.pc = "send" => tries' # 0, unheard' \in BOOLEAN
        PROVE  TargetTyped'
    BY <2>0, <2>g DEF TargetTyped, TargetWriteTypeOK, AttemptOf
  \* Whether an effect went unheard is known of every step.
  <2>h. unheard' \in BOOLEAN
    BY <2>0, Zenon DEF TargetWriteNext, Simulates, Begins, Writes, AnswerLost, WriteFails, Stores,
                       Confirm, Undo, UndoAnswerLost, targetVars
  <2>1. CASE Simulates
    <3>1. /\ preview' \in {"ok", "refused"}
          /\ UNCHANGED <<target, request, docs, known, value, att, result, readBack, undoSt, tries>>
      BY <2>1 DEF Simulates, storeVars
    <3> QED BY <2>0, <2>g, <2>h, <3>1
  <2>2. CASE Begins
    <3>1. tries' \in 1..MaxTries
      BY <2>2, <2>f DEF Begins
    <3>2. UNCHANGED <<target, request, preview, docs, known, value, result, readBack, undoSt>>
      BY <2>2 DEF Begins, storeVars
    <3>3. Found # {} => Min(Found) \in 0..MaxTries
      <4>1. Found \subseteq 1..MaxTries /\ Found \in SUBSET Nat
        BY <2>0 DEF Found, SapExisting, OdooExisting, RestExisting
      <4>2. Found # {} => Min(Found) \in Found
        BY <4>1, MinIn
      <4>3. 1..MaxTries \subseteq 0..MaxTries
        BY <2>0
      <4> QED BY <4>1, <4>2, <4>3
    <3>4. att' \in AttemptOf
      BY <2>0, <2>2, <2>b, <2>c, <2>d, <3>3 DEF Begins
    <3> QED BY <2>0, <2>g, <2>h, <3>1, <3>2, <3>4
  <2>3. CASE Writes \/ AnswerLost
    <3>1. /\ UNCHANGED <<target, request, preview, result, readBack, undoSt, tries>>
          /\ att.pc = "send" /\ Effect
          /\ att' = IdleAttempt \/ att' = Attempt("answered", AnswersWith, att.res.prev)
      BY <2>3 DEF Writes, AnswerLost
    <3>2. /\ docs' \subseteq 1..MaxTries /\ known' \in 0..MaxTries /\ value' \in {"old", "new"}
          /\ AnswersWith \in 0..MaxTries
      BY <3>1, EffectHasTypes
    <3>3. att' \in AttemptOf /\ att'.pc # "send"
      BY <2>a, <2>b, <2>d, <3>1, <3>2
    <3> QED BY <2>0, <2>g, <2>h, <3>1, <3>2, <3>3
  <2>4. CASE WriteFails
    <3>1. UNCHANGED <<target, request, preview, docs, known, value, result, readBack, undoSt, tries>>
      BY <2>4 DEF WriteFails, storeVars
    <3>2. att' \in AttemptOf /\ att'.pc # "send"
      BY <2>4, <2>d DEF WriteFails
    <3> QED BY <2>0, <2>g, <2>h, <3>1, <3>2
  <2>5. CASE Stores
    <3>1. UNCHANGED <<target, request, preview, docs, known, value, readBack, undoSt, tries>>
      BY <2>5 DEF Stores, storeVars
    <3>2. att' \in AttemptOf /\ att'.pc # "send" /\ result' \in Result
      BY <2>0, <2>5, <2>a, <2>d, <2>e DEF Stores
    <3> QED BY <2>0, <2>g, <2>h, <3>1, <3>2
  <2>6. CASE Confirm
    <3>1. /\ UNCHANGED <<target, request, preview, docs, known, value, result, undoSt, tries>>
          /\ readBack' \in {"yes", "no"}
      BY <2>6 DEF Confirm, storeVars
    <3>2. att' \in AttemptOf /\ att'.pc # "send"
      BY <2>6, <2>e DEF Confirm
    <3> QED BY <2>0, <2>g, <2>h, <3>1, <3>2
  <2>7. CASE Undo \/ UndoAnswerLost
    <3>1. UNCHANGED <<target, request, preview, known, result, readBack>> /\ StartsUndo
      BY <2>7 DEF Undo, UndoAnswerLost
    <3>2. att' \in AttemptOf /\ att'.pc # "send" /\ tries' \in 1..MaxTries
      BY <3>1, <2>e, <2>f DEF StartsUndo
    <3>3. UndoEffect => docs' \subseteq docs /\ value' \in {"old", "new"}
      BY <2>0, <2>a DEF UndoEffect
    <3>4. docs' \subseteq docs /\ value' \in {"old", "new"} /\ undoSt' \in {undoSt, "done", "failed"}
      BY <2>0, <2>7, <3>3 DEF Undo, UndoAnswerLost
    <3> QED BY <2>0, <2>g, <2>h, <3>1, <3>2, <3>4
  <2>8. CASE UNCHANGED targetVars
    BY <2>0, <2>g, <2>h, <2>8 DEF targetVars, storeVars
  <2> QED BY <2>1, <2>2, <2>3, <2>4, <2>5, <2>6, <2>7, <2>8 DEF TargetWriteNext
<1>3. TargetTyped => TargetWriteTypeOK
  BY DEF TargetTyped
<1> QED BY <1>1, <1>2, <1>3, PTL DEF TargetWriteSpec

\* The polling state has its types.
LEMMA PollsHaveTypes == PollingSpec => []PollingTypeOK
<1>1. PollingInit => PollingTypeOK
  BY PollingStarts DEF PollingInv
<1> QED BY <1>1, PollingTypesStay, PTL DEF PollingSpec

\* A poll returns so many changes at most: those before the last of them are
\* fewer than the limit.
LEMMA WantedLimited ==
  ASSUME txns \in Seq(Nat), NEW s \in SUBSET (DOMAIN txns), NEW from \in Place
  PROVE  Cardinality(Wanted(from, s)) <= CdcLimit
<1> DEFINE new == {c \in ChangesOf(s) : Before(from, c)}
           Lower(c) == {d \in new : Before(d, c)}
           W == Wanted(from, s)
<1>0. CdcLimit \in Nat /\ CdcLimit > 0
  BY CdcAssumption
<1>1. W = {c \in new : Cardinality(Lower(c)) < CdcLimit} /\ W \subseteq new
  BY DEF Wanted
<1>2. new \subseteq ChangesOf(s) /\ ChangesOf(s) \subseteq Place /\ new \subseteq Place
  BY ChangesAre
<1>3. \A T \in SUBSET new : IsFiniteSet(T) /\ Cardinality(T) \in Nat
  BY <1>2, ChangesFinite
<1> SUFFICES Cardinality(W) <= CdcLimit
  OBVIOUS
<1> HIDE DEF new, W
<1> DEFINE n == Cardinality(new)
           size(c) == Cardinality(Lower(c))
<1>4. \A c \in new : size(c) \in Nat /\ size(c) <= n /\ IsFiniteSet(Lower(c)) /\ n \in Nat
  <2>1. \A c : Lower(c) \subseteq new
    OBVIOUS
  <2> QED BY <1>3, <2>1, FS_Subset
<1>5. ASSUME NEW c \in new, NEW d \in new, Before(c, d) PROVE size(c) < size(d)
  <2>1. Lower(c) \subseteq Lower(d) /\ c \in Lower(d) /\ c \notin Lower(c)
    BY <1>2, <1>5, PositionsOrdered
  <2>2. size(c) <= size(d) /\ size(c) # size(d)
    BY <1>4, <2>1, FS_Subset
  <2>3. size(c) \in Nat /\ size(d) \in Nat
    BY <1>4
  <2> HIDE DEF size
  <2> QED BY <2>2, <2>3
<1>6. CASE W = {}
  BY <1>0, <1>6, FS_EmptySet
<1>7. CASE W # {}
  <2> DEFINE N == {n - size(c) : c \in W}
  <2>1. \A c \in W : n - size(c) \in N
    OBVIOUS
  <2>2. \A k \in N : \E c \in W : k = n - size(c)
    OBVIOUS
  <2> HIDE DEF N, size, n
  <2>3. \A c \in W : c \in new /\ n - size(c) \in Nat /\ n \in Nat /\ size(c) \in Nat
    <3>1. \A c \in W : c \in new /\ n \in Nat /\ size(c) \in Nat /\ size(c) <= n
      BY <1>1, <1>4
    <3> QED BY <3>1
  <2>4. N \in SUBSET Nat /\ N # {}
    BY <1>7, <2>1, <2>2, <2>3
  <2>5. PICK k \in N : \A m \in N : k <= m
    BY <2>4, LeastOf
  <2>6. PICK last \in W : k = n - size(last)
    BY <2>2, <2>5
  <2>7. \A c \in W : size(c) <= size(last)
    BY <2>1, <2>3, <2>5, <2>6
  <2>8. W \ {last} \subseteq Lower(last)
    <3> SUFFICES ASSUME NEW c \in W, c # last PROVE c \in Lower(last)
      OBVIOUS
    <3>1. c \in new /\ last \in new /\ c \in Place /\ last \in Place
      BY <1>1, <1>2
    <3>2. ~Before(last, c)
      BY <1>5, <2>3, <2>7, <3>1
    <3> QED BY <3>1, <3>2, PositionsOrdered
  <2>9. last \in new /\ IsFiniteSet(W) /\ Cardinality(W) \in Nat
    BY <1>1, <1>3
  <2>10. Cardinality(W \ {last}) = Cardinality(W) - 1
    BY <2>9, FS_RemoveElement
  <2>11. Cardinality(W \ {last}) <= size(last)
    BY <1>4, <2>8, <2>9, FS_Subset DEF size
  <2>12. size(last) < CdcLimit /\ size(last) \in Nat
    BY <1>1, <2>3 DEF size
  <2> QED BY <1>0, <2>9, <2>10, <2>11, <2>12
<1> QED BY <1>6, <1>7

-----------------------------------------------------------------------------
\* Positions are of changes in the log, LSNs not beyond it, and a batch is
\* not larger than the limit.
Known == Changes \cup {NoPosition}
PollBounds(p) ==
  /\ p.after \in Known /\ p.upto <= FlushLSN
  /\ p.out \subseteq Changes /\ Cardinality(p.out) <= CdcLimit
CdcBounds ==
  /\ txns \in Seq(0..MaxRows) /\ Len(txns) <= MaxTxns /\ confirmed <= FlushLSN
  /\ \A f \in Workflows : cursor[f] \in Known /\ runs[f] \subseteq Changes
  /\ \A w \in CdcWorker : PollBounds(poller[w])

\* A position that is known is of a transaction in the log.
LEMMA KnownPlaces ==
  ASSUME CdcShape
  PROVE  /\ \A c \in Known : c \in Place /\ c[1] \in Nat /\ c[1] <= Len(txns) /\ commitOf(c) <= FlushLSN
         /\ Len(txns) \in Nat /\ FlushLSN \in Nat
<1>1. txns \in Seq(Nat) /\ Len(txns) \in Nat /\ DOMAIN txns = 1..Len(txns)
  BY DEF CdcShape
<1>2. Changes \subseteq Place /\ \A c \in Changes : c[1] \in 1..Len(txns)
  BY <1>1, ChangesAre DEF Changes
<1>3. NoPosition \in Place /\ NoPosition[1] = 0
  BY DEF NoPosition, TableChange, Place
<1> QED BY <1>1, <1>2, <1>3, PositionsOrdered DEF Known, commitOf, Start, FlushLSN

\* Every step keeps positions in the log and batches within the limit.
LEMMA CdcBoundsKept ==
  ASSUME CdcShape, CdcBounds, CdcNext
  PROVE  CdcBounds'
<1>0. /\ txns \in Seq(Nat) /\ Len(txns) \in Nat /\ confirmed \in Nat /\ FlushLSN \in Nat
      /\ cursor \in [Workflows -> Place] /\ runs \in [Workflows -> SUBSET Place]
      /\ poller \in [CdcWorker -> PollRecord]
      /\ CdcWorkflows \in Nat /\ CdcWorkflows > 0 /\ CdcLimit \in Nat
  BY CdcAssumption, KnownPlaces DEF CdcShape
<1>1. ASSUME NEW n \in 0..MaxRows, Transaction(n) PROVE CdcBounds'
  <2>1. /\ Len(txns) < MaxTxns /\ txns' = Append(txns, n) /\ n \in Nat
        /\ UNCHANGED <<confirmed, cursor, runs, poller>>
    BY <1>1, CdcAssumption DEF Transaction
  <2>2. /\ txns' \in Seq(0..MaxRows) /\ txns' \in Seq(Nat) /\ Len(txns') = Len(txns) + 1
        /\ \A i \in 1..Len(txns) : txns'[i] = txns[i]
        /\ DOMAIN txns = 1..Len(txns) /\ DOMAIN txns' = 1..(Len(txns) + 1)
    BY <1>0, <2>1 DEF CdcBounds
  <2>3. Changes \subseteq Changes'
    <3> SUFFICES ASSUME NEW c \in Changes PROVE c \in Changes'
      OBVIOUS
    <3>1. c \in Place /\ c[1] \in DOMAIN txns /\ c[2] \in 1..txns[c[1]]
      BY <1>0, ChangesAre DEF Changes
    <3>2. c[1] \in DOMAIN txns' /\ c[2] \in 1..txns'[c[1]]
      BY <1>0, <2>2, <3>1
    <3>3. \A d \in Place : d[1] \in DOMAIN txns' /\ d[2] \in 1..txns'[d[1]] =>
            d \in UNION {{TableChange(i, k) : k \in 1..txns'[i]} : i \in DOMAIN txns'}
      BY PositionsOrdered DEF TableChange
    <3> QED BY <3>1, <3>2, <3>3 DEF Changes, ChangesOf
  <2>4. Known \subseteq Known' /\ FlushLSN <= FlushLSN' /\ FlushLSN' \in Nat
    BY <1>0, <2>2, <2>3 DEF Known, FlushLSN, NoPosition
  <2>5. confirmed' <= FlushLSN' /\ Len(txns') <= MaxTxns
    BY <1>0, <2>1, <2>2, <2>4, CdcAssumption DEF CdcBounds
  <2>6. ASSUME NEW w \in CdcWorker PROVE PollBounds(poller[w])'
    <3>1. poller[w] \in PollRecord /\ PollBounds(poller[w]) /\ poller'[w] = poller[w]
      BY <1>0, <2>1 DEF CdcBounds
    <3>2. poller[w].upto \in Nat
      BY <3>1 DEF PollRecord
    <3> QED BY <1>0, <2>3, <2>4, <3>1, <3>2 DEF PollBounds
  <2> QED BY <2>1, <2>2, <2>3, <2>4, <2>5, <2>6 DEF CdcBounds
<1>2. ASSUME NEW w \in CdcWorker, NEW p, Goes(w, p), txns' = txns, PollBounds(p),
             confirmed' <= FlushLSN,
             \A f \in Workflows : cursor'[f] \in Known /\ runs'[f] \subseteq Changes
      PROVE  CdcBounds'
  <2>1. \A v \in CdcWorker : poller'[v] = IF v = w THEN p ELSE poller[v]
    BY <1>0, <1>2 DEF Goes
  <2>2. \A v \in CdcWorker : PollBounds(poller'[v])
    BY <1>2, <2>1 DEF CdcBounds
  <2>3. FlushLSN' = FlushLSN /\ Changes' = Changes /\ Known' = Known
    BY <1>2 DEF FlushLSN, Changes, ChangesOf, Known, NoPosition
  <2> QED BY <1>2, <2>2, <2>3 DEF CdcBounds, PollBounds
<1>3. ASSUME NEW w \in CdcWorker, CdcStep(w) PROVE CdcBounds'
  <2>0. /\ poller[w] \in PollRecord /\ PollBounds(poller[w]) /\ poller[w].wf \in Workflows
        /\ poller[w].upto \in Nat
        /\ confirmed <= FlushLSN
        /\ \A f \in Workflows : cursor[f] \in Known /\ runs[f] \subseteq Changes
    <3>1. poller[w] \in PollRecord /\ PollBounds(poller[w])
      BY <1>0 DEF CdcBounds
    <3> QED BY <3>1 DEF CdcBounds, PollRecord
  \* A worker that moves on, with the same batch and positions.
  <2>1. ASSUME NEW x, NEW n, NEW y,
               y = [poller[w] EXCEPT !.pc = x] \/ y = [poller[w] EXCEPT !.pc = x, !.confirmed = n]
        PROVE  PollBounds(y)
    <3>1. y.after = poller[w].after /\ y.upto = poller[w].upto /\ y.out = poller[w].out
      BY <2>0, <2>1 DEF PollRecord
    <3> QED BY <2>0, <3>1 DEF PollBounds
  <2>2. ASSUME NEW f PROVE PollBounds(Poll(f))
    <3>1. /\ Poll(f).after = NoPosition /\ Poll(f).upto = 0 /\ Poll(f).out = {}
      BY DEF Poll
    <3>2. Cardinality({}) = 0
      BY FS_EmptySet
    <3> QED BY <1>0, <3>1, <3>2 DEF PollBounds, Known
  <2>3. CASE ReadCursor(w)
    <3> DEFINE y == [poller[w] EXCEPT !.pc = "slot", !.after = cursor[poller[w].wf]]
    <3>1. y.after = cursor[poller[w].wf] /\ y.upto = poller[w].upto /\ y.out = poller[w].out
      BY <2>0 DEF PollRecord
    <3>2. Goes(w, y) /\ UNCHANGED <<txns, confirmed, cursor, runs>>
      BY <2>3 DEF ReadCursor
    <3> HIDE DEF y
    <3>3. PollBounds(y)
      BY <2>0, <3>1 DEF PollBounds
    <3> QED BY <1>2, <2>0, <3>2, <3>3
  <2>4. CASE ReadSlot(w)
    BY <1>2, <2>0, <2>1, <2>4 DEF ReadSlot
  <2>5. CASE Advance(w)
    <3>1. confirmed' <= FlushLSN
      BY <2>0, <2>5, KnownPlaces DEF Advance, AdvanceTo, Released, PollBounds
    <3> QED BY <1>2, <2>0, <2>1, <2>5, <3>1 DEF Advance
  <2>6. CASE ReadFlush(w)
    <3> DEFINE y == [poller[w] EXCEPT !.pc = "peek", !.upto = FlushLSN]
    <3>1. y.after = poller[w].after /\ y.upto = FlushLSN /\ y.out = poller[w].out
      BY <2>0 DEF PollRecord
    <3>2. Goes(w, y) /\ UNCHANGED <<txns, confirmed, cursor, runs>>
      BY <2>6 DEF ReadFlush
    <3> HIDE DEF y
    <3>3. PollBounds(y)
      BY <1>0, <2>0, <3>1 DEF PollBounds
    <3> QED BY <1>2, <2>0, <3>2, <3>3
  <2>7. CASE Peek(w)
    <3> DEFINE out == Wanted(poller[w].after, Peeked(poller[w].upto))
    <3>0. poller[w].after \in Place
      BY <2>0, KnownPlaces DEF PollBounds
    <3>1. out \subseteq Changes /\ Cardinality(out) <= CdcLimit
      <4>1. Peeked(poller[w].upto) \subseteq DOMAIN txns
        BY DEF Peeked, Decodable
      <4>2. out \subseteq ChangesOf(Peeked(poller[w].upto)) /\ Cardinality(out) <= CdcLimit
        BY <1>0, <3>0, <4>1, WantedFirst, WantedLimited
      <4>3. ChangesOf(Peeked(poller[w].upto)) \subseteq Changes
        BY <4>1 DEF Changes, ChangesOf
      <4> QED BY <4>2, <4>3
    <3>2. PICK x : Goes(w, [poller[w] EXCEPT !.out = out, !.pc = x])
      BY <2>7 DEF Peek
    <3>3. UNCHANGED <<txns, confirmed, cursor, runs>>
      BY <2>7 DEF Peek
    <3> HIDE DEF out
    <3> DEFINE y == [poller[w] EXCEPT !.out = out, !.pc = x]
    <3>4. y.after = poller[w].after /\ y.upto = poller[w].upto /\ y.out = out
      BY <2>0 DEF PollRecord
    <3> HIDE DEF y
    <3>5. PollBounds(y)
      BY <2>0, <3>1, <3>4 DEF PollBounds
    <3> QED BY <1>2, <2>0, <3>2, <3>3, <3>5 DEF y
  <2>8. CASE QuietRelease(w)
    <3>1. confirmed' <= FlushLSN
      BY <2>0, <2>8 DEF QuietRelease, AdvanceTo, PollBounds
    <3> QED BY <1>2, <2>0, <2>1, <2>8, <3>1 DEF QuietRelease
  <2>9. CASE NextWorkflow(w) \/ PollFails(w) \/ WorkerStops(w)
    BY <1>2, <2>0, <2>2, <2>9 DEF NextWorkflow, PollFails, WorkerStops
  <2>10. ASSUME NEW c \in poller[w].out, StartRun(w, c) \/ SetCursorFails(w, c) PROVE CdcBounds'
    <3>1. c \in Changes /\ c \in Known
      BY <2>0 DEF PollBounds, Known
    <3>2. \A f \in Workflows : runs'[f] \subseteq Changes
      BY <1>0, <2>0, <2>10, <3>1 DEF StartRun, SetCursorFails, Started
    <3>3. \A f \in Workflows : cursor'[f] \in Known
      BY <1>0, <2>0, <2>10, <3>1 DEF StartRun, SetCursorFails
    <3>4. txns' = txns /\ confirmed' = confirmed
      BY <2>10 DEF StartRun, SetCursorFails
    <3> DEFINE y == [poller[w] EXCEPT !.out = @ \ {c}]
    <3>5. y.after = poller[w].after /\ y.upto = poller[w].upto /\ y.out = poller[w].out \ {c}
      BY <2>0 DEF PollRecord
    <3>6. Goes(w, y) \/ \E f : Goes(w, Poll(f))
      BY <2>10 DEF StartRun, SetCursorFails
    <3>7. PollBounds(y)
      <4>1. IsFiniteSet(poller[w].out)
        BY <1>0, <2>0, ChangesFinite DEF PollBounds, Changes
      <4>2. /\ Cardinality(poller[w].out \ {c}) <= Cardinality(poller[w].out)
            /\ Cardinality(poller[w].out \ {c}) \in Nat /\ Cardinality(poller[w].out) \in Nat
        BY <4>1, FS_Subset, FS_CardinalityType
      <4> HIDE DEF y
      <4> QED BY <1>0, <2>0, <3>5, <4>2 DEF PollBounds
    <3> HIDE DEF y
    <3> QED BY <1>2, <2>0, <2>2, <3>2, <3>3, <3>4, <3>6, <3>7
  <2> QED BY <1>3, <2>3, <2>4, <2>5, <2>6, <2>7, <2>8, <2>9, <2>10 DEF CdcStep
<1> QED BY <1>1, <1>3 DEF CdcNext

\* A batch is never longer than the limit, nor a position past the log.
LEMMA CdcHasTypes == CdcSpec => []CdcTypeOK
<1>1. CdcInit => CdcShape /\ CdcBounds
  <2> SUFFICES ASSUME CdcInit PROVE CdcShape /\ CdcBounds
    OBVIOUS
  <2>1. NoPosition \in Place /\ 1 \in Workflows /\ Poll(1) \in PollRecord
    <3>1. 1 \in Workflows
      BY CdcAssumption DEF Workflows
    <3>2. NoPosition \in Place
      BY DEF NoPosition, TableChange, Place
    <3> QED BY <3>1, <3>2 DEF Poll, PollRecord
  <2>2. CdcShape
    BY <2>1 DEF CdcInit, CdcShape
  <2>3. PollBounds(Poll(1))
    <3>1. /\ Poll(1).after = NoPosition /\ Poll(1).upto = 0 /\ Poll(1).out = {}
      BY DEF Poll
    <3>2. Cardinality({}) = 0 /\ FlushLSN \in Nat
      BY <2>2, FS_EmptySet, KnownPlaces
    <3> QED BY <3>1, <3>2, CdcAssumption DEF PollBounds, Known
  <2>4. txns \in Seq(0..MaxRows) /\ Len(txns) <= MaxTxns /\ confirmed <= FlushLSN
    BY CdcAssumption DEF CdcInit, FlushLSN
  <2> QED BY <2>2, <2>3, <2>4 DEF CdcInit, CdcBounds, Known
<1>2. CdcShape /\ CdcBounds /\ [CdcNext]_cdcVars => (CdcShape /\ CdcBounds)'
  <2> SUFFICES ASSUME CdcShape, CdcBounds, [CdcNext]_cdcVars PROVE CdcShape' /\ CdcBounds'
    OBVIOUS
  <2>1. CASE UNCHANGED cdcVars
    <3>1. UNCHANGED <<txns, confirmed, cursor, runs, poller>>
      BY <2>1 DEF cdcVars
    <3>2. Changes' = Changes /\ FlushLSN' = FlushLSN /\ Known' = Known
      BY <3>1 DEF Known, Changes, ChangesOf, FlushLSN, NoPosition
    <3> QED BY <3>1, <3>2 DEF CdcShape, CdcBounds, PollBounds
  <2> QED BY <2>1, CdcShapeKept, CdcBoundsKept
<1>3. CdcShape /\ CdcBounds => CdcTypeOK
  <2> SUFFICES ASSUME CdcShape, CdcBounds PROVE CdcTypeOK
    OBVIOUS
  <2>1. confirmed \in 0..FlushLSN
    BY KnownPlaces DEF CdcShape, CdcBounds
  <2>2. cursor \in [Workflows -> Known] /\ runs \in [Workflows -> SUBSET Changes]
    BY DEF CdcShape, CdcBounds
  <2>3. \A w \in CdcWorker : poller[w] \in PollRecord /\ PollBounds(poller[w])
    BY DEF CdcShape, CdcBounds
  <2> QED BY <2>1, <2>2, <2>3 DEF CdcTypeOK, CdcBounds, PollRecord, PollBounds, Known
<1> QED BY <1>1, <1>2, <1>3, PTL DEF CdcSpec

\* Every discovery under way has its place among the snapshots to be saved.
Discovering == {d \in Discoverer : discovery[d].at # "idle"}
MetaBounds ==
  /\ changed \in 0..MaxSchemaChanges
  /\ IsFiniteSet(Discovering) /\ Len(saved) + Cardinality(Discovering) <= MaxSaves

\* Every step keeps room for the snapshots of the discoveries under way.
LEMMA MetaBoundsKept ==
  ASSUME MetaShape, MetaBounds, [MetaNext]_metaVars
  PROVE  MetaBounds'
<1>0. /\ Len(saved) \in Nat /\ changed \in 0..MaxSchemaChanges /\ MaxSaves \in Nat
      /\ MaxSchemaChanges \in Nat
      /\ IsFiniteSet(Discovering) /\ Cardinality(Discovering) \in Nat
      /\ Len(saved) + Cardinality(Discovering) <= MaxSaves
      /\ discovery \in [Discoverer -> DiscoveryRecord]
      /\ \A d \in Discoverer : discovery[d] \in DiscoveryRecord
      /\ NoDiscovery.at = "idle"
  BY MetaAssumption, FS_CardinalityType DEF MetaShape, MetaBounds, NoDiscovery
<1>2. ASSUME NEW d \in Discoverer, ReadLatest(d) PROVE MetaBounds'
  <2>1. /\ discovery[d].at = "idle" /\ Len(saved) + Cardinality(Discovering) < MaxSaves
        /\ saved' = saved /\ changed' = changed
    BY <1>2 DEF ReadLatest, Discovering
  <2>2. discovery'[d].at = "asked" /\ \A e \in Discoverer : e # d => discovery'[e] = discovery[e]
    BY <1>0, <1>2 DEF ReadLatest
  <2>3. Discovering' = Discovering \cup {d} /\ d \notin Discovering
    BY <2>1, <2>2 DEF Discovering
  <2>4. IsFiniteSet(Discovering') /\ Cardinality(Discovering') = Cardinality(Discovering) + 1
    BY <1>0, <2>3, FS_AddElement
  <2> QED BY <1>0, <2>1, <2>4 DEF MetaBounds
\* A discovery ends, with a snapshot or without.
<1>3. ASSUME NEW d \in Discoverer, DiscoverFails(d) \/ SaveWrites(d) PROVE MetaBounds'
  <2>1. /\ discovery[d].at # "idle" /\ changed' = changed
        /\ discovery' = [discovery EXCEPT ![d] = NoDiscovery]
        /\ saved' = saved \/ saved' = Append(saved, [cat |-> discovery[d].cat, of |-> discovery[d].of])
    BY <1>3 DEF DiscoverFails, SaveWrites
  <2>2. discovery'[d].at = "idle" /\ \A e \in Discoverer : e # d => discovery'[e] = discovery[e]
    BY <1>0, <2>1
  <2>3. Discovering' = Discovering \ {d} /\ d \in Discovering
    BY <2>1, <2>2 DEF Discovering
  <2>4. IsFiniteSet(Discovering') /\ Cardinality(Discovering') = Cardinality(Discovering) - 1
    BY <1>0, <2>3, FS_RemoveElement
  <2>5. Len(saved') \in {Len(saved), Len(saved) + 1}
    <3> DEFINE entry == [cat |-> discovery[d].cat, of |-> discovery[d].of]
    <3>1. entry \in [cat: Catalog, of: System(metaKind)] /\ saved \in Seq([cat: Catalog, of: System(metaKind)])
      BY <1>0 DEF MetaShape, DiscoveryRecord
    <3> HIDE DEF entry
    <3>2. Len(Append(saved, entry)) = Len(saved) + 1
      BY <3>1
    <3> QED BY <2>1, <3>2 DEF entry
  <2> QED BY <1>0, <2>1, <2>4, <2>5 DEF MetaBounds
<1>4. ASSUME NEW d \in Discoverer, DiscoverOne(d) \/ SaveReads(d) PROVE MetaBounds'
  <2>1. saved' = saved /\ changed' = changed /\ discovery[d].at # "idle"
    BY <1>4 DEF DiscoverOne, SaveReads
  <2>2. /\ discovery'[d].at # "idle" /\ \A e \in Discoverer : e # d => discovery'[e] = discovery[e]
    <3>1. CASE DiscoverOne(d)
      BY <1>0, <3>1 DEF DiscoverOne, DiscoveryRecord
    <3>2. CASE SaveReads(d)
      BY <1>0, <3>2 DEF SaveReads, DiscoveryRecord
    <3> QED BY <1>4, <3>1, <3>2
  <2>3. Discovering' = Discovering
    BY <2>1, <2>2 DEF Discovering
  <2> QED BY <1>0, <2>1, <2>3 DEF MetaBounds
<1>5. CASE SystemChanges \/ WriteRefused \/ RefusalForgotten
  <2>1. UNCHANGED <<saved, discovery>> /\ changed' \in {changed, changed + 1}
        /\ (changed' = changed \/ changed < MaxSchemaChanges)
    BY <1>5 DEF SystemChanges, WriteRefused, RefusalForgotten
  <2>2. changed' \in 0..MaxSchemaChanges
    BY <1>0, <2>1
  <2>3. Discovering' = Discovering
    BY <2>1 DEF Discovering
  <2> QED BY <1>0, <2>1, <2>2, <2>3 DEF MetaBounds
<1>6. CASE UNCHANGED metaVars
  BY <1>0, <1>6 DEF metaVars, MetaBounds, Discovering
<1> QED BY <1>2, <1>3, <1>4, <1>5, <1>6 DEF MetaNext

\* Snapshots stay within their bound.
LEMMA MetaHasTypes == MetaSpec => []MetaTypeOK
<1>1. MetaInit => MetaBounds
  <2> SUFFICES ASSUME MetaInit PROVE MetaBounds
    OBVIOUS
  <2>1. Discovering = {}
    BY DEF MetaInit, Discovering, NoDiscovery
  <2>2. IsFiniteSet(Discovering) /\ Cardinality(Discovering) = 0 /\ Len(saved) = 0
    BY <2>1, FS_EmptySet DEF MetaInit
  <2>3. changed \in 0..MaxSchemaChanges
    BY MetaAssumption DEF MetaInit
  <2> QED BY <2>2, <2>3, MetaAssumption DEF MetaBounds
<1>2. MetaInv /\ MetaBounds /\ [MetaNext]_metaVars => MetaBounds'
  BY MetaBoundsKept DEF MetaInv
<1>3. MetaInv /\ MetaBounds => MetaTypeOK
  <2> SUFFICES ASSUME MetaInv, MetaBounds PROVE MetaTypeOK
    OBVIOUS
  <2>1. Len(saved) <= MaxSaves
    <3>1. Len(saved) \in Nat /\ Cardinality(Discovering) \in Nat
      BY FS_CardinalityType DEF MetaInv, MetaShape, MetaBounds
    <3> QED BY <3>1, MetaAssumption DEF MetaBounds
  <2> QED BY <2>1 DEF MetaInv, MetaShape, MetaBounds, DiscoveryRecord, MetaTypeOK
<1> QED BY <1>1, <1>2, <1>3, SnapshotsStaySeen, PTL DEF MetaSpec

\* In the composed model every part runs its own specification, whichever the
\* unit is, and each keeps its types and the bounds of its counters, queues
\* and batches: for any number of workers, calls, subscriptions, pollers and
\* discoveries.
THEOREM ConnectorsKeepTypes == MCSpec => []ConnectorsTypeOK
<1>1. MCInit => unit \in AllUnits
  BY UnitAssumption DEF MCInit
<1>2. unit \in AllUnits /\ [MCNext]_mcVars => (unit \in AllUnits)'
  BY Zenon DEF MCNext, mcVars
<1>3. /\ unit \in AllUnits
      /\ TokensTypeOK /\ SessionsTypeOK /\ StreamsTypeOK /\ CdcTypeOK /\ PollingTypeOK
      /\ TargetWriteTypeOK /\ RemoteTypeOK /\ MetaTypeOK
      => ConnectorsTypeOK
  BY DEF AllUnits, ConnectorsTypeOK
<1>4. MCSpec => [](unit \in AllUnits)
  BY <1>1, <1>2, PTL DEF MCSpec
<1> QED BY <1>3, <1>4, PartsRun, TokensHaveTypes, SessionsHaveTypes, StreamsHaveTypes, CdcHasTypes,
           PollsHaveTypes, TargetsHaveTypes, RemotesHaveTypes, MetaHasTypes, PTL
=============================================================================
