---------------------------- MODULE WalletProofs ----------------------------
(***************************************************************************)
(* What holds of the wallet for any number of orders, webhook requests and *)
(* purchases.  The first part needs no assumption on what runs when; the   *)
(* second takes the requests on a wallet one at a time and shows that the  *)
(* wallet then is a PointAccount.                                          *)
(***************************************************************************)
EXTENDS Wallet, FiniteSetTheorems, TLAPS

-----------------------------------------------------------------------------
(* An inductive invariant under any interleaving.  The safety properties   *)
(* are not inductive alone: they depend on what an open transaction has in *)
(* its hands, a snapshot that may be stale but was once a balance, and an  *)
(* order that was judged fit to be credited.                               *)

\* A stale snapshot is still non-negative and funded.
SnapshotsSound ==
    \A d \in Deliveries :
        stage[d] = "txOpen" => snapshot[d] >= 0 /\ snapshot[d] <= totalTopup

\* Past the check, a run works for an existing order.
CheckedOrdersExist ==
    \A d \in Deliveries : stage[d] \in {"checked", "txOpen"} => OrderOf(d) \in Orders

\* A request that may still fail as a job has an attempt left to fail with.
AttemptsLeft ==
    \A d \in Deliveries :
        stage[d] \in Running \cup {"unsent", "waiting"} => attempts[d] < JobAttempts

IInv ==
    /\ TypeOK
    /\ AttemptsLeft
    /\ NeverOverdrawn
    /\ PointsAreFunded
    /\ SnapshotsSound
    /\ CheckedOrdersExist
    /\ CompletedIffCredited
    /\ DoneMeansCredited

\* Appending a row leaves the rows before it where they are (the lemma the
\* ledger's invariants rest on).
LEMMA AppendRow ==
    ASSUME NEW row \in LedgerRow, ledger \in Seq(LedgerRow),
           ledger' = Append(ledger, row)
    PROVE  /\ ledger' \in Seq(LedgerRow)
           /\ Len(ledger) \in Nat
           /\ Len(ledger') = Len(ledger) + 1
           /\ DOMAIN ledger = 1..Len(ledger)
           /\ DOMAIN ledger' = 1..(Len(ledger) + 1)
           /\ \A i \in DOMAIN ledger : ledger'[i] = ledger[i]
           /\ ledger'[Len(ledger) + 1] = row
    OBVIOUS

\* The initial state satisfies the invariant.
LEMMA InitIInv == Init => IInv
<1> SUFFICES ASSUME Init PROVE IInv
    OBVIOUS
<1> USE DEF Init
<1>1. TypeOK
    BY WalletAssumption DEF TypeOK, Payload, Stage, Running, Settled
<1>2. NeverOverdrawn /\ PointsAreFunded
    BY DEF NeverOverdrawn, PointsAreFunded
<1>3. SnapshotsSound /\ CheckedOrdersExist /\ DoneMeansCredited /\ AttemptsLeft
    BY WalletAssumption DEF SnapshotsSound, CheckedOrdersExist, DoneMeansCredited, AttemptsLeft
<1>4. CompletedIffCredited
    BY DEF CompletedIffCredited, Credits
<1>5. QED
    BY <1>1, <1>2, <1>3, <1>4 DEF IInv

-----------------------------------------------------------------------------
(* Each action preserves the invariant.                                    *)

\* Placing an order touches neither money nor any webhook request.
LEMMA CreateTopupCheckoutIInv ==
    ASSUME IInv, NEW o \in Orders, CreateTopupCheckout(o)
    PROVE  IInv'
<1> USE DEF IInv, CreateTopupCheckout, walletRow, delivery, bounds
<1>1. TypeOK'
    BY DEF TypeOK
<1>2. (NeverOverdrawn /\ PointsAreFunded /\ SnapshotsSound /\ CheckedOrdersExist)'
    BY DEF NeverOverdrawn, PointsAreFunded, SnapshotsSound, CheckedOrdersExist, OrderOf
<1>3. CompletedIffCredited'
    <2>1. \A p \in Orders : Credits(p)' = Credits(p)
        BY DEF Credits
    <2>2. \A p \in Orders : order'[p] = "COMPLETED" <=> order[p] = "COMPLETED"
        BY DEF TypeOK
    <2>3. QED
        BY <2>1, <2>2 DEF CompletedIffCredited
<1>4. DoneMeansCredited'
    BY DEF DoneMeansCredited, OrderOf, TypeOK, Payload
<1>5. AttemptsLeft'
    BY DEF AttemptsLeft
<1>6. QED
    BY <1>1, <1>2, <1>3, <1>4, <1>5

\* A deduction lowers the balance, never below zero, and its ledger row is no
\* order's credit.
LEMMA DeductPointsIInv ==
    ASSUME IInv, NEW s \in Spends, DeductPoints(s)
    PROVE  IInv'
<1> USE DEF IInv, DeductPoints, delivery, bounds
<1> DEFINE row == [type |-> "SPEND", ref |-> s, pointDelta |-> -Cost[s],
                   balanceAfter |-> balance']
<1>1. Cost[s] \in Nat /\ balance \in Int /\ balance' \in Int
    BY WalletAssumption DEF TypeOK
<1>2. row \in LedgerRow
    BY <1>1 DEF LedgerRow
<1>3. ledger \in Seq(LedgerRow) /\ ledger' = Append(ledger, row)
    BY DEF TypeOK
<1>4. TypeOK'
    BY <1>1, <1>2, <1>3, AppendRow, WalletAssumption DEF TypeOK
<1>5. (NeverOverdrawn /\ PointsAreFunded)'
    BY <1>1 DEF NeverOverdrawn, PointsAreFunded, TypeOK, CanPay
<1>6. (SnapshotsSound /\ CheckedOrdersExist /\ DoneMeansCredited)'
    BY DEF SnapshotsSound, CheckedOrdersExist, DoneMeansCredited, OrderOf
<1>7. CompletedIffCredited'
    <2>1. \A p \in Orders : Credits(p)' = Credits(p)
        <3> HIDE DEF row
        <3>1. row.type = "SPEND"
            BY DEF row
        <3>2. QED
            BY <1>2, <1>3, <3>1, AppendRow DEF Credits
    <2>2. QED
        BY <2>1 DEF CompletedIffCredited
<1>8. AttemptsLeft'
    BY DEF AttemptsLeft
<1>9. QED
    BY <1>4, <1>5, <1>6, <1>7, <1>8

\* A new webhook request starts at the beginning.
LEMMA HandleTopupWebhookIInv ==
    ASSUME IInv, NEW d \in Deliveries, HandleTopupWebhook(d)
    PROVE  IInv'
<1> USE DEF IInv, HandleTopupWebhook, walletRow, bounds
<1>1. PICK p \in Payload : payload' = [payload EXCEPT ![d] = p]
    OBVIOUS
<1>2. TypeOK'
    BY <1>1 DEF TypeOK, Stage, Running
<1>3. (NeverOverdrawn /\ PointsAreFunded)'
    BY DEF NeverOverdrawn, PointsAreFunded
<1>4. (SnapshotsSound /\ CheckedOrdersExist /\ DoneMeansCredited)'
    BY <1>1 DEF SnapshotsSound, CheckedOrdersExist, DoneMeansCredited, OrderOf, TypeOK
<1>5. CompletedIffCredited'
    BY DEF CompletedIffCredited, Credits
<1>6. AttemptsLeft'
    BY DEF AttemptsLeft, TypeOK
<1>7. QED
    BY <1>2, <1>3, <1>4, <1>5, <1>6

\* A webhook that does not qualify is done: its order is credited already, or
\* it did not pay one in full.
LEMMA ReadOrderIInv ==
    ASSUME IInv, NEW d \in Deliveries, ReadOrder(d)
    PROVE  IInv'
<1> USE DEF IInv, ReadOrder, walletRow, bounds
<1>1. TypeOK'
    BY DEF TypeOK, Stage, Running, Settled
<1>2. (NeverOverdrawn /\ PointsAreFunded /\ SnapshotsSound)'
    BY DEF NeverOverdrawn, PointsAreFunded, SnapshotsSound, TypeOK
<1>3. CheckedOrdersExist'
    BY DEF CheckedOrdersExist, OrderOf, Qualifies, TypeOK, Payload
<1>4. DoneMeansCredited'
    BY DEF DoneMeansCredited, OrderOf, Qualifies, TypeOK, Payload
<1>5. CompletedIffCredited'
    BY DEF CompletedIffCredited, Credits
<1>6. AttemptsLeft'
    BY DEF AttemptsLeft, TypeOK, Running
<1>7. QED
    BY <1>1, <1>2, <1>3, <1>4, <1>5, <1>6

\* The snapshot is the balance at this instant, which is funded.
LEMMA ReadWalletIInv ==
    ASSUME IInv, NEW d \in Deliveries, ReadWallet(d)
    PROVE  IInv'
<1> USE DEF IInv, ReadWallet, walletRow, bounds
<1>1. TypeOK'
    BY DEF TypeOK, Stage, Running
<1>2. (NeverOverdrawn /\ PointsAreFunded /\ SnapshotsSound)'
    BY DEF NeverOverdrawn, PointsAreFunded, SnapshotsSound, TypeOK
<1>3. (CheckedOrdersExist /\ DoneMeansCredited)'
    BY DEF CheckedOrdersExist, DoneMeansCredited, OrderOf, TypeOK
<1>4. CompletedIffCredited'
    BY DEF CompletedIffCredited, Credits
<1>5. AttemptsLeft'
    BY DEF AttemptsLeft, TypeOK, Running
<1>6. QED
    BY <1>1, <1>2, <1>3, <1>4, <1>5

\* The commit writes a balance built from a snapshot: still non-negative and
\* funded, because the total grows by what the balance gains over the snapshot.
LEMMA CommitTopupIInv ==
    ASSUME IInv, NEW d \in Deliveries, CommitTopup(d)
    PROVE  IInv'
<1> USE DEF IInv, CommitTopup, bounds
<1>1. PICK o \in Orders : o = OrderOf(d)
    BY DEF CheckedOrdersExist
<1>2. /\ Amount[o] \in Nat /\ snapshot[d] \in Int /\ totalTopup \in Nat
      /\ snapshot[d] >= 0 /\ snapshot[d] <= totalTopup
    BY <1>1, WalletAssumption DEF TypeOK, SnapshotsSound
<1>3. TopupRow(d) \in LedgerRow
    BY <1>1, <1>2 DEF TopupRow, NextBalance, LedgerRow
<1>4. ledger \in Seq(LedgerRow) /\ ledger' = Append(ledger, TopupRow(d))
    BY DEF TypeOK
<1>5. TypeOK'
    <2>1. order' \in [Orders -> {"absent", "PENDING", "COMPLETED"}]
        BY DEF OrdersAfterCredit, TypeOK
    <2>2. balance' \in Int /\ totalTopup' \in Nat
        BY <1>1, <1>2 DEF NextBalance, NextTotal
    <2>3. ledger' \in Seq(LedgerRow)
        BY <1>3, <1>4, AppendRow
    <2>4. stage' \in [Deliveries -> Stage] /\ snapshot' \in [Deliveries -> Int]
        BY DEF TypeOK, Stage, Settled
    <2>5. QED
        BY <2>1, <2>2, <2>3, <2>4 DEF TypeOK
<1>6. (NeverOverdrawn /\ PointsAreFunded)'
    BY <1>1, <1>2 DEF NeverOverdrawn, PointsAreFunded, NextBalance, NextTotal
<1>7. SnapshotsSound'
    BY <1>1, <1>2 DEF SnapshotsSound, NextTotal, TypeOK
<1>8. CheckedOrdersExist'
    BY DEF CheckedOrdersExist, OrderOf, TypeOK
<1>9. order' = [order EXCEPT ![o] = "COMPLETED"]
    BY <1>1 DEF OrdersAfterCredit
<1>10. CompletedIffCredited'
    <2> DEFINE row == TopupRow(d)
    <2>1. row.type = "TOPUP" /\ row.ref = o
        BY <1>1 DEF TopupRow
    <2> HIDE DEF row
    <2>2. Len(ledger) + 1 \in Credits(o)'
        BY <1>3, <1>4, <2>1, AppendRow DEF Credits, row
    <2>3. \A p \in Orders : p # o => Credits(p)' = Credits(p)
        BY <1>3, <1>4, <2>1, AppendRow DEF Credits, row
    <2>4. \A p \in Orders : order'[p] = IF p = o THEN "COMPLETED" ELSE order[p]
        BY <1>1, <1>9 DEF TypeOK
    <2>5. QED
        BY <1>1, <2>2, <2>3, <2>4 DEF CompletedIffCredited
<1>11. DoneMeansCredited'
    <2> SUFFICES ASSUME NEW e \in Deliveries, stage'[e] = "done",
                        payload[e].order # NoOrder, payload[e].enough
                 PROVE  order'[payload[e].order] = "COMPLETED"
        BY DEF DoneMeansCredited, OrderOf
    <2>1. payload[e].order \in Orders
        BY DEF TypeOK, Payload
    <2>2. CASE e = d
        BY <1>1, <2>1, <2>2, <1>9 DEF OrderOf, TypeOK
    <2>3. CASE e # d
        <3>1. stage[e] = "done"
            BY <2>3 DEF TypeOK
        <3>2. order[payload[e].order] = "COMPLETED"
            BY <3>1 DEF DoneMeansCredited, OrderOf
        <3>3. QED
            BY <2>1, <3>2, <1>9 DEF TypeOK
    <2>4. QED
        BY <2>2, <2>3
<1>12. AttemptsLeft'
    BY DEF AttemptsLeft, TypeOK, Running
<1>13. QED
    BY <1>5, <1>6, <1>7, <1>8, <1>10, <1>11, <1>12

\* A failed run rolls back; nothing it touched is visible.
LEMMA ProcessingFailsIInv ==
    ASSUME IInv, NEW d \in Deliveries, ProcessingFails(d)
    PROVE  IInv'
<1> USE DEF IInv, ProcessingFails, walletRow
<1>1. stage' \in [Deliveries -> Stage] /\ attempts' \in [Deliveries -> 0..JobAttempts]
      /\ \A e \in Deliveries :
            \/ stage'[e] = stage[e]
            \/ stage'[e] \in {"waiting", "failed", "lost"}
    <2>1. CASE via[d] = "direct"
        BY <2>1 DEF TypeOK, Stage, Settled, AfterDirectError
    <2>2. CASE via[d] = "job"
        <3>1. attempts[d] + 1 \in 0..JobAttempts
            <4>1. attempts[d] \in 0..JobAttempts /\ attempts[d] < JobAttempts
                BY DEF TypeOK, AttemptsLeft
            <4>2. QED
                BY <4>1, WalletAssumption
        <3>2. stage'[d] = IF Exhausted(d) THEN "failed" ELSE "waiting"
            BY <2>2 DEF TypeOK
        <3>3. stage' \in [Deliveries -> Stage]
            BY <2>2 DEF TypeOK, Stage, Settled
        <3>4. attempts' \in [Deliveries -> 0..JobAttempts]
            BY <2>2, <3>1 DEF TypeOK
        <3>5. QED
            BY <2>2, <3>2, <3>3, <3>4 DEF TypeOK
    <2>3. QED
        BY <2>1, <2>2
<1>2. faults' \in 0..MaxFaults
    BY WalletAssumption DEF TypeOK
<1>3. TypeOK'
    BY <1>1, <1>2 DEF TypeOK
<1>4. (NeverOverdrawn /\ PointsAreFunded)'
    BY DEF NeverOverdrawn, PointsAreFunded
<1>5. SnapshotsSound'
    BY <1>1 DEF SnapshotsSound, TypeOK, PointsAreFunded, NeverOverdrawn
<1>6. (CheckedOrdersExist /\ DoneMeansCredited)'
    BY <1>1 DEF CheckedOrdersExist, DoneMeansCredited, OrderOf, TypeOK
<1>7. CompletedIffCredited'
    BY DEF CompletedIffCredited, Credits
<1>8. AttemptsLeft'
    BY WalletAssumption DEF AttemptsLeft, TypeOK, Exhausted, AfterDirectError, Running
<1>9. QED
    BY <1>3, <1>4, <1>5, <1>6, <1>7, <1>8

\* The queue's worker starts over from the order row.
LEMMA StartJobIInv ==
    ASSUME IInv, NEW d \in Deliveries, StartJob(d)
    PROVE  IInv'
<1> USE DEF IInv, StartJob, walletRow, bounds
<1>1. TypeOK'
    BY DEF TypeOK, Stage, Running
<1>2. (NeverOverdrawn /\ PointsAreFunded /\ SnapshotsSound)'
    BY DEF NeverOverdrawn, PointsAreFunded, SnapshotsSound, TypeOK
<1>3. (CheckedOrdersExist /\ DoneMeansCredited)'
    BY DEF CheckedOrdersExist, DoneMeansCredited, OrderOf, TypeOK
<1>4. CompletedIffCredited'
    BY DEF CompletedIffCredited, Credits
<1>5. AttemptsLeft'
    BY DEF AttemptsLeft, TypeOK
<1>6. QED
    BY <1>1, <1>2, <1>3, <1>4, <1>5

\* A crash leaves committed rows alone and no run half-way.
LEMMA CrashIInv ==
    ASSUME IInv, Crash
    PROVE  IInv'
<1> USE DEF IInv, Crash, walletRow
<1>1. stage' \in [Deliveries -> Stage]
      /\ \A e \in Deliveries :
            \/ stage'[e] = stage[e] /\ stage[e] \notin Running
            \/ stage'[e] \in {"waiting", "lost"}
    BY DEF TypeOK, Stage, Settled, InFlight
<1>2. TypeOK'
    BY <1>1, WalletAssumption DEF TypeOK
<1>3. (NeverOverdrawn /\ PointsAreFunded)'
    BY DEF NeverOverdrawn, PointsAreFunded
<1>4. (SnapshotsSound /\ CheckedOrdersExist /\ DoneMeansCredited)'
    BY <1>1 DEF SnapshotsSound, CheckedOrdersExist, DoneMeansCredited, OrderOf, Running
<1>5. CompletedIffCredited'
    BY DEF CompletedIffCredited, Credits
<1>6. AttemptsLeft'
    BY DEF AttemptsLeft, TypeOK, InFlight
<1>7. QED
    BY <1>2, <1>3, <1>4, <1>5, <1>6

\* Every step of the specification preserves the invariant.
LEMMA NextIInv == IInv /\ [Next]_vars => IInv'
<1> SUFFICES ASSUME IInv, [Next]_vars PROVE IInv'
    OBVIOUS
<1>1. CASE Next
    BY <1>1, CreateTopupCheckoutIInv, DeductPointsIInv, HandleTopupWebhookIInv,
       ReadOrderIInv, ReadWalletIInv, CommitTopupIInv, ProcessingFailsIInv,
       StartJobIInv, CrashIInv
       DEF Next
<1>2. CASE UNCHANGED vars
    BY <1>2 DEF vars, walletRow, delivery, bounds, IInv, TypeOK, NeverOverdrawn,
       PointsAreFunded, SnapshotsSound, CheckedOrdersExist, CompletedIffCredited,
       DoneMeansCredited, AttemptsLeft, Credits, OrderOf
<1>3. QED
    BY <1>1, <1>2

\* What holds under every overlap.
LEMMA WalletInvariant == Spec => []IInv
    BY InitIInv, NextIInv, PTL DEF Spec

\* Type correctness.
THEOREM WalletTypeOK == Spec => []TypeOK
<1>1. IInv => TypeOK
    BY DEF IInv
<1>2. QED
    BY <1>1, WalletInvariant, PTL

\* The balance stays between zero and what was credited, under any
\* interleaving of top-ups, deductions, failures and crashes.
THEOREM WalletSolvent == Spec => [](NeverOverdrawn /\ PointsAreFunded)
<1>1. IInv => NeverOverdrawn /\ PointsAreFunded
    BY DEF IInv
<1>2. QED
    BY <1>1, WalletInvariant, PTL

\* No point is in the wallet that was not credited to it.
THEOREM WalletPointsFunded == Spec => []PointsAreFunded
    BY WalletSolvent, PTL

\* An order is COMPLETED exactly when the ledger holds its credit.
THEOREM WalletCreditAtomic == Spec => []CompletedIffCredited
<1>1. IInv => CompletedIffCredited
    BY DEF IInv
<1>2. QED
    BY <1>1, WalletInvariant, PTL

\* No full payment is dismissed while its order is uncredited.
THEOREM WalletNoPaymentForgotten == Spec => []DoneMeansCredited
<1>1. IInv => DoneMeansCredited
    BY DEF IInv
<1>2. QED
    BY <1>1, WalletInvariant, PTL

-----------------------------------------------------------------------------
(* One request at a time.                                                  *)

\* With nothing else running, what an open transaction has read is still true
\* when it commits.
SerialInv ==
    /\ \A d, e \in InFlight : d = e
    /\ \A d \in Deliveries : stage[d] = "txOpen" => snapshot[d] = balance
    /\ \A d \in Deliveries :
          stage[d] \in {"checked", "txOpen"} => order[OrderOf(d)] # "COMPLETED"
    /\ LedgerAddsUp

\* Room for a request means that none is running.
LEMMA RoomMeansIdle ==
    ASSUME MaxConcurrent = 1, RoomForRequest
    PROVE  InFlight = {}
<1>1. IsFiniteSet(InFlight)
    BY WalletAssumption, FS_Subset DEF InFlight
<1>2. Cardinality(InFlight) \in Nat
    BY <1>1, FS_CardinalityType
<1>3. Cardinality(InFlight) = 0
    BY <1>2 DEF RoomForRequest
<1>4. QED
    BY <1>1, <1>3, FS_EmptySet

\* A row that starts from the balance keeps the history adding up.
LEMMA AppendAddsUp ==
    ASSUME NEW row \in LedgerRow, ledger \in Seq(LedgerRow), LedgerAddsUp,
           ledger' = Append(ledger, row), balance \in Int,
           row.balanceAfter = balance + row.pointDelta,
           balance' = row.balanceAfter
    PROVE  LedgerAddsUp'
<1>1. row.pointDelta \in Int /\ row.balanceAfter \in Int
    BY DEF LedgerRow
<1> DEFINE n == Len(ledger)
<1>2. n \in Nat /\ DOMAIN ledger = 1..n /\ DOMAIN ledger' = 1..(n + 1) /\ Len(ledger') = n + 1
    BY AppendRow
<1>3. \A i \in 1..n : ledger'[i] = ledger[i]
    BY AppendRow
<1>4. ledger'[n + 1] = row
    BY AppendRow
<1>5. ledger' # <<>>
    BY <1>2
<1>6. balance' = IF ledger' = <<>> THEN 0 ELSE ledger'[Len(ledger')].balanceAfter
    BY <1>2, <1>4, <1>5
<1>7. ASSUME NEW i \in DOMAIN ledger'
      PROVE  ledger'[i].balanceAfter =
                ledger'[i].pointDelta + (IF i = 1 THEN 0 ELSE ledger'[i - 1].balanceAfter)
    <2>1. CASE i \in 1..n
        <3>1. i # 1 => i - 1 \in 1..n
            BY <1>2, <2>1
        <3>2. QED
            BY <1>2, <1>3, <2>1, <3>1 DEF LedgerAddsUp
    <2>2. CASE i = n + 1 /\ n = 0
        <3>1. ledger = <<>> /\ balance = 0
            BY <2>2 DEF LedgerAddsUp
        <3>2. QED
            BY <1>1, <1>4, <2>2, <3>1
    <2>3. CASE i = n + 1 /\ n # 0
        <3>1. ledger # <<>> /\ balance = ledger[n].balanceAfter
            BY <1>2, <2>3 DEF LedgerAddsUp
        <3>2. n \in 1..n /\ i # 1 /\ i - 1 = n
            BY <1>2, <2>3
        <3>3. ledger'[i - 1].balanceAfter = balance
            BY <1>3, <3>1, <3>2
        <3>4. QED
            BY <1>1, <1>4, <2>3, <3>2, <3>3
    <2>4. QED
        BY <1>2, <2>1, <2>2, <2>3
<1>8. QED
    BY <1>6, <1>7 DEF LedgerAddsUp

\* No request is in flight at first.
LEMMA InitSerial == Init => SerialInv
    BY DEF Init, SerialInv, InFlight, Running, LedgerAddsUp

\* Every step keeps the serial invariant.
LEMMA NextSerial ==
    ASSUME MaxConcurrent = 1, IInv, SerialInv, [Next]_vars
    PROVE  SerialInv'
<1>1. TypeOK
    BY DEF IInv
<1>2. ASSUME NEW o \in Orders, CreateTopupCheckout(o)
      PROVE  SerialInv'
    BY <1>1, <1>2 DEF CreateTopupCheckout, SerialInv, InFlight, LedgerAddsUp, OrderOf,
       walletRow, delivery, TypeOK
<1>3. ASSUME NEW s \in Spends, DeductPoints(s)
      PROVE  SerialInv'
    <2>1. InFlight = {}
        BY <1>3, RoomMeansIdle DEF DeductPoints
    <2>2. \A d \in Deliveries : stage[d] \notin Running
        BY <2>1 DEF InFlight
    <2>3. LedgerAddsUp'
        <3> DEFINE row == [type |-> "SPEND", ref |-> s, pointDelta |-> -Cost[s],
                           balanceAfter |-> balance']
        <3>1. Cost[s] \in Nat /\ balance \in Int /\ balance' = balance - Cost[s]
            BY <1>1, <1>3, WalletAssumption DEF TypeOK, DeductPoints
        <3>2. row \in LedgerRow /\ row.balanceAfter = balance + row.pointDelta
            BY <3>1 DEF LedgerRow
        <3>3. QED
            BY <1>1, <1>3, <3>1, <3>2, AppendAddsUp DEF TypeOK, DeductPoints, SerialInv
    <2>4. QED
        BY <1>3, <2>2, <2>3 DEF DeductPoints, SerialInv, InFlight, delivery, Running
<1>4. ASSUME NEW d \in Deliveries, HandleTopupWebhook(d)
      PROVE  SerialInv'
    <2>1. \A e \in Deliveries : stage[e] \notin Running
        BY <1>4, RoomMeansIdle DEF HandleTopupWebhook, InFlight
    <2>2. \A e \in Deliveries : stage'[e] = IF e = d THEN "reading" ELSE stage[e]
        BY <1>1, <1>4 DEF HandleTopupWebhook, TypeOK
    <2>3. QED
        BY <1>4, <2>1, <2>2 DEF HandleTopupWebhook, SerialInv, InFlight, LedgerAddsUp,
           walletRow, Running
<1>5. ASSUME NEW d \in Deliveries, ReadOrder(d)
      PROVE  SerialInv'
    BY <1>1, <1>5 DEF ReadOrder, SerialInv, InFlight, LedgerAddsUp, walletRow, Running,
       TypeOK, Qualifies, OrderOf
<1>6. ASSUME NEW d \in Deliveries, ReadWallet(d)
      PROVE  SerialInv'
    BY <1>1, <1>6 DEF ReadWallet, SerialInv, InFlight, LedgerAddsUp, walletRow, Running,
       TypeOK, OrderOf
<1>7. ASSUME NEW d \in Deliveries, CommitTopup(d)
      PROVE  SerialInv'
    <2>1. OrderOf(d) \in Orders
        BY <1>7 DEF CommitTopup, IInv, CheckedOrdersExist
    <2>2. Amount[OrderOf(d)] \in Nat /\ balance \in Int /\ snapshot[d] = balance
        BY <1>1, <1>7, <2>1, WalletAssumption DEF CommitTopup, TypeOK, SerialInv
    <2>3. TopupRow(d) \in LedgerRow
          /\ TopupRow(d).balanceAfter = balance + TopupRow(d).pointDelta
          /\ balance' = TopupRow(d).balanceAfter
        BY <1>7, <2>1, <2>2 DEF CommitTopup, TopupRow, NextBalance, LedgerRow
    <2>4. LedgerAddsUp'
        BY <1>1, <1>7, <2>2, <2>3, AppendAddsUp DEF CommitTopup, TypeOK, SerialInv
    <2>5. \A e \in Deliveries : stage'[e] \notin Running
        <3>1. d \in InFlight
            BY <1>7 DEF CommitTopup, InFlight, Running
        <3>2. \A e \in Deliveries : e # d => stage[e] \notin Running
            BY <3>1 DEF SerialInv, InFlight
        <3>3. QED
            BY <1>1, <1>7, <3>2 DEF CommitTopup, TypeOK, Running
    <2>6. QED
        BY <2>4, <2>5 DEF SerialInv, InFlight, Running
<1>8. ASSUME NEW d \in Deliveries, ProcessingFails(d)
      PROVE  SerialInv'
    <2>1. d \in InFlight
        BY <1>8 DEF ProcessingFails, InFlight
    <2>2. \A e \in Deliveries : e # d => stage[e] \notin Running
        BY <2>1 DEF SerialInv, InFlight
    <2>3. \A e \in Deliveries : stage'[e] \notin Running
        BY <1>1, <1>8, <2>2 DEF ProcessingFails, TypeOK, Running, AfterDirectError
    <2>4. QED
        BY <1>8, <2>3 DEF ProcessingFails, SerialInv, InFlight, LedgerAddsUp, walletRow, Running
<1>9. ASSUME NEW d \in Deliveries, StartJob(d)
      PROVE  SerialInv'
    <2>1. \A e \in Deliveries : stage[e] \notin Running
        BY <1>9, RoomMeansIdle DEF StartJob, InFlight
    <2>2. \A e \in Deliveries : stage'[e] = IF e = d THEN "reading" ELSE stage[e]
        BY <1>1, <1>9 DEF StartJob, TypeOK
    <2>3. QED
        BY <1>9, <2>1, <2>2 DEF StartJob, SerialInv, InFlight, LedgerAddsUp, walletRow, Running
<1>10. ASSUME Crash
       PROVE  SerialInv'
    <2>1. \A e \in Deliveries : stage'[e] \notin Running
        BY <1>10 DEF Crash, InFlight, Running
    <2>2. QED
        BY <1>10, <2>1 DEF Crash, SerialInv, InFlight, LedgerAddsUp, walletRow, Running
<1>11. CASE UNCHANGED vars
    BY <1>11 DEF vars, walletRow, delivery, bounds, SerialInv, InFlight, LedgerAddsUp, OrderOf
<1>12. QED
    BY <1>2, <1>3, <1>4, <1>5, <1>6, <1>7, <1>8, <1>9, <1>10, <1>11 DEF Next

\* The transaction history adds up, for any number of requests one at a time.
THEOREM SerialLedger ==
    ASSUME MaxConcurrent = 1
    PROVE  Spec => []LedgerAddsUp
<1>1. IInv /\ SerialInv /\ [Next]_vars => SerialInv'
    BY NextSerial
<1>2. SerialInv => LedgerAddsUp
    BY DEF SerialInv
<1>3. QED
    BY <1>1, <1>2, InitSerial, WalletInvariant, PTL DEF Spec

-----------------------------------------------------------------------------
(* Refinement of PointAccount.                                             *)

completed == {o \in Orders : order[o] = "COMPLETED"}

\* The wallet starts as the abstract account does: empty.
LEMMA InitRefines == Init => Account!Init
    BY DEF Init, Account!Init

\* A committed top-up is a Credit, a deduction a Spend, every other step is
\* invisible to the account.
LEMMA StepRefines ==
    ASSUME MaxConcurrent = 1, IInv, SerialInv, [Next]_vars
    PROVE  [Account!Next]_(Account!accountVars)
<1>1. TypeOK
    BY DEF IInv
<1> USE DEF Account!accountVars
<1>2. ASSUME NEW o \in Orders, CreateTopupCheckout(o)
      PROVE  UNCHANGED Account!accountVars
    <2>1. completed' = completed
        BY <1>1, <1>2 DEF CreateTopupCheckout, TypeOK, completed
    <2>2. QED
        BY <1>2, <2>1 DEF CreateTopupCheckout, walletRow, completed
<1>3. ASSUME NEW s \in Spends, DeductPoints(s)
      PROVE  Account!Spend(s)
    BY <1>3 DEF DeductPoints, CanPay, Account!Spend
<1>4. ASSUME NEW d \in Deliveries, CommitTopup(d)
      PROVE  \E o \in Orders : Account!Credit(o)
    <2>1. PICK o \in Orders : o = OrderOf(d)
        BY <1>4 DEF CommitTopup, IInv, CheckedOrdersExist
    <2>2. o \notin completed /\ snapshot[d] = balance
        BY <1>4, <2>1 DEF CommitTopup, SerialInv, completed
    <2>3. order' = [order EXCEPT ![o] = "COMPLETED"]
        BY <1>4, <2>1 DEF CommitTopup, OrdersAfterCredit
    <2>4. completed' = completed \cup {o}
        BY <1>1, <2>3 DEF TypeOK, completed
    <2>5. balance' = balance + Amount[o] /\ charged' = charged
        BY <1>4, <2>1, <2>2 DEF CommitTopup, NextBalance
    <2>6. Account!Credit(o)
        BY <2>2, <2>4, <2>5 DEF Account!Credit, completed
    <2>7. QED
        BY <2>6
<1>5. ASSUME NEW d \in Deliveries,
             \/ HandleTopupWebhook(d) \/ ReadOrder(d) \/ ReadWallet(d)
             \/ ProcessingFails(d) \/ StartJob(d)
      PROVE  UNCHANGED Account!accountVars
    BY <1>5 DEF HandleTopupWebhook, ReadOrder, ReadWallet, ProcessingFails, StartJob,
       walletRow
<1>6. ASSUME Crash
      PROVE  UNCHANGED Account!accountVars
    BY <1>6 DEF Crash, walletRow
<1>7. CASE UNCHANGED vars
    BY <1>7 DEF vars, walletRow
<1>8. QED
    BY <1>2, <1>3, <1>4, <1>5, <1>6, <1>7 DEF Next, Account!Next

\* While the requests on a wallet do not overlap, the wallet is a PointAccount:
\* each order is credited once, each purchase charged once, nothing is lost.
THEOREM SerialImplementsPointAccount ==
    ASSUME MaxConcurrent = 1
    PROVE  Spec => ImplementsPointAccount
<1>1. IInv /\ SerialInv /\ [Next]_vars => SerialInv'
    BY NextSerial
<1>2. IInv /\ SerialInv /\ [Next]_vars => [Account!Next]_(Account!accountVars)
    BY StepRefines
<1>3. QED
    BY <1>1, <1>2, InitSerial, InitRefines, WalletInvariant, PTL
       DEF Spec, ImplementsPointAccount, Account!Spec
=============================================================================
