-------------------------- MODULE WithdrawalsProof --------------------------
(***************************************************************************)
(* Proofs about Wallet and Withdrawals, for any number of sellers, sales,  *)
(* requests and workers.                                                   *)
(*                                                                         *)
(* First what the requests' row locks and the unique constraint on the     *)
(* ledger give: a sale is credited once, and the money of a request leaves *)
(* once or comes back once.  Then what the wallets' locks add: the         *)
(* recorded balance is the sum of the ledger, and all of it together is    *)
(* the abstract account.                                                   *)
(***************************************************************************)
EXTENDS Withdrawals, FiniteSetTheorems, WellFoundedInduction, TLAPS

(***************************************************************************)
(* What a transaction may be, and what it may rely on at each point.       *)
(***************************************************************************)
IsTx(x) == x = [pc |-> x.pc, kind |-> x.kind, key |-> x.key, to |-> x.to, user |-> x.user,
                amount |-> x.amount, rows |-> x.rows, sum |-> x.sum]

WalletPc == {"lock", "locked", "posted"}

FeeRow(i) == Row(SellerOf[i], "platform_fee", i, - Fee(LineTotal[i]))
CreditRow(i) == Row(SellerOf[i], "credit", i, LineTotal[i] - Fee(LineTotal[i]))

IdleTx(x) == x.pc = "idle" /\ x.kind = "none"

SaleTx(x) == /\ x.kind = "sale" /\ x.pc \in WalletPc /\ x.key \in Items
             /\ x.pc = "posted" => x.rows = <<FeeRow(x.key), CreditRow(x.key)>>

(* Its request does not exist yet. *)
RequestTx(x) == /\ x.kind = "request" /\ x.pc \in WalletPc /\ x.key \in Requests
                /\ x.user \in Users /\ x.amount \in Int
                /\ req[x.key].status = "none"
                /\ x.pc = "posted" =>
                       x.rows = <<Row(x.user, "withdrawal", x.key, - x.amount)>>

(* It holds the row, so the decision is still open. *)
MoveTx(t, x) == /\ x.kind = "move" /\ x.key \in Requests
                /\ x.user \in Users /\ x.amount \in Int
                /\ rowLock[x.key] = t
                /\ x.to \in NEXT[req[x.key].status]
                /\ x.pc = "moving" => x.to \notin REVERSAL_STATUSES
                /\ x.pc \in WalletPc => x.to \in REVERSAL_STATUSES
                /\ x.pc \in WalletPc \cup {"moving"}
                /\ x.pc = "posted" => x.rows = <<Row(x.user, "refund", x.key, x.amount)>>

(* It alone pays out, and has not yet told the gateway to. *)
PayoutTx(x) == /\ x.kind = "payout" /\ x.pc \in {"payout", "answer"} /\ x.key \in Requests
               /\ req[x.key].status = "completed"
               /\ x.pc = "payout" => sent[x.key] = 0

TxOK(t, x) == /\ IsTx(x)
              /\ IdleTx(x) \/ SaleTx(x) \/ RequestTx(x) \/ MoveTx(t, x) \/ PayoutTx(x)

(* No two workers create the same request, nor pay out the same one. *)
Alone == \A s, t \in Workers :
             tx[s].kind = tx[t].kind /\ tx[s].kind \in {"request", "payout"}
               /\ tx[s].key = tx[t].key => s = t

RequestRow == [status : WithdrawalStatus \cup {"none"}, user : Users \cup {Nobody}, amount : Int]

RowsOK == /\ ledger \in Seq(LedgerRow)
          /\ req \in [Requests -> RequestRow]
          /\ \A w \in Requests : req[w].status # "none" => req[w].user \in Users
          /\ rowLock \in [Requests -> Workers \cup {Nobody}]
          /\ sent \in [Requests -> Nat]

SentOnce == \A w \in Requests : sent[w] <= (IF req[w].status = "completed" THEN 1 ELSE 0)

RefundedOnce == \A w \in Requests :
    IF req[w].status \in REVERSAL_STATUSES THEN \E n : RowsOf("refund", w) = {n}
                                           ELSE RowsOf("refund", w) = {}

Inv == /\ RowsOK
       /\ DOMAIN tx = Workers /\ tx = [t \in Workers |-> tx[t]]
       /\ \A t \in Workers : TxOK(t, tx[t])
       /\ Alone
       /\ SentOnce
       /\ RefundedOnce
       /\ SaleCreditedOnce

-----------------------------------------------------------------------------
LEMMA WorkFields ==
    ASSUME NEW pc, NEW kind, NEW key, NEW to, NEW user, NEW amount,
           NEW x, x = Work(pc, kind, key, to, user, amount)
    PROVE  /\ x.pc = pc /\ x.kind = kind /\ x.key = key /\ x.to = to
           /\ x.user = user /\ x.amount = amount /\ IsTx(x)
BY DEF Work, IsTx

LEMMA InitInv == Init => Inv
<1> SUFFICES ASSUME Init PROVE Inv
  OBVIOUS
<1>1. /\ ledger = <<>> /\ tx = [t \in Workers |-> NoTx]
      /\ req = [w \in Requests |-> NoRequest]
      /\ rowLock = [w \in Requests |-> Nobody]
      /\ sent = [w \in Requests |-> 0]
  BY Zenon DEF Init, WalletInit
<1>2. NoRequest \in RequestRow
  BY DEF NoRequest, RequestRow
<1>3. RowsOK
  BY <1>1, <1>2 DEF RowsOK, NoRequest
<1>4. \A t \in Workers : TxOK(t, tx[t])
  BY <1>1, WorkFields DEF TxOK, IdleTx, NoTx
<1>5. Alone
  BY <1>1, WorkFields DEF Alone, NoTx
<1>6. RefundedOnce /\ SaleCreditedOnce
  BY <1>1 DEF RefundedOnce, SaleCreditedOnce, RowsOf, NoRequest, REVERSAL_STATUSES
<1>7. SentOnce
  BY <1>1 DEF SentOnce
<1>8. DOMAIN tx = Workers /\ tx = [t \in Workers |-> tx[t]]
  BY <1>1
<1> QED
  BY <1>3, <1>4, <1>5, <1>6, <1>7, <1>8 DEF Inv

-----------------------------------------------------------------------------
(***************************************************************************)
(* Steps of one transaction that change no row but wallet locks.           *)
(***************************************************************************)
LEMMA OneChanges ==
    ASSUME Inv, NEW t \in Workers, NEW x, tx' = [tx EXCEPT ![t] = x]
    PROVE  /\ DOMAIN tx' = Workers /\ tx' = [s \in Workers |-> tx'[s]]
           /\ tx'[t] = x
           /\ \A s \in Workers \ {t} : tx'[s] = tx[s]
BY DEF Inv

(* Nobody else creates this request, or pays it out. *)
Unshared(t, x) == x.kind \in {"request", "payout"} =>
                      \A s \in Workers \ {t} : ~ (tx[s].kind = x.kind /\ tx[s].key = x.key)

LEMMA OwnWork == ASSUME Inv, NEW t \in Workers PROVE Unshared(t, tx[t])
BY DEF Inv, Alone, Unshared

LEMMA StaysAlone ==
    ASSUME Inv, NEW t \in Workers, NEW x, tx' = [tx EXCEPT ![t] = x], Unshared(t, x)
    PROVE  Alone'
BY OneChanges DEF Inv, Alone, Unshared

LEMMA OwnStep ==
    ASSUME Inv, NEW t \in Workers, NEW x, tx' = [tx EXCEPT ![t] = x],
           UNCHANGED <<ledger, req, rowLock, sent>>, TxOK(t, x), Unshared(t, x)
    PROVE  Inv'
<1>1. /\ tx'[t] = x /\ \A s \in Workers \ {t} : tx'[s] = tx[s]
      /\ DOMAIN tx' = Workers /\ tx' = [s \in Workers |-> tx'[s]]
  BY OneChanges
<1>2. \A s \in Workers : TxOK(s, tx[s])' 
  <2> SUFFICES ASSUME NEW s \in Workers PROVE TxOK(s, tx[s])'
    OBVIOUS
  <2>1. TxOK(s, tx'[s])
    BY <1>1 DEF Inv
  <2> QED
    BY <2>1 DEF TxOK, IsTx, IdleTx, SaleTx, RequestTx, MoveTx, PayoutTx
<1>3. Alone'
  BY StaysAlone
<1>4. RowsOK' /\ SentOnce'
  BY DEF Inv, RowsOK, SentOnce
<1>5. RefundedOnce'
  BY DEF Inv, RefundedOnce, RowsOf
<1>6. SaleCreditedOnce'
  <2>1. SaleCreditedOnce /\ ledger' = ledger
    BY DEF Inv
  <2>2. \A type, ref : RowsOf(type, ref)' = RowsOf(type, ref)
    BY <2>1 DEF RowsOf
  <2> QED
    BY <2>1, <2>2, Zenon DEF SaleCreditedOnce
<1> QED
  BY <1>1, <1>2, <1>3, <1>4, <1>5, <1>6 DEF Inv

LEMMA IdleIsOK == ASSUME NEW t PROVE TxOK(t, NoTx) /\ Unshared(t, NoTx)
BY WorkFields DEF TxOK, IdleTx, NoTx, Unshared

LEMMA LockWalletInv == ASSUME Inv, NEW t \in Workers, LockWallet(t), UNCHANGED requestVars
                       PROVE  Inv'
<1> DEFINE x == [tx[t] EXCEPT !.pc = "locked"]
<1>1. tx' = [tx EXCEPT ![t] = x] /\ tx[t].pc = "lock"
  BY DEF LockWallet
<1>2. TxOK(t, tx[t])
  BY DEF Inv
<1>3. /\ x.pc = "locked" /\ x.kind = tx[t].kind /\ x.key = tx[t].key /\ x.to = tx[t].to
      /\ x.user = tx[t].user /\ x.amount = tx[t].amount /\ IsTx(x)
  BY <1>2 DEF TxOK, IsTx
<1>4. TxOK(t, x)
  BY <1>1, <1>2, <1>3 DEF TxOK, IdleTx, SaleTx, RequestTx, MoveTx, PayoutTx, WalletPc
<1>5. Unshared(t, x)
  BY OwnWork, <1>3 DEF Unshared
<1>6. UNCHANGED <<ledger, req, rowLock, sent>>
  BY DEF LockWallet, requestVars
<1> HIDE DEF x
<1> QED
  BY <1>1, <1>4, <1>5, <1>6, OwnStep

LEMMA SaleBeginInv == ASSUME Inv, NEW t \in Workers, NEW i \in Items, SaleBegin(t, i),
                             UNCHANGED requestVars
                      PROVE  Inv'
<1> DEFINE x == Work("lock", "sale", i, "none", SellerOf[i], 0)
<1>1. tx' = [tx EXCEPT ![t] = x]
  BY DEF SaleBegin, Begin
<1>4. x.pc = "lock" /\ x.kind = "sale" /\ x.key = i /\ IsTx(x)
  BY WorkFields
<1>2. TxOK(t, x) /\ Unshared(t, x)
  BY <1>4 DEF TxOK, SaleTx, WalletPc, Unshared
<1>3. UNCHANGED <<ledger, req, rowLock, sent>>
  BY DEF SaleBegin, requestVars, walletVars
<1> HIDE DEF x
<1> QED
  BY <1>1, <1>2, <1>3, OwnStep

LEMMA RequestBeginInv ==
    ASSUME Inv, NEW t \in Workers, NEW w \in Requests, NEW u \in Users, NEW amount \in Amounts,
           RequestBegin(t, w, u, amount)
    PROVE  Inv'
<1> DEFINE x == Work("lock", "request", w, "none", u, amount)
<1>1. tx' = [tx EXCEPT ![t] = x]
  BY DEF RequestBegin, Begin
<1>2. amount \in Int /\ req[w].status = "none"
  BY WithdrawalsAssumption DEF RequestBegin
<1>6. /\ x.pc = "lock" /\ x.kind = "request" /\ x.key = w /\ x.user = u /\ x.amount = amount
      /\ IsTx(x)
  BY WorkFields
<1>3. TxOK(t, x)
  BY <1>2, <1>6 DEF TxOK, RequestTx, WalletPc
<1>4. Unshared(t, x)
  BY <1>6 DEF Unshared, RequestBegin
<1>5. UNCHANGED <<ledger, req, rowLock, sent>>
  BY DEF RequestBegin, requestVars, walletVars
<1> HIDE DEF x
<1> QED
  BY <1>1, <1>3, <1>4, <1>5, OwnStep

LEMMA PostedRecord ==
    ASSUME NEW y, IsTx(y), NEW rows, NEW sum, NEW x,
           x = [y EXCEPT !.pc = "posted", !.rows = rows, !.sum = sum]
    PROVE  /\ x.pc = "posted" /\ x.kind = y.kind /\ x.key = y.key /\ x.to = y.to
           /\ x.user = y.user /\ x.amount = y.amount /\ x.rows = rows /\ IsTx(x)
BY DEF IsTx

(* Post adds the rows to the record; the rest of it stays. *)
LEMMA PostInv ==
    ASSUME Inv, NEW t \in Workers, NEW rows, Post(t, rows), UNCHANGED requestVars,
           \/ SaleTx(tx[t]) /\ rows = <<FeeRow(tx[t].key), CreditRow(tx[t].key)>>
           \/ RequestTx(tx[t]) /\ rows = <<Row(tx[t].user, "withdrawal", tx[t].key, - tx[t].amount)>>
           \/ /\ MoveTx(t, tx[t]) /\ tx[t].pc = "locked"
              /\ rows = <<Row(tx[t].user, "refund", tx[t].key, tx[t].amount)>>
    PROVE  Inv'
<1>1. PICK sum : tx' = [tx EXCEPT ![t] = [tx[t] EXCEPT !.pc = "posted", !.rows = rows,
                                                        !.sum = sum]]
  BY DEF Post, Inv
<1>2. TxOK(t, tx[t])
  BY DEF Inv
<1> DEFINE x == [tx[t] EXCEPT !.pc = "posted", !.rows = rows, !.sum = sum]
<1>3. /\ x.pc = "posted" /\ x.kind = tx[t].kind /\ x.key = tx[t].key /\ x.to = tx[t].to
      /\ x.user = tx[t].user /\ x.amount = tx[t].amount /\ x.rows = rows /\ IsTx(x)
  BY <1>2, PostedRecord DEF TxOK
<1>4. TxOK(t, x)
  BY <1>3 DEF TxOK, SaleTx, RequestTx, MoveTx, WalletPc
<1>5. Unshared(t, x)
  BY OwnWork, <1>3 DEF Unshared
<1>7. tx' = [tx EXCEPT ![t] = x]
  BY <1>1
<1>6. UNCHANGED <<ledger, req, rowLock, sent>>
  BY DEF Post, walletVars, requestVars
<1> HIDE DEF x
<1> QED
  BY <1>7, <1>4, <1>5, <1>6, OwnStep

LEMMA RollbackInv ==
    ASSUME Inv, NEW t \in Workers, Rollback(t), UNCHANGED requestVars
    PROVE  Inv'
<1>1. tx' = [tx EXCEPT ![t] = NoTx] /\ UNCHANGED <<ledger, req, rowLock, sent>>
  BY DEF Rollback, requestVars
<1> QED
  BY <1>1, IdleIsOK, OwnStep

-----------------------------------------------------------------------------
(***************************************************************************)
(* Steps that write rows.  The other transactions keep what they rely on   *)
(* when the requests they are about keep theirs.                           *)
(***************************************************************************)
KeyKept(s) == /\ req'[tx[s].key] = req[tx[s].key]
              /\ sent'[tx[s].key] = sent[tx[s].key]
              /\ rowLock[tx[s].key] = s => rowLock'[tx[s].key] = s

LEMMA RowStep ==
    ASSUME Inv, NEW t \in Workers, NEW x, tx' = [tx EXCEPT ![t] = x],
           TxOK(t, x)', Unshared(t, x),
           \A s \in Workers \ {t} : tx[s].kind \in {"request", "move", "payout"} => KeyKept(s),
           RowsOK', SentOnce', RefundedOnce', SaleCreditedOnce'
    PROVE  Inv'
<1>1. /\ tx'[t] = x /\ \A s \in Workers \ {t} : tx'[s] = tx[s]
      /\ DOMAIN tx' = Workers /\ tx' = [s \in Workers |-> tx'[s]]
  BY OneChanges
<1>2. ASSUME NEW s \in Workers PROVE TxOK(s, tx[s])'
  <2>1. PICK y : y = tx'[s]
    OBVIOUS
  <2>2. TxOK(s, y)'
    <3>1. CASE s = t
      BY <1>1, <2>1, <3>1
    <3>2. CASE s # t
      <4>1. TxOK(s, y) /\ y = tx[s]
        BY <1>1, <2>1, <3>2 DEF Inv
      <4>2. y.kind \in {"request", "move", "payout"} => KeyKept(s)
        BY <3>2, <4>1
      <4> QED
        BY <4>1, <4>2 DEF TxOK, IsTx, IdleTx, SaleTx, RequestTx, MoveTx, PayoutTx, KeyKept
    <3> QED
      BY <3>1, <3>2
  <2> QED
    BY <2>1, <2>2 DEF TxOK, IsTx, IdleTx, SaleTx, RequestTx, MoveTx, PayoutTx
<1>3. Alone'
  BY StaysAlone
<1> QED
  BY <1>1, <1>2, <1>3 DEF Inv

(* From where a decision can start.                                        *)
LEMMA NextFacts ==
    ASSUME NEW status \in WithdrawalStatus \cup {"none"}, NEW to \in NEXT[status]
    PROVE  status \in {"pending", "processing"} /\ to \in WithdrawalStatus
BY DEF NEXT, WithdrawalStatus

LEMMA OneRow ==
    ASSUME ledger \in Seq(LedgerRow), NEW r \in LedgerRow, ledger' = ledger \o <<r>>
    PROVE  /\ ledger' \in Seq(LedgerRow)
           /\ \A n \in DOMAIN ledger : n \in DOMAIN ledger' /\ ledger'[n] = ledger[n]
           /\ \A type, ref : r.type # type \/ r.ref # ref =>
                                  RowsOf(type, ref)' = RowsOf(type, ref)
           /\ RowsOf(r.type, r.ref)' = RowsOf(r.type, r.ref) \cup {Len(ledger) + 1}
<1>1. /\ ledger' \in Seq(LedgerRow)
      /\ DOMAIN ledger' = DOMAIN ledger \cup {Len(ledger) + 1}
      /\ \A n \in DOMAIN ledger : ledger'[n] = ledger[n]
      /\ ledger'[Len(ledger) + 1] = r
  OBVIOUS
<1> QED
  BY <1>1, Zenon DEF RowsOf

LEMMA TwoRows ==
    ASSUME ledger \in Seq(LedgerRow), NEW a \in LedgerRow, NEW b \in LedgerRow,
           ledger' = ledger \o <<a, b>>, a.type # b.type
    PROVE  /\ ledger' \in Seq(LedgerRow)
           /\ DOMAIN ledger \subseteq DOMAIN ledger'
           /\ \A n \in DOMAIN ledger : ledger'[n] = ledger[n]
           /\ Len(ledger) + 1 \in DOMAIN ledger' /\ ledger'[Len(ledger) + 1] = a
           /\ Len(ledger) + 2 \in DOMAIN ledger' /\ ledger'[Len(ledger) + 2] = b
           /\ \A type, ref :
                 ~ (a.type = type /\ a.ref = ref) /\ ~ (b.type = type /\ b.ref = ref)
                   => RowsOf(type, ref)' = RowsOf(type, ref)
           /\ RowsOf(a.type, a.ref)' = RowsOf(a.type, a.ref) \cup {Len(ledger) + 1}
           /\ RowsOf(b.type, b.ref)' = RowsOf(b.type, b.ref) \cup {Len(ledger) + 2}
<1> DEFINE s == <<a, b>>
<1>1. s \in Seq(LedgerRow) /\ Len(s) = 2 /\ s[1] = a /\ s[2] = b
  OBVIOUS
<1>2. ledger' = ledger \o s
  OBVIOUS
<1> HIDE DEF s
<1>3. ledger' \in Seq(LedgerRow) /\ Len(ledger') = Len(ledger) + 2 /\ Len(ledger) \in Nat
  BY <1>1, <1>2
<1>4. \A n \in 1 .. Len(ledger) + 2 :
          ledger'[n] = IF n <= Len(ledger) THEN ledger[n] ELSE s[n - Len(ledger)]
  BY <1>1, <1>2
<1>5. DOMAIN ledger = 1 .. Len(ledger) /\ DOMAIN ledger' = 1 .. Len(ledger) + 2
  BY <1>3
<1>6. DOMAIN ledger' = DOMAIN ledger \cup {Len(ledger) + 1, Len(ledger) + 2}
  BY <1>3, <1>5
<1>7. /\ \A n \in DOMAIN ledger : ledger'[n] = ledger[n]
      /\ ledger'[Len(ledger) + 1] = a /\ ledger'[Len(ledger) + 2] = b
  BY <1>1, <1>3, <1>4, <1>5
<1> QED
  BY <1>3, <1>6, <1>7, Zenon DEF RowsOf

(* A row of another type leaves the sales as they are.                     *)
LEMMA SalesKept ==
    ASSUME SaleCreditedOnce, ledger \in Seq(LedgerRow), NEW r \in LedgerRow,
           ledger' = ledger \o <<r>>, r.type \notin {"platform_fee", "credit"}
    PROVE  SaleCreditedOnce'
<1> SUFFICES ASSUME NEW i \in Items
             PROVE  \/ RowsOf("platform_fee", i)' = {} /\ RowsOf("credit", i)' = {}
                    \/ \E f, c \in DOMAIN ledger' :
                         /\ RowsOf("platform_fee", i)' = {f}
                         /\ RowsOf("credit", i)' = {c}
                         /\ ledger'[f].user = SellerOf[i] /\ ledger'[c].user = SellerOf[i]
                         /\ ledger'[c].amount - ledger'[f].amount = LineTotal[i]
  BY Zenon DEF SaleCreditedOnce
<1>1. /\ RowsOf("platform_fee", i)' = RowsOf("platform_fee", i)
      /\ RowsOf("credit", i)' = RowsOf("credit", i)
      /\ \A n \in DOMAIN ledger : n \in DOMAIN ledger' /\ ledger'[n] = ledger[n]
  BY OneRow
<1>2. \/ RowsOf("platform_fee", i) = {} /\ RowsOf("credit", i) = {}
      \/ \E f, c \in DOMAIN ledger :
            /\ RowsOf("platform_fee", i) = {f}
            /\ RowsOf("credit", i) = {c}
            /\ ledger[f].user = SellerOf[i] /\ ledger[c].user = SellerOf[i]
            /\ ledger[c].amount - ledger[f].amount = LineTotal[i]
  BY Zenon DEF SaleCreditedOnce
<1> QED
  BY <1>1, <1>2, Zenon

-----------------------------------------------------------------------------
(***************************************************************************)
(* The actions that post rows: the rows wait in the transaction.           *)
(***************************************************************************)
LEMMA SalePostInv ==
    ASSUME Inv, NEW t \in Workers, SalePost(t), UNCHANGED requestVars PROVE Inv'
<1> DEFINE i == tx[t].key
<1>1. /\ tx[t].pc = "locked" /\ tx[t].kind = "sale"
      /\ Post(t, <<FeeRow(i), CreditRow(i)>>) \/ Rollback(t)
  BY DEF SalePost, FeeRow, CreditRow
<1>2. SaleTx(tx[t])
  BY <1>1 DEF Inv, TxOK, IdleTx, RequestTx, MoveTx, PayoutTx
<1> QED
  BY <1>1, <1>2, PostInv, RollbackInv

LEMMA RequestPostInv ==
    ASSUME Inv, NEW t \in Workers, RequestPost(t) PROVE Inv'
<1>1. /\ tx[t].pc = "locked" /\ tx[t].kind = "request" /\ UNCHANGED requestVars
      /\ \/ Post(t, <<Row(tx[t].user, "withdrawal", tx[t].key, - tx[t].amount)>>)
         \/ Rollback(t)
  BY DEF RequestPost
<1>2. RequestTx(tx[t])
  BY <1>1 DEF Inv, TxOK, IdleTx, SaleTx, MoveTx, PayoutTx
<1> QED
  BY <1>1, <1>2, PostInv, RollbackInv

LEMMA AdminPostInv ==
    ASSUME Inv, NEW t \in Workers, AdminPost(t) PROVE Inv'
<1>1. /\ tx[t].pc = "locked" /\ tx[t].kind = "move" /\ UNCHANGED requestVars
      /\ Post(t, <<Row(tx[t].user, "refund", tx[t].key, tx[t].amount)>>)
  BY DEF AdminPost
<1>2. MoveTx(t, tx[t])
  BY <1>1 DEF Inv, TxOK, IdleTx, SaleTx, RequestTx, PayoutTx
<1> QED
  BY <1>1, <1>2, PostInv

-----------------------------------------------------------------------------
(***************************************************************************)
(* The payout.                                                             *)
(***************************************************************************)
LEMMA PayoutEndInv ==
    ASSUME Inv, NEW t \in Workers, PayoutUnavailable(t) \/ PayoutAnswered(t) PROVE Inv'
<1>1. tx' = [tx EXCEPT ![t] = NoTx] /\ UNCHANGED <<ledger, req, rowLock, sent>>
  BY DEF PayoutUnavailable, PayoutAnswered, walletVars
<1> QED
  BY <1>1, IdleIsOK, OwnStep

LEMMA PayoutTakenInv ==
    ASSUME Inv, NEW t \in Workers, PayoutTaken(t) PROVE Inv'
<1> PICK x : x = [tx[t] EXCEPT !.pc = "answer"]
  OBVIOUS
<1> PICK w : w = tx[t].key
  OBVIOUS
<1>1. /\ tx[t].pc = "payout" /\ tx' = [tx EXCEPT ![t] = x]
      /\ sent' = [sent EXCEPT ![w] = @ + 1]
      /\ UNCHANGED <<ledger, req, rowLock>>
  BY DEF PayoutTaken, walletVars
<1>2. PayoutTx(tx[t]) /\ IsTx(tx[t])
  BY <1>1 DEF Inv, TxOK, IdleTx, SaleTx, RequestTx, MoveTx, WalletPc
<1>3. /\ x.pc = "answer" /\ x.kind = tx[t].kind /\ x.key = w /\ IsTx(x)
  BY <1>2 DEF IsTx
<1>4. TxOK(t, x)'
  BY <1>1, <1>2, <1>3 DEF TxOK, PayoutTx, IsTx
<1>5. Unshared(t, x)
  BY OwnWork, <1>3 DEF Unshared
<1>6. ASSUME NEW s \in Workers \ {t}, tx[s].kind \in {"request", "move", "payout"}
      PROVE  KeyKept(s)
  <2>1. TxOK(s, tx[s]) /\ s \in Workers
    BY DEF Inv
  <2>2. tx[s].key # w
    <3>1. CASE tx[s].kind = "request"
      BY <1>2, <2>1, <3>1 DEF TxOK, IdleTx, SaleTx, RequestTx, MoveTx, PayoutTx
    <3>2. CASE tx[s].kind = "payout"
      BY <1>2, <3>2 DEF Inv, Alone, PayoutTx
    <3>3. CASE tx[s].kind = "move"
      <4>1. MoveTx(s, tx[s])
        BY <2>1, <3>3 DEF TxOK, IdleTx, SaleTx, RequestTx, PayoutTx
      <4>2. req[w].status = "completed" /\ NEXT["completed"] = {}
        BY <1>2 DEF PayoutTx, NEXT
      <4> QED
        BY <4>1, <4>2, Zenon DEF MoveTx
    <3> QED
      BY <1>6, <3>1, <3>2, <3>3
  <2>3. tx[s].key \in Requests
    BY <1>6, <2>1 DEF TxOK, IdleTx, SaleTx, RequestTx, MoveTx, PayoutTx
  <2> QED
    BY <1>1, <2>2, <2>3 DEF KeyKept, Inv, RowsOK
<1>7. w \in Requests /\ sent[w] = 0 /\ req[w].status = "completed"
  BY <1>1, <1>2 DEF PayoutTx
<1>8. RowsOK' /\ SentOnce'
  BY <1>1, <1>7 DEF Inv, RowsOK, SentOnce
<1>9. RefundedOnce'
  BY <1>1 DEF Inv, RefundedOnce, RowsOf
<1>10. SaleCreditedOnce'
  <2>1. SaleCreditedOnce /\ \A type, ref : RowsOf(type, ref)' = RowsOf(type, ref)
    BY <1>1 DEF Inv, RowsOf
  <2> QED
    BY <1>1, <2>1, Zenon DEF SaleCreditedOnce
<1> QED
  BY <1>1, <1>4, <1>5, <1>6, <1>8, <1>9, <1>10, RowStep

-----------------------------------------------------------------------------
(***************************************************************************)
(* Locking a request's row, and losing it.                                 *)
(***************************************************************************)
LEMMA AdminLockInv ==
    ASSUME Inv, NEW t \in Workers, NEW w \in Requests, NEW to \in WithdrawalStatus,
           AdminLock(t, w, to)
    PROVE  Inv'
<1> PICK pc : pc = IF to \in REVERSAL_STATUSES THEN "lock" ELSE "moving"
  OBVIOUS
<1> PICK x : x = Work(pc, "move", w, to, req[w].user, req[w].amount)
  OBVIOUS
<1>1. /\ tx' = [tx EXCEPT ![t] = x] /\ rowLock[w] = Nobody /\ to \in NEXT[req[w].status]
      /\ rowLock' = [rowLock EXCEPT ![w] = t] /\ UNCHANGED <<ledger, req, sent>>
  BY DEF AdminLock, Begin, walletVars
<1>2. /\ x.pc = pc /\ x.kind = "move" /\ x.key = w /\ x.to = to
      /\ x.user = req[w].user /\ x.amount = req[w].amount /\ IsTx(x)
  BY WorkFields
<1>3. RowsOK'
  BY <1>1 DEF Inv, RowsOK
<1>4. req[w].user \in Users /\ req[w].amount \in Int /\ rowLock'[w] = t
  <2>1. req[w].status \in WithdrawalStatus \cup {"none"}
    BY DEF Inv, RowsOK, RequestRow
  <2>2. req[w].status # "none"
    BY <1>1, <2>1, NextFacts
  <2> QED
    BY <1>1, <2>2 DEF Inv, RowsOK, RequestRow
<1>5. TxOK(t, x)'
  <2>1. MoveTx(t, x)'
    BY <1>1, <1>2, <1>4, Zenon DEF MoveTx, WalletPc
  <2> QED
    BY <1>2, <2>1 DEF TxOK, IsTx
<1>6. Unshared(t, x)
  BY <1>2 DEF Unshared
<1>7. ASSUME NEW s \in Workers \ {t}, tx[s].kind \in {"request", "move", "payout"}
      PROVE  KeyKept(s)
  BY <1>1, WalletAssumption DEF KeyKept, Inv, RowsOK
<1>8. SentOnce' /\ RefundedOnce'
  BY <1>1 DEF Inv, SentOnce, RefundedOnce, RowsOf
<1>9. SaleCreditedOnce'
  <2>1. SaleCreditedOnce /\ \A type, ref : RowsOf(type, ref)' = RowsOf(type, ref)
    BY <1>1 DEF Inv, RowsOf
  <2> QED
    BY <1>1, <2>1, Zenon DEF SaleCreditedOnce
<1> QED
  BY <1>1, <1>3, <1>5, <1>6, <1>7, <1>8, <1>9, RowStep

LEMMA CrashInv ==
    ASSUME Inv, NEW t \in Workers, Crash(t) PROVE Inv'
<1> PICK x : x = NoTx
  OBVIOUS
<1>1. /\ tx' = [tx EXCEPT ![t] = x] /\ FreeRows(t) /\ UNCHANGED <<ledger, req, sent>>
  BY DEF Crash, Rollback
<1>2. x.pc = "idle" /\ x.kind = "none" /\ IsTx(x)
  BY WorkFields DEF NoTx
<1>3. RowsOK'
  BY <1>1 DEF Inv, RowsOK, FreeRows
<1>4. TxOK(t, x)'
  BY <1>2 DEF TxOK, IdleTx, IsTx
<1>5. Unshared(t, x)
  BY <1>2 DEF Unshared
<1>6. ASSUME NEW s \in Workers \ {t}, tx[s].kind \in {"request", "move", "payout"}
      PROVE  KeyKept(s)
  <2>1. tx[s].key \in Requests
    BY <1>6 DEF Inv, TxOK, IdleTx, SaleTx, RequestTx, MoveTx, PayoutTx
  <2> QED
    BY <1>1, <2>1 DEF KeyKept, FreeRows
<1>7. SentOnce' /\ RefundedOnce'
  BY <1>1 DEF Inv, SentOnce, RefundedOnce, RowsOf
<1>8. SaleCreditedOnce'
  <2>1. SaleCreditedOnce /\ \A type, ref : RowsOf(type, ref)' = RowsOf(type, ref)
    BY <1>1 DEF Inv, RowsOf
  <2> QED
    BY <1>1, <2>1, Zenon DEF SaleCreditedOnce
<1> QED
  BY <1>1, <1>3, <1>4, <1>5, <1>6, <1>7, <1>8, RowStep

-----------------------------------------------------------------------------
(***************************************************************************)
(* The commits.                                                            *)
(***************************************************************************)
(* The rows of a sale, and that they are its first.                        *)
SaleRows(t, i, fee, credit) ==
    /\ i \in Items /\ tx[t].rows = <<fee, credit>>
    /\ fee.user = SellerOf[i] /\ credit.user = SellerOf[i]
    /\ credit.amount - fee.amount = LineTotal[i]
    /\ ledger' \in Seq(LedgerRow)
    /\ \A n \in DOMAIN ledger : n \in DOMAIN ledger' /\ ledger'[n] = ledger[n]
    /\ Len(ledger) + 1 \in DOMAIN ledger' /\ ledger'[Len(ledger) + 1] = fee
    /\ Len(ledger) + 2 \in DOMAIN ledger' /\ ledger'[Len(ledger) + 2] = credit
    /\ \A ref : ref # i => /\ RowsOf("platform_fee", ref)' = RowsOf("platform_fee", ref)
                          /\ RowsOf("credit", ref)' = RowsOf("credit", ref)
    /\ \A ref : RowsOf("refund", ref)' = RowsOf("refund", ref)
    /\ RowsOf("platform_fee", i) = {} /\ RowsOf("credit", i) = {}
    /\ RowsOf("platform_fee", i)' = {Len(ledger) + 1}
    /\ RowsOf("credit", i)' = {Len(ledger) + 2}

LEMMA SaleCommitRows ==
    ASSUME Inv, NEW t \in Workers, SaleCommit(t), UNCHANGED requestVars,
           NEW i, i = tx[t].key, NEW fee, fee = FeeRow(i), NEW credit, credit = CreditRow(i)
    PROVE  SaleRows(t, i, fee, credit)
<1>1. /\ tx[t].pc = "posted" /\ tx[t].kind = "sale"
      /\ ledger' = ledger \o tx[t].rows /\ UniqueItemType(ledger \o tx[t].rows)
  BY DEF SaleCommit, CommitWallet
<1>2. i \in Items /\ tx[t].rows = <<fee, credit>>
  BY <1>1 DEF Inv, TxOK, IdleTx, SaleTx, RequestTx, MoveTx, PayoutTx
<1>3. /\ SellerOf[i] \in Users /\ LineTotal[i] \in Int /\ Fee(LineTotal[i]) \in Int
  BY <1>2, WalletAssumption DEF Fee
<1>4. /\ fee \in LedgerRow /\ fee.type = "platform_fee" /\ fee.ref = i
      /\ fee.user = SellerOf[i] /\ fee.amount = - Fee(LineTotal[i])
      /\ credit \in LedgerRow /\ credit.type = "credit" /\ credit.ref = i
      /\ credit.user = SellerOf[i] /\ credit.amount = LineTotal[i] - Fee(LineTotal[i])
  BY <1>2, <1>3 DEF FeeRow, CreditRow, Row, LedgerRow, BALANCE_AFFECTING_TYPES
<1>5. ledger \in Seq(LedgerRow) /\ ledger' = ledger \o <<fee, credit>>
  BY <1>1, <1>2 DEF Inv, RowsOK
<1>6. /\ ledger' \in Seq(LedgerRow)
      /\ DOMAIN ledger \subseteq DOMAIN ledger'
      /\ \A n \in DOMAIN ledger : ledger'[n] = ledger[n]
      /\ Len(ledger) + 1 \in DOMAIN ledger' /\ ledger'[Len(ledger) + 1] = fee
      /\ Len(ledger) + 2 \in DOMAIN ledger' /\ ledger'[Len(ledger) + 2] = credit
      /\ \A type, ref :
            ~ (type = "platform_fee" /\ i = ref) /\ ~ (type = "credit" /\ i = ref)
              => RowsOf(type, ref)' = RowsOf(type, ref)
      /\ RowsOf("platform_fee", i)' = RowsOf("platform_fee", i) \cup {Len(ledger) + 1}
      /\ RowsOf("credit", i)' = RowsOf("credit", i) \cup {Len(ledger) + 2}
  <2>1. fee.type # credit.type
    BY <1>4
  <2>2. /\ \A type, ref :
              ~ (fee.type = type /\ fee.ref = ref) /\ ~ (credit.type = type /\ credit.ref = ref)
                => RowsOf(type, ref)' = RowsOf(type, ref)
        /\ RowsOf(fee.type, fee.ref)' = RowsOf(fee.type, fee.ref) \cup {Len(ledger) + 1}
        /\ RowsOf(credit.type, credit.ref)' =
               RowsOf(credit.type, credit.ref) \cup {Len(ledger) + 2}
    BY <1>4, <1>5, <2>1, TwoRows
  <2>3. /\ ledger' \in Seq(LedgerRow)
        /\ DOMAIN ledger \subseteq DOMAIN ledger'
        /\ \A n \in DOMAIN ledger : ledger'[n] = ledger[n]
        /\ Len(ledger) + 1 \in DOMAIN ledger' /\ ledger'[Len(ledger) + 1] = fee
        /\ Len(ledger) + 2 \in DOMAIN ledger' /\ ledger'[Len(ledger) + 2] = credit
    BY <1>4, <1>5, <2>1, TwoRows
  <2>4. /\ RowsOf("platform_fee", i)' = RowsOf("platform_fee", i) \cup {Len(ledger) + 1}
        /\ RowsOf("credit", i)' = RowsOf("credit", i) \cup {Len(ledger) + 2}
    BY <1>4, <2>2, Zenon
  <2>5. \A type, ref :
            ~ (type = "platform_fee" /\ i = ref) /\ ~ (type = "credit" /\ i = ref)
              => RowsOf(type, ref)' = RowsOf(type, ref)
    BY <1>4, <2>2, Zenon
  <2> QED
    BY <2>3, <2>4, <2>5, Zenon
<1>7. RowsOf("platform_fee", i) = {} /\ RowsOf("credit", i) = {}
  <2>1. Len(ledger) + 1 \notin DOMAIN ledger /\ Len(ledger) + 2 \notin DOMAIN ledger
    BY <1>5
  <2>2. UniqueItemType(ledger')
    BY <1>1
  <2>3. ASSUME NEW n \in RowsOf("platform_fee", i) PROVE FALSE
    BY <1>4, <1>6, <2>1, <2>2 DEF RowsOf, UniqueItemType
  <2>4. ASSUME NEW n \in RowsOf("credit", i) PROVE FALSE
    BY <1>4, <1>6, <2>1, <2>2 DEF RowsOf, UniqueItemType
  <2> QED
    BY <2>3, <2>4
<1>8. \A ref : /\ ref # i => /\ RowsOf("platform_fee", ref)' = RowsOf("platform_fee", ref)
                            /\ RowsOf("credit", ref)' = RowsOf("credit", ref)
              /\ RowsOf("refund", ref)' = RowsOf("refund", ref)
  BY <1>6
<1>9. /\ RowsOf("platform_fee", i)' = {Len(ledger) + 1}
      /\ RowsOf("credit", i)' = {Len(ledger) + 2}
  BY <1>6, <1>7
<1>10. fee.user = SellerOf[i] /\ credit.user = SellerOf[i]
       /\ credit.amount - fee.amount = LineTotal[i]
  BY <1>3, <1>4
<1>11. \A n \in DOMAIN ledger : n \in DOMAIN ledger' /\ ledger'[n] = ledger[n]
  BY <1>6
<1> QED
  BY <1>2, <1>6, <1>7, <1>8, <1>9, <1>10, <1>11, Zenon DEF SaleRows

LEMMA SaleCommitInv ==
    ASSUME Inv, NEW t \in Workers, SaleCommit(t), UNCHANGED requestVars PROVE Inv'
<1> PICK i : i = tx[t].key
  OBVIOUS
<1> PICK fee : fee = FeeRow(i)
  OBVIOUS
<1> PICK credit : credit = CreditRow(i)
  OBVIOUS
<1>1. tx' = [tx EXCEPT ![t] = NoTx] /\ UNCHANGED <<req, rowLock, sent>>
  BY DEF SaleCommit, requestVars
<1>2. SaleRows(t, i, fee, credit)
  BY SaleCommitRows
<1>3. \A ref : RowsOf("refund", ref)' = RowsOf("refund", ref)
  BY <1>2, Zenon DEF SaleRows
<1>4. RefundedOnce'
  <2>1. RefundedOnce /\ req' = req
    BY <1>1 DEF Inv
  <2> QED
    BY <1>3, <2>1, Zenon DEF RefundedOnce
<1>5. SaleCreditedOnce'
  <2> SUFFICES ASSUME NEW j \in Items
               PROVE  \/ RowsOf("platform_fee", j)' = {} /\ RowsOf("credit", j)' = {}
                      \/ \E f, c \in DOMAIN ledger' :
                           /\ RowsOf("platform_fee", j)' = {f}
                           /\ RowsOf("credit", j)' = {c}
                           /\ ledger'[f].user = SellerOf[j] /\ ledger'[c].user = SellerOf[j]
                           /\ ledger'[c].amount - ledger'[f].amount = LineTotal[j]
    BY Zenon DEF SaleCreditedOnce
  <2>1. CASE j = i
    BY <1>2, <2>1, Zenon DEF SaleRows
  <2>2. CASE j # i
    <3>1. \/ RowsOf("platform_fee", j) = {} /\ RowsOf("credit", j) = {}
          \/ \E f, c \in DOMAIN ledger :
                /\ RowsOf("platform_fee", j) = {f}
                /\ RowsOf("credit", j) = {c}
                /\ ledger[f].user = SellerOf[j] /\ ledger[c].user = SellerOf[j]
                /\ ledger[c].amount - ledger[f].amount = LineTotal[j]
      BY Zenon DEF Inv, SaleCreditedOnce
    <3> QED
      BY <1>2, <2>2, <3>1, Zenon DEF SaleRows
  <2> QED
    BY <2>1, <2>2
<1>6. RowsOK' /\ SentOnce'
  BY <1>1, <1>2 DEF Inv, RowsOK, SentOnce, SaleRows
<1>7. ASSUME NEW s \in Workers \ {t} PROVE KeyKept(s)
  BY <1>1 DEF KeyKept
<1>8. TxOK(t, NoTx)'
  BY WorkFields DEF TxOK, IdleTx, NoTx, IsTx
<1> QED
  BY <1>1, <1>4, <1>5, <1>6, <1>7, <1>8, IdleIsOK, RowStep

(* A decision's or a request's row: only its own request's rows change.    *)
LEMMA OneRowOf ==
    ASSUME Inv, NEW r \in LedgerRow, ledger' = ledger \o <<r>>,
           r.type \in {"withdrawal", "refund"}
    PROVE  /\ ledger' \in Seq(LedgerRow)
           /\ SaleCreditedOnce'
           /\ \A w \in Requests :
                 RowsOf("refund", w)' =
                     RowsOf("refund", w) \cup
                         (IF r.type = "refund" /\ r.ref = w THEN {Len(ledger) + 1} ELSE {})
<1>1. ledger \in Seq(LedgerRow) /\ SaleCreditedOnce
  BY DEF Inv, RowsOK
<1>2. /\ ledger' \in Seq(LedgerRow)
      /\ \A type, ref : r.type # type \/ r.ref # ref => RowsOf(type, ref)' = RowsOf(type, ref)
      /\ RowsOf(r.type, r.ref)' = RowsOf(r.type, r.ref) \cup {Len(ledger) + 1}
  BY <1>1, OneRow
<1>3. SaleCreditedOnce'
  BY <1>1, SalesKept
<1>4. ASSUME NEW w \in Requests
      PROVE  RowsOf("refund", w)' =
                 RowsOf("refund", w) \cup
                     (IF r.type = "refund" /\ r.ref = w THEN {Len(ledger) + 1} ELSE {})
  <2>1. CASE r.type = "refund" /\ r.ref = w
    BY <1>2, <2>1, Zenon
  <2>2. CASE ~ (r.type = "refund" /\ r.ref = w)
    <3>1. RowsOf("refund", w)' = RowsOf("refund", w)
      BY <1>2, <2>2, Zenon
    <3> QED
      BY <2>2, <3>1
  <2> QED
    BY <2>1, <2>2
<1> QED
  BY <1>2, <1>3, <1>4

LEMMA RequestCommitInv ==
    ASSUME Inv, NEW t \in Workers, RequestCommit(t) PROVE Inv'
<1> PICK w : w = tx[t].key
  OBVIOUS
<1> PICK u : u = tx[t].user
  OBVIOUS
<1> PICK amount : amount = tx[t].amount
  OBVIOUS
<1> PICK r : r = Row(u, "withdrawal", w, - amount)
  OBVIOUS
<1>1. /\ tx[t].pc = "posted" /\ tx[t].kind = "request" /\ tx' = [tx EXCEPT ![t] = NoTx]
      /\ ledger' = ledger \o tx[t].rows
      /\ req' = [req EXCEPT ![w] = [status |-> "pending", user |-> u, amount |-> amount]]
      /\ UNCHANGED <<rowLock, sent>>
  BY DEF RequestCommit, CommitWallet
<1>2. /\ w \in Requests /\ u \in Users /\ amount \in Int /\ req[w].status = "none"
      /\ tx[t].rows = <<r>>
  BY <1>1 DEF Inv, TxOK, IdleTx, SaleTx, RequestTx, MoveTx, PayoutTx
<1>3. r \in LedgerRow /\ r.type = "withdrawal" /\ ledger' = ledger \o <<r>>
  BY <1>1, <1>2 DEF Row, LedgerRow, BALANCE_AFFECTING_TYPES
<1>4. /\ ledger' \in Seq(LedgerRow)
      /\ SaleCreditedOnce'
      /\ \A v \in Requests : RowsOf("refund", v)' = RowsOf("refund", v)
  <2>1. r.type # "refund"
    BY <1>3
  <2>2. /\ ledger' \in Seq(LedgerRow) /\ SaleCreditedOnce'
        /\ \A v \in Requests :
              RowsOf("refund", v)' =
                  RowsOf("refund", v) \cup
                      (IF r.type = "refund" /\ r.ref = v THEN {Len(ledger) + 1} ELSE {})
    BY <1>3, OneRowOf
  <2> QED
    BY <2>1, <2>2
<1>5. RowsOK' /\ req'[w].status = "pending"
  BY <1>1, <1>2, <1>4 DEF Inv, RowsOK, RequestRow, WithdrawalStatus
<1>6. SentOnce'
  BY <1>1, <1>2, <1>5 DEF Inv, SentOnce, RowsOK
<1>7. RefundedOnce'
  <2> SUFFICES ASSUME NEW v \in Requests
               PROVE  IF req'[v].status \in REVERSAL_STATUSES
                      THEN \E n : RowsOf("refund", v)' = {n}
                      ELSE RowsOf("refund", v)' = {}
    BY Zenon DEF RefundedOnce
  <2>1. req'[v].status \in REVERSAL_STATUSES <=> req[v].status \in REVERSAL_STATUSES
    BY <1>1, <1>2, <1>5 DEF REVERSAL_STATUSES, Inv, RowsOK
  <2>2. RefundedOnce
    BY DEF Inv
  <2> QED
    BY <1>4, <2>1, <2>2, Zenon DEF RefundedOnce
<1>8. ASSUME NEW s \in Workers \ {t}, tx[s].kind \in {"request", "move", "payout"}
      PROVE  KeyKept(s)
  <2>1. TxOK(s, tx[s]) /\ s \in Workers
    BY DEF Inv
  <2>2. tx[s].key # w
    <3>1. CASE tx[s].kind = "request"
      BY <1>1, <3>1 DEF Inv, Alone
    <3>2. CASE tx[s].kind = "payout"
      BY <1>2, <2>1, <3>2 DEF TxOK, IdleTx, SaleTx, RequestTx, MoveTx, PayoutTx
    <3>3. CASE tx[s].kind = "move"
      <4>1. MoveTx(s, tx[s])
        BY <2>1, <3>3 DEF TxOK, IdleTx, SaleTx, RequestTx, PayoutTx
      <4>2. NEXT["none"] = {}
        BY DEF NEXT
      <4> QED
        BY <1>2, <4>1, <4>2, Zenon DEF MoveTx
    <3> QED
      BY <1>8, <3>1, <3>2, <3>3
  <2>3. tx[s].key \in Requests
    BY <1>8, <2>1 DEF TxOK, IdleTx, SaleTx, RequestTx, MoveTx, PayoutTx
  <2> QED
    BY <1>1, <2>2, <2>3 DEF KeyKept, Inv, RowsOK
<1>9. TxOK(t, NoTx)'
  BY WorkFields DEF TxOK, IdleTx, NoTx, IsTx
<1> QED
  BY <1>1, <1>4, <1>5, <1>6, <1>7, <1>8, <1>9, IdleIsOK, RowStep

LEMMA AdminCommitInv ==
    ASSUME Inv, NEW t \in Workers, AdminCommit(t) PROVE Inv'
<1> PICK w : w = tx[t].key
  OBVIOUS
<1> PICK to : to = tx[t].to
  OBVIOUS
<1> PICK r : r = Row(tx[t].user, "refund", w, tx[t].amount)
  OBVIOUS
<1> PICK x : x = IF to = "completed" THEN Work("payout", "payout", w, "none", Nobody, 0)
                                     ELSE NoTx
  OBVIOUS
<1>1. /\ tx[t].kind = "move" /\ tx' = [tx EXCEPT ![t] = x]
      /\ req' = [req EXCEPT ![w].status = to]
      /\ FreeRows(t) /\ sent' = sent
      /\ \/ tx[t].pc = "posted" /\ ledger' = ledger \o tx[t].rows
         \/ tx[t].pc = "moving" /\ ledger' = ledger
  BY DEF AdminCommit, CommitWallet, walletVars
<1>2. MoveTx(t, tx[t])
  BY <1>1 DEF Inv, TxOK, IdleTx, SaleTx, RequestTx, PayoutTx
<1>3. /\ w \in Requests /\ rowLock[w] = t /\ to \in NEXT[req[w].status]
      /\ tx[t].pc = "posted" => to \in REVERSAL_STATUSES /\ tx[t].rows = <<r>>
      /\ tx[t].pc = "moving" => to \notin REVERSAL_STATUSES
  BY <1>2 DEF MoveTx, WalletPc
<1>4. /\ req[w].status \in {"pending", "processing"} /\ to \in WithdrawalStatus
      /\ req[w].user \in Users
  <2>1. req[w].status \in WithdrawalStatus \cup {"none"}
    BY <1>3 DEF Inv, RowsOK, RequestRow
  <2>2. req[w].status \in {"pending", "processing"} /\ to \in WithdrawalStatus
    BY <1>3, <2>1, NextFacts
  <2> QED
    BY <1>3, <2>2 DEF Inv, RowsOK
<1>5. r \in LedgerRow /\ r.type = "refund" /\ r.ref = w
  BY <1>2, <1>3 DEF MoveTx, Row, LedgerRow, BALANCE_AFFECTING_TYPES
<1>6. /\ ledger' \in Seq(LedgerRow) /\ SaleCreditedOnce'
      /\ \A v \in Requests :
            RowsOf("refund", v)' =
                RowsOf("refund", v) \cup
                    (IF to \in REVERSAL_STATUSES /\ v = w THEN {Len(ledger) + 1} ELSE {})
  <2>1. CASE tx[t].pc = "posted"
    BY <1>1, <1>3, <1>5, <2>1, OneRowOf
  <2>2. CASE tx[t].pc = "moving"
    <3>1. ledger' = ledger /\ to \notin REVERSAL_STATUSES
      BY <1>1, <1>3, <2>2
    <3>2. SaleCreditedOnce /\ \A type, ref : RowsOf(type, ref)' = RowsOf(type, ref)
      BY <3>1 DEF Inv, RowsOf
    <3>3. SaleCreditedOnce'
      BY <3>1, <3>2, Zenon DEF SaleCreditedOnce
    <3> QED
      BY <3>1, <3>2, <3>3 DEF Inv, RowsOK
  <2> QED
    BY <1>1, <2>1, <2>2
<1>7. /\ req'[w].status = to
      /\ \A v \in Requests \ {w} : req'[v] = req[v]
      /\ RowsOK'
  <2>1. req \in [Requests -> RequestRow] /\ sent \in [Requests -> Nat]
    BY DEF Inv, RowsOK
  <2>2. /\ req' \in [Requests -> RequestRow]
        /\ req'[w].status = to /\ req'[w].user = req[w].user
        /\ \A v \in Requests \ {w} : req'[v] = req[v]
    BY <1>1, <1>3, <1>4, <2>1 DEF RequestRow
  <2>3. rowLock' \in [Requests -> Workers \cup {Nobody}]
    BY <1>1 DEF FreeRows, Inv, RowsOK
  <2>4. \A v \in Requests : req'[v].status # "none" => req'[v].user \in Users
    BY <1>4, <2>2 DEF Inv, RowsOK
  <2> QED
    BY <1>1, <1>6, <2>1, <2>2, <2>3, <2>4 DEF RowsOK
<1>8. sent[w] = 0 /\ SentOnce'
  <2>1. /\ sent[w] \in Nat
        /\ \A v \in Requests : sent[v] <= (IF req[v].status = "completed" THEN 1 ELSE 0)
    BY <1>3 DEF Inv, RowsOK, SentOnce
  <2>2. sent[w] = 0
    BY <1>3, <1>4, <2>1
  <2> QED
    BY <1>1, <1>7, <2>1, <2>2 DEF SentOnce
<1>9. RefundedOnce'
  <2> SUFFICES ASSUME NEW v \in Requests
               PROVE  IF req'[v].status \in REVERSAL_STATUSES
                      THEN \E n : RowsOf("refund", v)' = {n}
                      ELSE RowsOf("refund", v)' = {}
    BY Zenon DEF RefundedOnce
  <2>1. IF req[v].status \in REVERSAL_STATUSES THEN \E n : RowsOf("refund", v) = {n}
                                               ELSE RowsOf("refund", v) = {}
    BY DEF Inv, RefundedOnce
  <2>2. CASE v = w
    <3>1. RowsOf("refund", v) = {}
      BY <1>4, <2>1, <2>2 DEF REVERSAL_STATUSES
    <3> QED
      BY <1>6, <1>7, <2>2, <3>1
  <2>3. CASE v # w
    BY <1>6, <1>7, <2>1, <2>3
  <2> QED
    BY <2>2, <2>3
<1>10. ASSUME NEW s \in Workers \ {t}, tx[s].kind \in {"request", "move", "payout"}
       PROVE  tx[s].key # w /\ KeyKept(s)
  <2>1. TxOK(s, tx[s])
    BY DEF Inv
  <2>2. tx[s].key \in Requests
    BY <1>10, <2>1 DEF TxOK, IdleTx, SaleTx, RequestTx, MoveTx, PayoutTx
  <2>3. tx[s].key # w
    BY <1>3, <1>4, <1>10, <2>1 DEF TxOK, IdleTx, SaleTx, RequestTx, MoveTx, PayoutTx
  <2>4. rowLock[tx[s].key] = s => rowLock'[tx[s].key] = s
    BY <1>1, <2>2 DEF FreeRows
  <2> QED
    BY <1>1, <1>7, <2>2, <2>3, <2>4 DEF KeyKept
<1>11. TxOK(t, x)' /\ Unshared(t, x)
  <2>1. CASE to = "completed"
    <3>1. x.pc = "payout" /\ x.kind = "payout" /\ x.key = w /\ IsTx(x)
      BY <2>1, WorkFields
    <3>2. PayoutTx(x)'
      BY <1>1, <1>3, <1>7, <1>8, <2>1, <3>1 DEF PayoutTx
    <3> QED
      BY <1>10, <3>1, <3>2 DEF TxOK, IsTx, Unshared
  <2>2. CASE to # "completed"
    <3>1. x.pc = "idle" /\ x.kind = "none" /\ IsTx(x)
      BY <2>2, WorkFields DEF NoTx
    <3> QED
      BY <3>1 DEF TxOK, IdleTx, IsTx, Unshared
  <2> QED
    BY <2>1, <2>2
<1> QED
  BY <1>1, <1>6, <1>7, <1>8, <1>9, <1>10, <1>11, RowStep

-----------------------------------------------------------------------------
LEMMA NextInv == Inv /\ [Next]_vars => Inv'
<1> SUFFICES ASSUME Inv, [Next]_vars PROVE Inv'
  OBVIOUS
<1>1. CASE UNCHANGED vars
  <2>1. UNCHANGED <<ledger, tx, req, rowLock, sent>>
    BY <1>1 DEF vars
  <2>2. \A type, ref : RowsOf(type, ref)' = RowsOf(type, ref)
    BY <2>1 DEF RowsOf
  <2>3. \A t \in Workers : TxOK(t, tx[t])'
    BY <2>1 DEF Inv, TxOK, IsTx, IdleTx, SaleTx, RequestTx, MoveTx, PayoutTx
  <2>4. SaleCreditedOnce'
    <3>1. SaleCreditedOnce
      BY DEF Inv
    <3> QED
      BY <2>1, <2>2, <3>1, Zenon DEF SaleCreditedOnce
  <2> QED
    BY <2>1, <2>2, <2>3, <2>4 DEF Inv, RowsOK, Alone, SentOnce, RefundedOnce
<1>2. CASE Next
  <2>1. PICK t \in Workers : WorkerBegin(t) \/ WorkerStep(t) \/ Crash(t)
    BY <1>2 DEF Next
  <2>2. CASE WorkerBegin(t)
    BY <2>2, SaleBeginInv, RequestBeginInv, AdminLockInv DEF WorkerBegin
  <2>3. CASE WorkerStep(t)
    BY <2>3, LockWalletInv, SalePostInv, SaleCommitInv, RequestPostInv, RequestCommitInv,
       AdminPostInv, AdminCommitInv, PayoutEndInv, PayoutTakenInv DEF WorkerStep
  <2>4. CASE Crash(t)
    BY <2>4, CrashInv
  <2> QED
    BY <2>1, <2>2, <2>3, <2>4
<1> QED
  BY <1>1, <1>2

(* Withdrawals.tla, PaidOutOrGivenBack: a request's money comes back once  *)
(* if it failed or was rejected, the gateway is told once if it completed, *)
(* and never both (withdrawals/services.py, transition; payout.py).        *)
THEOREM WithdrawalsPayOnce == Spec => []PaidOutOrGivenBack
<1>1. Inv => PaidOutOrGivenBack
  <2> SUFFICES ASSUME Inv, NEW w \in Requests
               PROVE  Cardinality(RowsOf("refund", w)) =
                          IF req[w].status \in REVERSAL_STATUSES THEN 1 ELSE 0
    BY DEF PaidOutOrGivenBack, Inv, SentOnce
  <2>1. CASE req[w].status \in REVERSAL_STATUSES
    <3>1. PICK n : RowsOf("refund", w) = {n}
      BY <2>1 DEF Inv, RefundedOnce
    <3> QED
      BY <2>1, <3>1, FS_Singleton
  <2>2. CASE req[w].status \notin REVERSAL_STATUSES
    <3>1. RowsOf("refund", w) = {}
      BY <2>2 DEF Inv, RefundedOnce
    <3> QED
      BY <2>2, <3>1, FS_EmptySet
  <2> QED
    BY <2>1, <2>2
<1> QED
  BY <1>1, InitInv, NextInv, PTL DEF Spec

(* Wallet.tla, SaleCreditedOnce: however often a sale is processed, it     *)
(* leaves one fee row and one credit row that add up to the line total     *)
(* (wallet/services.py, process_completed_sale).                           *)
THEOREM SalesAreCreditedOnce == Spec => []SaleCreditedOnce
<1>1. Inv => SaleCreditedOnce
  BY DEF Inv
<1> QED
  BY <1>1, InitInv, NextInv, PTL DEF Spec

-----------------------------------------------------------------------------
(***************************************************************************)
(* Sums over a sequence of rows.  A recursive function is shown to exist by *)
(* induction, and induction from the well-foundedness of < on Nat.         *)
(***************************************************************************)
Below == {p \in Nat \X Nat : p[1] < p[2]}

LEMMA BelowWellFounded == IsWellFoundedOn(Below, Nat)
  BY NatLessThanWellFounded, Zenon DEF OpToRel, Below

LEMMA Least == ASSUME NEW T, T \subseteq Nat, T # {}
               PROVE  \E x \in T : \A y \in T : x <= y
  <1>2. PICK x \in T : \A y \in T : ~ (<<y, x>> \in Below)
    BY BelowWellFounded, WFMin, Zenon
  <1>3. ASSUME NEW y \in T PROVE x <= y
    <2>1. \A p \in Nat \X Nat : p[1] < p[2] => p \in Below
      BY DEF Below
    <2>2. <<y, x>> \in Nat \X Nat
      OBVIOUS
    <2>3. ~ (y < x)
      BY <1>2, <2>1, <2>2
    <2> QED BY <2>3
  <1> QED BY <1>2, <1>3

(* Induction: a set of numbers that has 0 and every successor is all of Nat *)
LEMMA Induction ==
    ASSUME NEW S, 0 \in S, \A n \in Nat : n \in S => n + 1 \in S
    PROVE  Nat \subseteq S
<1> SUFFICES ASSUME Nat \ S # {} PROVE FALSE
  OBVIOUS
<1>1. PICK x \in Nat \ S : \A y \in Nat \ S : x <= y
  BY Least
<1>2. x # 0 /\ x - 1 \in Nat
  OBVIOUS
<1>3. x - 1 \in S
  BY <1>1, <1>2
<1> QED
  BY <1>2, <1>3

IsSum(f, c, n) == /\ f \in [0 .. n -> Int]
                  /\ f[0] = 0
                  /\ \A i \in 1 .. n : f[i] = f[i - 1] + c[i]

LEMMA SumExists ==
    ASSUME NEW n \in Nat, NEW c \in [1 .. n -> Int]
    PROVE  \E f : IsSum(f, c, n)
<1> DEFINE S == {m \in Nat : m <= n => \E f : IsSum(f, c, m)}
<1>1. 0 \in S
  <2>1. IsSum([i \in 0 .. 0 |-> 0], c, 0)
    BY DEF IsSum
  <2> QED
    BY <2>1
<1>2. ASSUME NEW m \in Nat, m \in S PROVE m + 1 \in S
  <2> SUFFICES ASSUME m + 1 <= n PROVE \E f : IsSum(f, c, m + 1)
    OBVIOUS
  <2>1. PICK f : IsSum(f, c, m)
    BY <1>2
  <2> DEFINE g == [i \in 0 .. m + 1 |-> IF i = m + 1 THEN f[m] + c[m + 1] ELSE f[i]]
  <2>2. c[m + 1] \in Int /\ f \in [0 .. m -> Int]
    BY <2>1 DEF IsSum
  <2>3. g \in [0 .. m + 1 -> Int]
    BY <2>2
  <2>4. g[0] = 0 /\ \A i \in 1 .. m + 1 : g[i] = g[i - 1] + c[i]
    BY <2>1, <2>2 DEF IsSum
  <2>5. IsSum(g, c, m + 1)
    BY <2>3, <2>4 DEF IsSum
  <2> QED
    BY <2>5
<1>3. n \in S
  <2> HIDE DEF S
  <2> QED
    BY <1>1, <1>2, Induction
<1> QED
  BY <1>3

LEMMA SumUnique ==
    ASSUME NEW n \in Nat, NEW c, NEW d, \A i \in 1 .. n : c[i] = d[i],
           NEW f, IsSum(f, c, n), NEW g, IsSum(g, d, n + 1)
    PROVE  f[n] \in Int /\ g[n + 1] = f[n] + d[n + 1]
<1> DEFINE S == {i \in Nat : i <= n => f[i] = g[i]}
<1>1. 0 \in S
  BY DEF IsSum
<1>2. ASSUME NEW i \in Nat, i \in S PROVE i + 1 \in S
  BY <1>2 DEF IsSum
<1>3. Nat \subseteq S
  <2> HIDE DEF S
  <2> QED
    BY <1>1, <1>2, Induction
<1>4. f[n] = g[n] /\ n + 1 \in 1 .. n + 1 /\ (n + 1) - 1 = n
  BY <1>3
<1> QED
  BY <1>4 DEF IsSum

LEMMA BalanceIsSum ==
    ASSUME NEW user, NEW rows, NEW n \in Nat, n = Len(rows),
           NEW c \in [1 .. n -> Int], \A i \in 1 .. n : c[i] = Share(rows[i], user)
    PROVE  \E f : IsSum(f, c, n) /\ BalanceOf(rows, user) = f[n]
<1> DEFINE Sum(f) == f = [i \in 0 .. n |-> IF i = 0 THEN 0 ELSE f[i - 1] + Share(rows[i], user)]
<1>1. PICK f : IsSum(f, c, n)
  BY SumExists
<1>2. Sum(f)
  <2>1. \A i \in 0 .. n : f[i] = IF i = 0 THEN 0 ELSE f[i - 1] + Share(rows[i], user)
    BY <1>1 DEF IsSum
  <2>2. f = [i \in 0 .. n |-> f[i]]
    BY <1>1 DEF IsSum
  <2> QED
    BY <2>1, <2>2, Zenon
<1>3. BalanceOf(rows, user) = (CHOOSE s : Sum(s))[n]
  BY Zenon DEF BalanceOf
<1>4. Sum(CHOOSE s : Sum(s))
  <2> HIDE DEF Sum
  <2> QED
    BY <1>2, Zenon
<1>5. PICK s : Sum(s) /\ BalanceOf(rows, user) = s[n]
  <2> HIDE DEF Sum
  <2> QED
    BY <1>3, <1>4, Zenon
<1>6. \A i \in 0 .. n : s[i] = IF i = 0 THEN 0 ELSE s[i - 1] + Share(rows[i], user)
  BY <1>5, Zenon
<1>7. s[0] = 0 /\ \A i \in 1 .. n : s[i] = s[i - 1] + c[i]
  <2>1. \A i \in 1 .. n : i \in 0 .. n /\ i # 0
    OBVIOUS
  <2> QED
    BY <1>6, <2>1
<1>8. s \in [0 .. n -> Int]
  <2> DEFINE S == {i \in Nat : i <= n => s[i] \in Int}
  <2>1. 0 \in S
    BY <1>7
  <2>2. ASSUME NEW i \in Nat, i \in S PROVE i + 1 \in S
    BY <1>7, <2>2
  <2>3. Nat \subseteq S
    <3> HIDE DEF S
    <3> QED
      BY <2>1, <2>2, Induction
  <2>4. \A i \in 0 .. n : s[i] \in Int
    BY <2>3
  <2>5. s = [i \in 0 .. n |-> s[i]]
    BY <1>5, <1>6, Zenon
  <2> QED
    BY <2>4, <2>5
<1>9. IsSum(s, c, n)
  BY <1>7, <1>8 DEF IsSum
<1> QED
  BY <1>5, <1>9, Zenon

LEMMA SeqAppend ==
    ASSUME NEW R, NEW s \in Seq(R), NEW x \in R, NEW more, more = Append(s, x)
    PROVE  /\ Len(s) \in Nat /\ Len(more) = Len(s) + 1
           /\ \A i \in 1 .. Len(s) : more[i] = s[i] /\ s[i] \in R
           /\ more[Len(s) + 1] = x /\ more \in Seq(R)
OBVIOUS

LEMMA BalanceAppend ==
    ASSUME NEW user, NEW R, NEW rows \in Seq(R), NEW row \in R,
           \A r \in R : Share(r, user) \in Int
    PROVE  /\ BalanceOf(rows, user) \in Int
           /\ BalanceOf(Append(rows, row), user) = BalanceOf(rows, user) + Share(row, user)
<1>n. PICK n : n = Len(rows)
  OBVIOUS
<1>m. PICK more : more = Append(rows, row)
  OBVIOUS
<1>1. /\ n \in Nat /\ Len(more) = n + 1 /\ more[n + 1] = row
      /\ \A i \in 1 .. n : more[i] = rows[i] /\ rows[i] \in R
  BY <1>n, <1>m, SeqAppend
<1>4. PICK c : /\ c \in [1 .. n -> Int] /\ \A i \in 1 .. n : c[i] = Share(rows[i], user)
  <2> DEFINE c == [i \in 1 .. n |-> Share(rows[i], user)]
  <2>1. c \in [1 .. n -> Int] /\ \A i \in 1 .. n : c[i] = Share(rows[i], user)
    BY <1>1
  <2> QED
    BY <2>1
<1>5. PICK d : /\ d \in [1 .. n + 1 -> Int] /\ \A i \in 1 .. n + 1 : d[i] = Share(more[i], user)
  <2>1. \A i \in 1 .. n + 1 : more[i] \in R
    BY <1>1
  <2> DEFINE d == [i \in 1 .. n + 1 |-> Share(more[i], user)]
  <2>2. d \in [1 .. n + 1 -> Int] /\ \A i \in 1 .. n + 1 : d[i] = Share(more[i], user)
    BY <2>1
  <2> QED
    BY <2>2
<1>6. d[n + 1] = Share(row, user) /\ \A i \in 1 .. n : c[i] = d[i]
  BY <1>1, <1>4, <1>5
<1>2. PICK f : IsSum(f, c, n) /\ BalanceOf(rows, user) = f[n]
  <2>1. n \in Nat /\ n = Len(rows)
    BY <1>1, <1>n
  <2> QED
    BY ONLY <2>1, <1>4, BalanceIsSum
<1>7. n + 1 \in Nat /\ n + 1 = Len(more)
  BY <1>1
<1>3. PICK g : IsSum(g, d, n + 1) /\ BalanceOf(more, user) = g[n + 1]
  BY ONLY <1>5, <1>7, BalanceIsSum
<1>8. f[n] \in Int /\ g[n + 1] = f[n] + d[n + 1]
  BY <1>1, <1>2, <1>3, <1>6, SumUnique
<1> QED
  BY <1>2, <1>3, <1>6, <1>8, <1>m

LEMMA BalanceOfNone == ASSUME NEW user PROVE BalanceOf(<<>>, user) = 0
<1>1. PICK rows : rows = <<>>
  OBVIOUS
<1>2. PICK n \in Nat : n = 0
  OBVIOUS
<1>3. n = Len(rows) /\ 1 .. n = {}
  BY <1>1, <1>2
<1>4. PICK c : c \in [1 .. n -> Int]
  <2>1. [i \in {} |-> 0] \in [{} -> Int]
    OBVIOUS
  <2> QED
    BY <1>3, <2>1
<1>5. \A i \in 1 .. n : c[i] = Share(rows[i], user)
  BY <1>3
<1>6. PICK f : IsSum(f, c, n) /\ BalanceOf(rows, user) = f[n]
  BY <1>3, <1>4, <1>5, BalanceIsSum
<1> QED
  BY <1>1, <1>2, <1>6 DEF IsSum

-----------------------------------------------------------------------------
(***************************************************************************)
(* What a transaction may rely on while it holds the wallet.               *)
(***************************************************************************)
WalletTx(t, x) ==
    /\ x.pc \in WalletPc => x.user \in Users
    /\ x.kind = "sale" => x.user = SellerOf[x.key]
    /\ x.pc \in {"locked", "posted"} => walletLock[x.user] = t
    /\ x.pc = "posted" => x.sum = BalanceOf(ledger \o x.rows, x.user)
    /\ x.kind = "request" => x.amount \in Amounts
    /\ x.kind = "move" => /\ x.user = req[x.key].user
                          /\ x.amount = req[x.key].amount

WalletInv == /\ balance \in [Users -> Int]
             /\ walletLock \in [Users -> Workers \cup {Nobody}]
             /\ \A t \in Workers : WalletTx(t, tx[t])
             /\ BalanceIsLedger

LEMMA ShareIsInt == \A r \in LedgerRow : \A u : Share(r, u) \in Int
BY DEF Share, LedgerRow

LEMMA OneRowEffect ==
    ASSUME NEW L \in Seq(LedgerRow), NEW r \in LedgerRow, NEW u
    PROVE  /\ L \o <<r>> \in Seq(LedgerRow)
           /\ BalanceOf(L, u) \in Int
           /\ BalanceOf(L \o <<r>>, u) = BalanceOf(L, u) + Share(r, u)
<1>1. L \o <<r>> = Append(L, r) /\ Append(L, r) \in Seq(LedgerRow)
  OBVIOUS
<1> QED
  BY <1>1, ShareIsInt, BalanceAppend

LEMMA TwoRowEffect ==
    ASSUME NEW L \in Seq(LedgerRow), NEW a \in LedgerRow, NEW b \in LedgerRow, NEW u
    PROVE  /\ L \o <<a, b>> \in Seq(LedgerRow)
           /\ BalanceOf(L, u) \in Int
           /\ BalanceOf(L \o <<a, b>>, u) = BalanceOf(L, u) + Share(a, u) + Share(b, u)
<1>1. PICK M : M = Append(L, a)
  OBVIOUS
<1>2. L \o <<a>> = M /\ L \o <<a, b>> = M \o <<b>>
  BY <1>1
<1>3. /\ M \in Seq(LedgerRow) /\ BalanceOf(L, u) \in Int
      /\ BalanceOf(M, u) = BalanceOf(L, u) + Share(a, u)
  BY <1>2, OneRowEffect
<1>4. /\ M \o <<b>> \in Seq(LedgerRow)
      /\ BalanceOf(M \o <<b>>, u) = BalanceOf(M, u) + Share(b, u)
  BY <1>3, OneRowEffect
<1> QED
  BY <1>2, <1>3, <1>4, ShareIsInt

(* Rows of one user: what they add does not depend on the rows before.     *)
RowsOfUser(rows, u) ==
    \/ \E r \in LedgerRow : r.user = u /\ rows = <<r>>
    \/ \E a, b \in LedgerRow : a.user = u /\ b.user = u /\ rows = <<a, b>>

Adds(rows, v, e) ==
    /\ e \in Int
    /\ \A L \in Seq(LedgerRow) : /\ L \o rows \in Seq(LedgerRow)
                                 /\ BalanceOf(L, v) \in Int
                                 /\ BalanceOf(L \o rows, v) = BalanceOf(L, v) + e

LEMMA RowsEffect ==
    ASSUME NEW rows, NEW u, RowsOfUser(rows, u), NEW v
    PROVE  \E e : Adds(rows, v, e) /\ (v # u => e = 0)
<1>1. ASSUME NEW r, r.user = u, v # u PROVE Share(r, v) = 0
  BY <1>1 DEF Share
<1>2. CASE \E r \in LedgerRow : r.user = u /\ rows = <<r>>
  <2>1. PICK r \in LedgerRow : r.user = u /\ rows = <<r>>
    BY <1>2
  <2>2. Share(r, v) \in Int /\ (v # u => Share(r, v) = 0)
    BY <1>1, <2>1, ShareIsInt
  <2> QED
    BY <2>1, <2>2, OneRowEffect DEF Adds
<1>3. CASE \E a, b \in LedgerRow : a.user = u /\ b.user = u /\ rows = <<a, b>>
  <2>1. PICK a \in LedgerRow, b \in LedgerRow : a.user = u /\ b.user = u /\ rows = <<a, b>>
    BY <1>3
  <2>2. Share(a, v) \in Int /\ Share(b, v) \in Int
    BY ShareIsInt
  <2>3. v # u => Share(a, v) = 0 /\ Share(b, v) = 0
    BY <1>1, <2>1
  <2>4. PICK e \in Int : e = Share(a, v) + Share(b, v)
    BY <2>2
  <2>5. v # u => e = 0
    BY <2>3, <2>4
  <2>6. Adds(rows, v, e)
    BY <2>1, <2>2, <2>4, TwoRowEffect DEF Adds
  <2> QED
    BY <2>5, <2>6
<1> QED
  BY <1>2, <1>3 DEF RowsOfUser

(* The rows a transaction has posted are its own user's.                   *)
LEMMA PostedRows ==
    ASSUME Inv, WalletInv, NEW t \in Workers, tx[t].pc = "posted"
    PROVE  tx[t].user \in Users /\ RowsOfUser(tx[t].rows, tx[t].user)
<1>1. PICK x : x = tx[t]
  OBVIOUS
<1>2. TxOK(t, x) /\ WalletTx(t, x) /\ x.pc = "posted"
  BY <1>1 DEF Inv, WalletInv
<1>3. x.user \in Users
  BY <1>2 DEF WalletTx, WalletPc
<1>4. CASE SaleTx(x)
  <2>1. x.key \in Items /\ x.user = SellerOf[x.key] /\ x.rows = <<FeeRow(x.key), CreditRow(x.key)>>
    BY <1>2, <1>4 DEF SaleTx, WalletTx
  <2>2. LineTotal[x.key] \in Int /\ Fee(LineTotal[x.key]) \in Int
    BY <2>1, WalletAssumption DEF Fee
  <2>3. /\ FeeRow(x.key) \in LedgerRow /\ CreditRow(x.key) \in LedgerRow
        /\ FeeRow(x.key).user = x.user /\ CreditRow(x.key).user = x.user
    BY <1>3, <2>1, <2>2 DEF FeeRow, CreditRow, Row, LedgerRow, BALANCE_AFFECTING_TYPES
  <2> QED
    BY <1>1, <1>3, <2>1, <2>3 DEF RowsOfUser
<1>5. CASE RequestTx(x)
  <2>1. PICK r : r = Row(x.user, "withdrawal", x.key, - x.amount)
    OBVIOUS
  <2>2. r \in LedgerRow /\ r.user = x.user /\ x.rows = <<r>>
    BY <1>2, <1>3, <1>5, <2>1 DEF RequestTx, Row, LedgerRow, BALANCE_AFFECTING_TYPES
  <2> QED
    BY <1>1, <1>3, <2>2 DEF RowsOfUser
<1>6. CASE MoveTx(t, x)
  <2>1. PICK r : r = Row(x.user, "refund", x.key, x.amount)
    OBVIOUS
  <2>2. r \in LedgerRow /\ r.user = x.user /\ x.rows = <<r>>
    BY <1>2, <1>3, <1>6, <2>1 DEF MoveTx, Row, LedgerRow, BALANCE_AFFECTING_TYPES
  <2> QED
    BY <1>1, <1>3, <2>2 DEF RowsOfUser
<1> QED
  BY <1>2, <1>4, <1>5, <1>6 DEF TxOK, IdleTx, PayoutTx

LEMMA InitWallet == Init => WalletInv
<1> SUFFICES ASSUME Init PROVE WalletInv
  OBVIOUS
<1>1. /\ ledger = <<>> /\ tx = [t \in Workers |-> NoTx]
      /\ balance = [u \in Users |-> 0] /\ walletLock = [u \in Users |-> Nobody]
  BY Zenon DEF Init, WalletInit
<1>2. BalanceIsLedger
  BY <1>1, BalanceOfNone DEF BalanceIsLedger
<1>3. ASSUME NEW t \in Workers PROVE WalletTx(t, tx[t])
  <2>1. tx[t].pc = "idle" /\ tx[t].kind = "none"
    BY <1>1, WorkFields DEF NoTx
  <2> QED
    BY <2>1 DEF WalletTx, WalletPc
<1> QED
  BY <1>1, <1>2, <1>3 DEF WalletInv

-----------------------------------------------------------------------------
(***************************************************************************)
(* A step of one worker: the wallets the others hold stay theirs, and what *)
(* it commits are rows of the wallet it holds itself.                      *)
(***************************************************************************)
LocksKept(t) == /\ walletLock' \in [Users -> Workers \cup {Nobody}]
                /\ \A u \in Users : walletLock[u] \in Workers \ {t}
                                        => walletLock'[u] = walletLock[u]

MovesKept(t) == \A s \in Workers \ {t} :
                    tx[s].kind = "move" => req'[tx[s].key] = req[tx[s].key]

Commits(t) == /\ tx[t].pc = "posted" /\ tx[t].sum >= 0
              /\ ledger' = ledger \o tx[t].rows
              /\ balance' = [balance EXCEPT ![tx[t].user] = tx[t].sum]

LEMMA OthersWallet ==
    ASSUME Inv, WalletInv, NEW t \in Workers, LocksKept(t), MovesKept(t),
           UNCHANGED <<ledger, balance>> \/ Commits(t),
           NEW s \in Workers \ {t}, NEW y, y = tx[s]
    PROVE  WalletTx(s, y)'
<1>2. WalletTx(s, y) /\ TxOK(s, y)
  BY DEF Inv, WalletInv
<1>3. y.pc \in {"locked", "posted"} => walletLock[y.user] = s /\ walletLock'[y.user] = s
  BY <1>2 DEF WalletTx, WalletPc, LocksKept
<1>4. y.kind = "move" => req'[y.key] = req[y.key]
  BY DEF MovesKept
<1>5. y.pc = "posted" => y.sum = BalanceOf(ledger' \o y.rows, y.user)
  <2> SUFFICES ASSUME y.pc = "posted" PROVE y.sum = BalanceOf(ledger' \o y.rows, y.user)
    OBVIOUS
  <2>1. y.sum = BalanceOf(ledger \o y.rows, y.user)
    BY <1>2 DEF WalletTx
  <2>2. CASE UNCHANGED ledger
    BY <2>1, <2>2
  <2>3. CASE Commits(t)
    <3>1. PICK mine : mine = tx[t].rows /\ ledger' = ledger \o mine
      BY <2>3 DEF Commits
    <3>2. /\ tx[t].user \in Users /\ RowsOfUser(mine, tx[t].user)
          /\ y.user \in Users /\ RowsOfUser(y.rows, y.user)
      BY <2>3, <3>1, PostedRows DEF Commits
    <3>3. tx[t].user # y.user
      BY <1>3, <2>3 DEF WalletInv, WalletTx, Commits
    <3>4. ledger \in Seq(LedgerRow)
      BY DEF Inv, RowsOK
    <3>5. /\ ledger' \in Seq(LedgerRow) /\ BalanceOf(ledger, y.user) \in Int
          /\ BalanceOf(ledger', y.user) = BalanceOf(ledger, y.user)
      <4>1. PICK e : Adds(mine, y.user, e) /\ (y.user # tx[t].user => e = 0)
        BY <3>2, RowsEffect
      <4> QED
        BY <3>1, <3>3, <3>4, <4>1 DEF Adds
    <3>6. BalanceOf(ledger' \o y.rows, y.user) = BalanceOf(ledger \o y.rows, y.user)
      <4>1. PICK e : Adds(y.rows, y.user, e)
        BY <3>2, RowsEffect
      <4> QED
        BY <3>4, <3>5, <4>1 DEF Adds
    <3> QED
      BY <2>1, <3>6
  <2> QED
    BY <2>2, <2>3
<1> QED
  BY <1>2, <1>3, <1>4, <1>5 DEF WalletTx

LEMMA LedgerAfter ==
    ASSUME Inv, WalletInv, NEW t \in Workers, UNCHANGED <<ledger, balance>> \/ Commits(t)
    PROVE  balance' \in [Users -> Int] /\ BalanceIsLedger'
<1>1. CASE UNCHANGED <<ledger, balance>>
  BY <1>1 DEF WalletInv, BalanceIsLedger
<1>2. CASE Commits(t)
  <2>1. PICK x : x = tx[t]
    OBVIOUS
  <2>2. /\ WalletTx(t, x) /\ x.pc = "posted" /\ x.sum >= 0
        /\ ledger' = ledger \o x.rows
        /\ balance' = [balance EXCEPT ![x.user] = x.sum]
        /\ x.user \in Users /\ RowsOfUser(x.rows, x.user)
    BY <1>2, <2>1, PostedRows DEF Commits, WalletInv
  <2>3. ledger \in Seq(LedgerRow) /\ balance \in [Users -> Int] /\ BalanceIsLedger
    BY DEF Inv, RowsOK, WalletInv
  <2>4. ASSUME NEW u \in Users
        PROVE  /\ BalanceOf(ledger', u) \in Int
               /\ u # x.user => BalanceOf(ledger', u) = BalanceOf(ledger, u)
    <3>1. PICK e : Adds(x.rows, u, e) /\ (u # x.user => e = 0)
      BY <2>2, RowsEffect
    <3> QED
      BY <2>2, <2>3, <3>1 DEF Adds
  <2>5. x.sum = BalanceOf(ledger', x.user)
    BY <2>2 DEF WalletTx
  <2>6. balance' \in [Users -> Int]
    BY <2>2, <2>3, <2>4, <2>5
  <2>7. ASSUME NEW u \in Users PROVE balance'[u] = BalanceOf(ledger', u) /\ balance'[u] >= 0
    BY <2>2, <2>3, <2>4, <2>5 DEF BalanceIsLedger
  <2> QED
    BY <2>6, <2>7 DEF BalanceIsLedger
<1> QED
  BY <1>1, <1>2

LEMMA WalletStep ==
    ASSUME Inv, WalletInv, NEW t \in Workers, NEW x, tx' = [tx EXCEPT ![t] = x],
           WalletTx(t, x)', LocksKept(t), MovesKept(t),
           UNCHANGED <<ledger, balance>> \/ Commits(t)
    PROVE  WalletInv'
<1>1. tx'[t] = x /\ \A s \in Workers \ {t} : tx'[s] = tx[s]
  BY OneChanges
<1>2. ASSUME NEW s \in Workers PROVE WalletTx(s, tx[s])'
  <2>1. PICK y : y = tx'[s]
    OBVIOUS
  <2>2. WalletTx(s, y)'
    <3>1. CASE s = t
      BY <1>1, <2>1, <3>1
    <3>2. CASE s # t
      BY <1>1, <2>1, <3>2, OthersWallet
    <3> QED
      BY <3>1, <3>2
  <2> QED
    BY <2>1, <2>2 DEF WalletTx
<1> QED
  BY <1>2, LedgerAfter DEF WalletInv, LocksKept

LEMMA FreeWalletsKeeps ==
    ASSUME WalletInv, NEW t \in Workers, FreeWallets(t) PROVE LocksKept(t)
BY DEF WalletInv, FreeWallets, LocksKept

LEMMA SameLocks ==
    ASSUME WalletInv, NEW t \in Workers, UNCHANGED walletLock PROVE LocksKept(t)
BY DEF WalletInv, LocksKept

LEMMA SameMoves == ASSUME NEW t \in Workers, UNCHANGED req PROVE MovesKept(t)
BY DEF MovesKept

LEMMA NoWalletTx ==
    ASSUME NEW t, NEW x, x.pc \notin WalletPc, x.kind \notin {"sale", "request", "move"}
    PROVE  WalletTx(t, x)'
BY DEF WalletTx, WalletPc

LEMMA NoTxFields == NoTx.pc = "idle" /\ NoTx.kind = "none"
BY WorkFields DEF NoTx

-----------------------------------------------------------------------------
(***************************************************************************)
(* The actions: who gets, uses and leaves a wallet.                        *)
(***************************************************************************)
LEMMA BeginsWallet ==
    ASSUME Inv, WalletInv, NEW t \in Workers, WorkerBegin(t) PROVE WalletInv'
<1>1. UNCHANGED <<walletVars, req>>
  BY DEF WorkerBegin, SaleBegin, RequestBegin, AdminLock, requestVars
<1>2. UNCHANGED <<ledger, balance>> /\ LocksKept(t) /\ MovesKept(t)
  BY <1>1, SameLocks, SameMoves DEF walletVars
<1>3. CASE \E i \in Items : SaleBegin(t, i)
  <2>1. PICK i \in Items : SaleBegin(t, i)
    BY <1>3
  <2>2. PICK x : x = Work("lock", "sale", i, "none", SellerOf[i], 0)
    OBVIOUS
  <2>3. tx' = [tx EXCEPT ![t] = x]
    BY <2>1, <2>2 DEF SaleBegin, Begin
  <2>4. x.pc = "lock" /\ x.kind = "sale" /\ x.key = i /\ x.user = SellerOf[i]
    BY <2>2, WorkFields
  <2>5. WalletTx(t, x)'
    BY <2>4, WalletAssumption DEF WalletTx
  <2> QED
    BY <1>2, <2>3, <2>5, WalletStep
<1>4. CASE \E w \in Requests, u \in Users, amount \in Amounts : RequestBegin(t, w, u, amount)
  <2>1. PICK w \in Requests, u \in Users, amount \in Amounts : RequestBegin(t, w, u, amount)
    BY <1>4
  <2>2. PICK x : x = Work("lock", "request", w, "none", u, amount)
    OBVIOUS
  <2>3. tx' = [tx EXCEPT ![t] = x]
    BY <2>1, <2>2 DEF RequestBegin, Begin
  <2>4. x.pc = "lock" /\ x.kind = "request" /\ x.user = u /\ x.amount = amount
    BY <2>2, WorkFields
  <2>5. WalletTx(t, x)'
    BY <2>4 DEF WalletTx
  <2> QED
    BY <1>2, <2>3, <2>5, WalletStep
<1>5. CASE \E w \in Requests, to \in WithdrawalStatus : AdminLock(t, w, to)
  <2>1. PICK w \in Requests, to \in WithdrawalStatus : AdminLock(t, w, to)
    BY <1>5
  <2>2. PICK pc : pc = IF to \in REVERSAL_STATUSES THEN "lock" ELSE "moving"
    OBVIOUS
  <2>3. PICK x : x = Work(pc, "move", w, to, req[w].user, req[w].amount)
    OBVIOUS
  <2>4. tx' = [tx EXCEPT ![t] = x] /\ req' = req /\ to \in NEXT[req[w].status]
    BY <2>1, <2>2, <2>3 DEF AdminLock, Begin
  <2>5. /\ x.pc = pc /\ x.kind = "move" /\ x.key = w
        /\ x.user = req[w].user /\ x.amount = req[w].amount
    BY <2>3, WorkFields
  <2>6. req[w].user \in Users
    <3>1. req[w].status \in WithdrawalStatus \cup {"none"}
      BY DEF Inv, RowsOK, RequestRow
    <3>2. req[w].status # "none"
      BY <2>4, <3>1, NextFacts
    <3> QED
      BY <3>2 DEF Inv, RowsOK
  <2>7. WalletTx(t, x)'
    BY <2>2, <2>4, <2>5, <2>6 DEF WalletTx
  <2> QED
    BY <1>2, <2>4, <2>7, WalletStep
<1> QED
  BY <1>3, <1>4, <1>5 DEF WorkerBegin

LEMMA LockWalletWallet ==
    ASSUME Inv, WalletInv, NEW t \in Workers, LockWallet(t), UNCHANGED requestVars
    PROVE  WalletInv'
<1>1. PICK y : y = tx[t]
  OBVIOUS
<1>2. PICK x : x = [y EXCEPT !.pc = "locked"]
  OBVIOUS
<1>3. /\ tx' = [tx EXCEPT ![t] = x] /\ y.pc = "lock"
      /\ walletLock[y.user] = Nobody /\ walletLock' = [walletLock EXCEPT ![y.user] = t]
      /\ UNCHANGED <<ledger, balance, req>>
  BY <1>1, <1>2 DEF LockWallet, requestVars
<1>4. IsTx(y) /\ WalletTx(t, y)
  BY <1>1 DEF Inv, TxOK, WalletInv
<1>5. /\ x.pc = "locked" /\ x.kind = y.kind /\ x.key = y.key
      /\ x.user = y.user /\ x.amount = y.amount
  BY <1>2, <1>4 DEF IsTx
<1>6. y.user \in Users
  BY <1>3, <1>4 DEF WalletTx, WalletPc
<1>7. walletLock'[y.user] = t
  BY <1>3, <1>6 DEF WalletInv
<1>8. WalletTx(t, x)'
  BY <1>3, <1>4, <1>5, <1>6, <1>7 DEF WalletTx
<1>9. LocksKept(t)
  BY <1>3, <1>6, WalletAssumption DEF WalletInv, LocksKept
<1> QED
  BY <1>3, <1>8, <1>9, SameMoves, WalletStep

LEMMA PostWallet ==
    ASSUME Inv, WalletInv, NEW t \in Workers, NEW rows, Post(t, rows), UNCHANGED requestVars,
           tx[t].pc = "locked"
    PROVE  WalletInv'
<1>1. PICK y : y = tx[t]
  OBVIOUS
<1>2. PICK sum : sum = BalanceOf(ledger \o rows, y.user)
  OBVIOUS
<1>3. PICK x : x = [y EXCEPT !.pc = "posted", !.rows = rows, !.sum = sum]
  OBVIOUS
<1>4. IsTx(y) /\ WalletTx(t, y)
  BY <1>1 DEF Inv, TxOK, WalletInv
<1>5. tx' = [tx EXCEPT ![t] = x] /\ UNCHANGED <<ledger, balance, walletLock, req>>
  BY <1>1, <1>2, <1>3 DEF Post, Inv, walletVars, requestVars
<1>6. /\ x.pc = "posted" /\ x.kind = y.kind /\ x.key = y.key /\ x.rows = rows
      /\ x.user = y.user /\ x.amount = y.amount /\ x.sum = sum
  BY <1>3, <1>4, PostedRecord DEF IsTx
<1>7. WalletTx(t, x)'
  BY <1>1, <1>2, <1>4, <1>5, <1>6 DEF WalletTx, WalletPc
<1> QED
  BY <1>5, <1>7, SameLocks, SameMoves, WalletStep

LEMMA EndsWallet ==
    ASSUME Inv, WalletInv, NEW t \in Workers,
           tx' = [tx EXCEPT ![t] = NoTx], UNCHANGED req,
           UNCHANGED <<ledger, balance>> \/ Commits(t),
           FreeWallets(t) \/ UNCHANGED walletLock
    PROVE  WalletInv'
<1>1. PICK x : x = NoTx
  OBVIOUS
<1>2. WalletTx(t, x)'
  BY <1>1, NoTxFields, NoWalletTx DEF WalletPc
<1> QED
  BY <1>1, <1>2, FreeWalletsKeeps, SameLocks, SameMoves, WalletStep

LEMMA PostsWallet ==
    ASSUME Inv, WalletInv, NEW t \in Workers,
           \/ (SalePost(t) /\ UNCHANGED requestVars) \/ RequestPost(t) \/ AdminPost(t)
    PROVE  WalletInv'
<1>1. /\ tx[t].pc = "locked" /\ UNCHANGED requestVars
      /\ (\E rows : Post(t, rows)) \/ Rollback(t)
  BY DEF SalePost, RequestPost, AdminPost
<1>2. CASE Rollback(t)
  BY <1>1, <1>2, EndsWallet DEF Rollback, requestVars
<1> QED
  BY <1>1, <1>2, PostWallet

LEMMA PayoutWallet ==
    ASSUME Inv, WalletInv, NEW t \in Workers,
           PayoutUnavailable(t) \/ PayoutTaken(t) \/ PayoutAnswered(t)
    PROVE  WalletInv'
<1>1. UNCHANGED <<walletVars, req>>
  BY DEF PayoutUnavailable, PayoutTaken, PayoutAnswered
<1>2. CASE PayoutTaken(t)
  <2>1. PICK y : y = tx[t]
    OBVIOUS
  <2>2. PICK x : x = [y EXCEPT !.pc = "answer"]
    OBVIOUS
  <2>3. tx' = [tx EXCEPT ![t] = x] /\ y.pc = "payout"
    BY <1>2, <2>1, <2>2 DEF PayoutTaken
  <2>4. IsTx(y) /\ y.kind = "payout"
    BY <2>1, <2>3 DEF Inv, TxOK, IdleTx, SaleTx, RequestTx, MoveTx, PayoutTx, WalletPc
  <2>5. x.pc = "answer" /\ x.kind = "payout"
    BY <2>2, <2>4 DEF IsTx
  <2>6. WalletTx(t, x)'
    BY <2>5, NoWalletTx DEF WalletPc
  <2> QED
    BY <1>1, <2>3, <2>6, SameLocks, SameMoves, WalletStep DEF walletVars
<1>3. CASE PayoutUnavailable(t) \/ PayoutAnswered(t)
  BY <1>1, <1>3, EndsWallet DEF walletVars, PayoutUnavailable, PayoutAnswered
<1> QED
  BY <1>2, <1>3

(* The request that is created has no decision yet.                        *)
LEMMA CreatedUndecided ==
    ASSUME Inv, NEW t \in Workers, RequestCommit(t)
    PROVE  MovesKept(t) /\ tx[t].key \in Requests /\ req[tx[t].key].status = "none"
<1>1. /\ tx[t].kind = "request"
      /\ req' = [req EXCEPT ![tx[t].key] = [status |-> "pending", user |-> tx[t].user,
                                             amount |-> tx[t].amount]]
  BY DEF RequestCommit
<1>2. tx[t].key \in Requests /\ req[tx[t].key].status = "none"
  BY <1>1 DEF Inv, TxOK, IdleTx, SaleTx, RequestTx, MoveTx, PayoutTx
<1>3. ASSUME NEW s \in Workers \ {t}, tx[s].kind = "move"
      PROVE  req'[tx[s].key] = req[tx[s].key]
  <2>1. MoveTx(s, tx[s])
    BY <1>3 DEF Inv, TxOK, IdleTx, SaleTx, RequestTx, PayoutTx
  <2>2. tx[s].key \in Requests /\ tx[s].key # tx[t].key
    <3>1. NEXT["none"] = {}
      BY DEF NEXT
    <3> QED
      BY <1>2, <2>1, <3>1, Zenon DEF MoveTx
  <2> QED
    BY <1>1, <2>2 DEF Inv, RowsOK
<1> QED
  BY <1>2, <1>3 DEF MovesKept

(* The request that is decided is held by nobody else.                     *)
LEMMA DecidedAlone ==
    ASSUME Inv, NEW t \in Workers, AdminCommit(t)
    PROVE  MovesKept(t) /\ MoveTx(t, tx[t])
<1>1. tx[t].kind = "move" /\ req' = [req EXCEPT ![tx[t].key].status = tx[t].to]
  BY DEF AdminCommit
<1>2. MoveTx(t, tx[t])
  BY <1>1 DEF Inv, TxOK, IdleTx, SaleTx, RequestTx, PayoutTx
<1>3. ASSUME NEW s \in Workers \ {t}, tx[s].kind = "move"
      PROVE  req'[tx[s].key] = req[tx[s].key]
  <2>1. MoveTx(s, tx[s])
    BY <1>3 DEF Inv, TxOK, IdleTx, SaleTx, RequestTx, PayoutTx
  <2>2. tx[s].key \in Requests /\ tx[s].key # tx[t].key
    BY <1>2, <2>1 DEF MoveTx
  <2> QED
    BY <1>1, <2>2 DEF Inv, RowsOK
<1> QED
  BY <1>2, <1>3 DEF MovesKept

LEMMA CommitWallets ==
    ASSUME NEW t \in Workers, CommitWallet(t), tx[t].pc = "posted"
    PROVE  Commits(t) /\ FreeWallets(t) /\ UniqueItemType(ledger')
BY DEF CommitWallet, Commits

LEMMA CommitsWallet ==
    ASSUME Inv, WalletInv, NEW t \in Workers,
           \/ (SaleCommit(t) /\ UNCHANGED requestVars) \/ RequestCommit(t) \/ AdminCommit(t)
    PROVE  WalletInv'
<1>1. PICK none : none = NoTx
  OBVIOUS
<1>2. WalletTx(t, none)'
  BY <1>1, NoTxFields, NoWalletTx DEF WalletPc
<1>3. CASE SaleCommit(t) /\ UNCHANGED requestVars
  BY <1>3, CommitWallets, EndsWallet DEF SaleCommit, requestVars
<1>4. CASE RequestCommit(t)
  <2>1. tx' = [tx EXCEPT ![t] = none] /\ Commits(t) /\ FreeWallets(t)
    BY <1>1, <1>4, CommitWallets DEF RequestCommit
  <2> QED
    BY <1>2, <1>4, <2>1, CreatedUndecided, FreeWalletsKeeps, WalletStep
<1>5. CASE AdminCommit(t)
  <2>1. PICK x : x = IF tx[t].to = "completed"
                     THEN Work("payout", "payout", tx[t].key, "none", Nobody, 0)
                     ELSE NoTx
    OBVIOUS
  <2>2. tx' = [tx EXCEPT ![t] = x]
    BY <1>5, <2>1 DEF AdminCommit
  <2>3. x.pc \notin WalletPc /\ x.kind \notin {"sale", "request", "move"}
    BY <2>1, WorkFields, NoTxFields DEF WalletPc
  <2>4. /\ UNCHANGED <<ledger, balance>> \/ Commits(t)
        /\ FreeWallets(t) \/ UNCHANGED walletLock
    BY <1>5, CommitWallets DEF AdminCommit, walletVars
  <2> QED
    BY <1>5, <2>2, <2>3, <2>4, DecidedAlone, FreeWalletsKeeps, SameLocks, NoWalletTx, WalletStep
<1> QED
  BY <1>3, <1>4, <1>5

LEMMA NextWallet == Inv /\ WalletInv /\ [Next]_vars => WalletInv'
<1> SUFFICES ASSUME Inv, WalletInv, [Next]_vars PROVE WalletInv'
  OBVIOUS
<1>1. CASE UNCHANGED vars
  <2>1. UNCHANGED <<ledger, balance, walletLock, tx, req>>
    BY <1>1 DEF vars
  <2>2. ASSUME NEW t \in Workers PROVE WalletTx(t, tx[t])'
    BY <2>1 DEF WalletInv, WalletTx
  <2> QED
    BY <2>1, <2>2 DEF WalletInv, BalanceIsLedger
<1>2. CASE Next
  <2>1. PICK t \in Workers : WorkerBegin(t) \/ WorkerStep(t) \/ Crash(t)
    BY <1>2 DEF Next
  <2>2. CASE WorkerStep(t)
    BY <2>2, LockWalletWallet, PostsWallet, PayoutWallet, CommitsWallet DEF WorkerStep
  <2>3. CASE Crash(t)
    BY <2>3, EndsWallet DEF Crash, Rollback
  <2> QED
    BY <2>1, <2>2, <2>3, BeginsWallet
<1> QED
  BY <1>1, <1>2

(* Wallet.tla, BalanceIsLedger: the cached balance is the sum of the       *)
(* ledger's rows that count, and never below zero, whatever workers touch  *)
(* the wallet at once (wallet/services.py, _sync_wallet_balance).          *)
THEOREM BalanceNeverDrifts == Spec => []BalanceIsLedger
<1>1. WalletInv => BalanceIsLedger
  BY DEF WalletInv
<1> QED
  BY <1>1, InitInv, NextInv, InitWallet, NextWallet, PTL DEF Spec

-----------------------------------------------------------------------------
(***************************************************************************)
(* The ledger and the requests together are the abstract account.          *)
(***************************************************************************)
-----------------------------------------------------------------------------
(***************************************************************************)
(* The abstract account: a commit is a step of it, and nothing else is.    *)
(***************************************************************************)
Credited == {i \in Items : FeeCharged(i)}

HoldOf(row) == [state  |-> HoldState(row.status),
                user   |-> IF row.status = "none" THEN "nobody" ELSE row.user,
                amount |-> row.amount]

Held == [w \in Requests |-> HoldOf(req[w])]

LEMMA Stutters ==
    ASSUME UNCHANGED <<ledger, balance, req>> PROVE UNCHANGED Acc!vars
<1>1. \A i \in Items : FeeCharged(i)' <=> FeeCharged(i)
  BY DEF FeeCharged
<1>2. {i \in Items : FeeCharged(i)}' = {i \in Items : FeeCharged(i)}
  BY <1>1
<1> QED
  BY <1>2 DEF Acc!vars

LEMMA CreditedRows == \A i : FeeCharged(i) <=> RowsOf("platform_fee", i) # {}
BY DEF FeeCharged, RowsOf

LEMMA InitAccount == Init => Acc!Init
<1> SUFFICES ASSUME Init PROVE Acc!Init
  OBVIOUS
<1>1. ledger = <<>> /\ balance = [u \in Users |-> 0] /\ req = [w \in Requests |-> NoRequest]
  BY Zenon DEF Init, WalletInit
<1>2. {i \in Items : FeeCharged(i)} = {}
  BY <1>1 DEF FeeCharged
<1>3. ASSUME NEW w \in Requests PROVE HoldOf(req[w]) = Acc!None
  BY <1>1 DEF HoldOf, HoldState, NoRequest, Acc!None
<1> QED
  BY <1>1, <1>2, <1>3 DEF Acc!Init, HoldOf

(* What the rows of a commit do to the balance.                            *)
LEMMA OwnBalance ==
    ASSUME Inv, WalletInv, NEW t \in Workers, Commits(t),
           NEW u, u = tx[t].user, NEW e, Adds(tx[t].rows, u, e)
    PROVE  /\ u \in Users /\ e \in Int /\ balance[u] \in Int
           /\ balance' = [balance EXCEPT ![u] = @ + e]
           /\ balance[u] + e >= 0
<1>1. PICK x : x = tx[t]
  OBVIOUS
<1>2. /\ WalletTx(t, x) /\ x.pc = "posted" /\ x.sum >= 0 /\ x.user = u
      /\ balance' = [balance EXCEPT ![u] = x.sum]
  BY <1>1 DEF WalletInv, Commits
<1>3. u \in Users /\ x.sum = BalanceOf(ledger \o x.rows, u)
  BY <1>2 DEF WalletTx, WalletPc
<1>4. ledger \in Seq(LedgerRow) /\ balance[u] = BalanceOf(ledger, u) /\ balance \in [Users -> Int]
  BY <1>3 DEF Inv, RowsOK, WalletInv, BalanceIsLedger
<1>5. x.sum = balance[u] + e /\ e \in Int
  BY <1>1, <1>3, <1>4 DEF Adds
<1> QED
  BY <1>2, <1>3, <1>4, <1>5

LEMMA OneRowAdds ==
    ASSUME NEW r \in LedgerRow, r.type \in BALANCE_AFFECTING_TYPES, NEW rows, rows = <<r>>
    PROVE  Adds(rows, r.user, r.amount)
<1>1. Share(r, r.user) = r.amount /\ r.amount \in Int
  BY DEF Share, LedgerRow
<1> QED
  BY <1>1, OneRowEffect DEF Adds

LEMMA SaleIsEarned ==
    ASSUME Inv, WalletInv, NEW t \in Workers, SaleCommit(t), UNCHANGED requestVars
    PROVE  \E i \in Items : Acc!Earn(i)
<1> PICK i : i = tx[t].key
  OBVIOUS
<1> PICK fee : fee = FeeRow(i)
  OBVIOUS
<1> PICK credit : credit = CreditRow(i)
  OBVIOUS
<1> PICK u : u = tx[t].user
  OBVIOUS
<1>1. /\ i \in Items /\ tx[t].rows = <<fee, credit>>
      /\ \A ref : ref # i => RowsOf("platform_fee", ref)' = RowsOf("platform_fee", ref)
      /\ RowsOf("platform_fee", i) = {} /\ RowsOf("platform_fee", i)' # {}
  <2>1. SaleRows(t, i, fee, credit)
    BY SaleCommitRows
  <2>2. RowsOf("platform_fee", i)' = {Len(ledger) + 1}
    BY <2>1, Zenon DEF SaleRows
  <2> QED
    BY <2>1, <2>2, Zenon DEF SaleRows
<1>2. Commits(t) /\ UNCHANGED req
  BY CommitWallets DEF SaleCommit, requestVars
<1>3. u = SellerOf[i] /\ SellerOf[i] \in Users
  <2>1. tx[t].kind = "sale"
    BY DEF SaleCommit
  <2> QED
    BY <1>1, <2>1, WalletAssumption DEF WalletInv, WalletTx
<1>4. LineTotal[i] \in Int /\ Fee(LineTotal[i]) \in Int
  BY <1>1, WalletAssumption DEF Fee
<1>5. /\ fee \in LedgerRow /\ Share(fee, u) = 0
      /\ credit \in LedgerRow /\ Share(credit, u) = LineTotal[i] - Fee(LineTotal[i])
  BY <1>1, <1>3, <1>4
     DEF FeeRow, CreditRow, Row, LedgerRow, Share, BALANCE_AFFECTING_TYPES
<1>6. PICK e : e = NetOf[i] /\ e = LineTotal[i] - Fee(LineTotal[i]) /\ e \in Int
  BY <1>1, <1>4 DEF NetOf
<1>7. Adds(tx[t].rows, u, e)
  BY <1>1, <1>5, <1>6, TwoRowEffect DEF Adds
<1>8. balance' = [balance EXCEPT ![SellerOf[i]] = @ + NetOf[i]]
  <2>1. balance' = [balance EXCEPT ![u] = @ + e]
    BY <1>2, <1>7, OwnBalance
  <2> QED
    BY <1>3, <1>6, <2>1
<1>9. ~ FeeCharged(i) /\ \A j \in Items : FeeCharged(j)' <=> FeeCharged(j) \/ j = i
  <2>1. \A j : FeeCharged(j)' <=> RowsOf("platform_fee", j)' # {}
    BY DEF FeeCharged, RowsOf
  <2> QED
    BY <1>1, <2>1, CreditedRows
<1>10. i \notin Credited /\ Credited' = Credited \cup {i}
  BY <1>1, <1>9 DEF Credited
<1>11. UNCHANGED Held
  BY <1>2 DEF Held
<1>12. Acc!Earn(i)
  BY <1>8, <1>10, <1>11, Zenon DEF Acc!Earn, Credited, Held, HoldOf
<1> QED
  BY <1>1, <1>12

LEMMA SameCredits ==
    ASSUME \A ref : RowsOf("platform_fee", ref)' = RowsOf("platform_fee", ref)
    PROVE  Credited' = Credited
<1>1. \A j : FeeCharged(j)' <=> RowsOf("platform_fee", j)' # {}
  BY DEF FeeCharged, RowsOf
<1>2. \A j \in Items : FeeCharged(j)' <=> FeeCharged(j)
  BY <1>1, CreditedRows
<1> QED
  BY <1>2 DEF Credited

LEMMA RequestIsHeld ==
    ASSUME Inv, WalletInv, NEW t \in Workers, RequestCommit(t)
    PROVE  \E w \in Requests, u \in Users, amount \in Amounts : Acc!Hold(w, u, amount)
<1> PICK w : w = tx[t].key
  OBVIOUS
<1> PICK u : u = tx[t].user
  OBVIOUS
<1> PICK amount : amount = tx[t].amount
  OBVIOUS
<1>1. /\ tx[t].pc = "posted" /\ tx[t].kind = "request"
      /\ req' = [req EXCEPT ![w] = [status |-> "pending", user |-> u, amount |-> amount]]
      /\ Commits(t)
  BY CommitWallets DEF RequestCommit
<1>2. PICK r : r = Row(u, "withdrawal", w, - amount)
  OBVIOUS
<1>3. /\ w \in Requests /\ u \in Users /\ amount \in Int /\ req[w].status = "none"
      /\ tx[t].rows = <<r>>
  BY <1>1, <1>2 DEF Inv, TxOK, IdleTx, SaleTx, RequestTx, MoveTx, PayoutTx
<1>4. amount \in Amounts
  BY <1>1 DEF WalletInv, WalletTx
<1>5. /\ r \in LedgerRow /\ r.type = "withdrawal" /\ r.type \in BALANCE_AFFECTING_TYPES
      /\ r.user = u /\ r.amount = - amount
  BY <1>2, <1>3 DEF Row, LedgerRow, BALANCE_AFFECTING_TYPES
<1>6. PICK e \in Int : e = - amount
  BY <1>3
<1>7. Adds(tx[t].rows, u, e)
  BY <1>3, <1>5, <1>6, OneRowAdds
<1>8. /\ balance[u] \in Int /\ balance' = [balance EXCEPT ![u] = @ + e]
      /\ balance[u] + e >= 0
  BY <1>1, <1>7, OwnBalance
<1>9. balance[u] >= amount /\ balance' = [balance EXCEPT ![u] = @ - amount]
  <2>1. balance[u] >= amount /\ balance[u] + e = balance[u] - amount
    BY <1>3, <1>6, <1>8
  <2> QED
    BY <1>8, <2>1, Zenon
<1>10. Credited' = Credited
  <2>1. ledger \in Seq(LedgerRow) /\ ledger' = ledger \o <<r>>
    BY <1>1, <1>3 DEF Inv, RowsOK, Commits
  <2>2. \A ref : RowsOf("platform_fee", ref)' = RowsOf("platform_fee", ref)
    BY <1>5, <2>1, OneRow
  <2> QED
    BY <2>2, SameCredits
<1>11. Held[w].state = "none"
  BY <1>3 DEF Held, HoldOf, HoldState
<1>12. Held' = [Held EXCEPT ![w] = [state |-> "held", user |-> u, amount |-> amount]]
  <2>1. HoldOf([status |-> "pending", user |-> u, amount |-> amount]) =
            [state |-> "held", user |-> u, amount |-> amount]
    BY DEF HoldOf, HoldState
  <2>2. /\ req'[w] = [status |-> "pending", user |-> u, amount |-> amount]
        /\ \A v \in Requests \ {w} : req'[v] = req[v]
    BY <1>1, <1>3 DEF Inv, RowsOK
  <2>3. Held' = [v \in Requests |-> HoldOf(req'[v])]
    BY DEF Held, HoldOf, HoldState
  <2> QED
    BY <1>3, <2>1, <2>2, <2>3 DEF Held
<1>13. Acc!Hold(w, u, amount)
  BY <1>9, <1>10, <1>11, <1>12, Zenon DEF Acc!Hold, Credited, Held, HoldOf
<1> QED
  BY <1>3, <1>4, <1>13

LEMMA DecisionIsKept ==
    ASSUME Inv, WalletInv, NEW t \in Workers, AdminCommit(t)
    PROVE  (\E w \in Requests : Acc!Spend(w) \/ Acc!GiveBack(w)) \/ UNCHANGED Acc!vars
<1> PICK w : w = tx[t].key
  OBVIOUS
<1> PICK to : to = tx[t].to
  OBVIOUS
<1>1. /\ tx[t].kind = "move" /\ req' = [req EXCEPT ![w].status = to]
      /\ \/ tx[t].pc = "posted" /\ Commits(t)
         \/ tx[t].pc = "moving" /\ UNCHANGED <<ledger, balance>>
  BY CommitWallets DEF AdminCommit, walletVars
<1>2. MoveTx(t, tx[t]) /\ WalletTx(t, tx[t])
  BY DecidedAlone DEF WalletInv
<1>3. /\ w \in Requests /\ to \in NEXT[req[w].status]
      /\ tx[t].pc = "posted" => to \in REVERSAL_STATUSES
      /\ tx[t].pc = "moving" => to \notin REVERSAL_STATUSES
  BY <1>2 DEF MoveTx, WalletPc
<1>4. /\ req[w].status \in {"pending", "processing"}
      /\ to \in {"processing", "completed", "failed", "rejected"}
  <2>1. req[w].status \in WithdrawalStatus \cup {"none"}
    BY <1>3 DEF Inv, RowsOK, RequestRow
  <2> QED
    BY <1>3, <2>1 DEF WithdrawalStatus, NEXT
<1>5. PICK u : u = req[w].user
  OBVIOUS
<1>6. PICK amount : amount = req[w].amount
  OBVIOUS
<1>7. u \in Users /\ amount \in Int /\ tx[t].user = u /\ tx[t].amount = amount
  <2>1. req[w] \in RequestRow /\ req[w].user \in Users
    BY <1>3, <1>4 DEF Inv, RowsOK
  <2> QED
    BY <1>1, <1>2, <1>5, <1>6, <2>1 DEF WalletTx, RequestRow
<1>8. Held[w] = [state |-> "held", user |-> u, amount |-> amount]
  BY <1>3, <1>4, <1>5, <1>6 DEF Held, HoldOf, HoldState
<1>9. Held' = [Held EXCEPT ![w].state = HoldState(to)]
  <2>1. /\ req'[w].status = to /\ req'[w].user = u /\ req'[w].amount = amount
        /\ \A v \in Requests \ {w} : req'[v] = req[v]
    BY <1>1, <1>3, <1>5, <1>6 DEF Inv, RowsOK, RequestRow
  <2>2. to # "none"
    BY <1>4
  <2>3. HoldOf(req'[w]) = [state |-> HoldState(to), user |-> u, amount |-> amount]
    BY <2>1, <2>2 DEF HoldOf
  <2>4. Held' = [v \in Requests |-> HoldOf(req'[v])]
    BY DEF Held, HoldOf, HoldState
  <2>5. [Held EXCEPT ![w].state = HoldState(to)][w] =
            [state |-> HoldState(to), user |-> u, amount |-> amount]
    BY <1>3, <1>8 DEF Held
  <2> QED
    BY <1>3, <2>1, <2>3, <2>4, <2>5 DEF Held
<1>10. CASE tx[t].pc = "moving"
  <2>1. UNCHANGED <<ledger, balance>> /\ to \in {"processing", "completed"}
    BY <1>1, <1>3, <1>4, <1>10 DEF REVERSAL_STATUSES
  <2>2. Credited' = Credited
    <3>1. \A j \in Items : FeeCharged(j)' <=> FeeCharged(j)
      BY <2>1 DEF FeeCharged
    <3> QED
      BY <3>1 DEF Credited
  <2>3. CASE to = "processing"
    <3>1. Held' = Held
      BY <1>3, <1>8, <1>9, <2>3 DEF HoldState, Held
    <3> QED
      BY <2>1, <2>2, <3>1, Zenon DEF Acc!vars, Credited, Held, HoldOf
  <2>4. CASE to = "completed"
    <3>1. Held' = [Held EXCEPT ![w].state = "spent"] /\ Held[w].state = "held"
      BY <1>8, <1>9, <2>4 DEF HoldState
    <3>2. Acc!Spend(w)
      BY <2>1, <2>2, <3>1, Zenon DEF Acc!Spend, Credited, Held, HoldOf
    <3> QED
      BY <1>3, <3>2
  <2> QED
    BY <2>1, <2>3, <2>4
<1>11. CASE tx[t].pc = "posted"
  <2>1. Commits(t) /\ to \in {"failed", "rejected"}
    BY <1>1, <1>3, <1>4, <1>11 DEF REVERSAL_STATUSES
  <2>2. PICK r : r = Row(u, "refund", w, amount)
    OBVIOUS
  <2>3. /\ r \in LedgerRow /\ r.type = "refund" /\ r.type \in BALANCE_AFFECTING_TYPES
        /\ r.user = u /\ r.amount = amount
    BY <1>3, <1>7, <2>2 DEF Row, LedgerRow, BALANCE_AFFECTING_TYPES
  <2>4. tx[t].rows = <<r>>
    BY <1>2, <1>7, <1>11, <2>2 DEF MoveTx
  <2>5. Adds(tx[t].rows, u, amount)
    BY <2>3, <2>4, OneRowAdds
  <2>6. balance' = [balance EXCEPT ![u] = @ + amount]
    BY <1>7, <2>1, <2>5, OwnBalance
  <2>7. Credited' = Credited
    <3>1. ledger \in Seq(LedgerRow) /\ ledger' = ledger \o <<r>>
      BY <2>1, <2>4 DEF Inv, RowsOK, Commits
    <3>2. \A ref : RowsOf("platform_fee", ref)' = RowsOf("platform_fee", ref)
      BY <2>3, <3>1, OneRow
    <3> QED
      BY <3>2, SameCredits
  <2>8. /\ Held' = [Held EXCEPT ![w].state = "returned"] /\ Held[w].state = "held"
        /\ Held[w].user = u /\ Held[w].amount = amount
    <3>1. HoldState(to) = "returned"
      BY <2>1 DEF HoldState
    <3> QED
      BY <1>8, <1>9, <3>1
  <2>9. balance' = [balance EXCEPT ![Held[w].user] = @ + Held[w].amount]
    BY <2>6, <2>8, Zenon
  <2>10. Acc!GiveBack(w)
    BY <2>7, <2>8, <2>9, Zenon DEF Acc!GiveBack, Credited, Held, HoldOf
  <2> QED
    BY <1>3, <2>10
<1> QED
  BY <1>1, <1>10, <1>11

(* The steps that neither commit a row nor move a request.                 *)
Quiet(t) ==
    \/ WorkerBegin(t) \/ Crash(t)
    \/ LockWallet(t) /\ UNCHANGED requestVars
    \/ SalePost(t) /\ UNCHANGED requestVars
    \/ RequestPost(t) \/ AdminPost(t)
    \/ PayoutUnavailable(t) \/ PayoutTaken(t) \/ PayoutAnswered(t)

LEMMA NextAccount == Inv /\ WalletInv /\ [Next]_vars => [Acc!Next]_(Acc!vars)
<1> SUFFICES ASSUME Inv, WalletInv, [Next]_vars PROVE Acc!Next \/ UNCHANGED Acc!vars
  OBVIOUS
<1>1. CASE UNCHANGED vars
  BY <1>1, Stutters DEF vars
<1>2. CASE Next
  <2>1. PICK t \in Workers : WorkerBegin(t) \/ WorkerStep(t) \/ Crash(t)
    BY <1>2 DEF Next
  <2>2. CASE SaleCommit(t) /\ UNCHANGED requestVars
    BY <2>2, SaleIsEarned DEF Acc!Next
  <2>3. CASE RequestCommit(t)
    BY <2>3, RequestIsHeld DEF Acc!Next
  <2>4. CASE AdminCommit(t)
    BY <2>4, DecisionIsKept DEF Acc!Next
  <2>5. CASE Quiet(t)
    <3>1. UNCHANGED <<ledger, balance, req>>
      BY <2>5 DEF Quiet, WorkerBegin, SaleBegin, RequestBegin, AdminLock, Crash, Rollback,
         LockWallet, SalePost, RequestPost, AdminPost, Post, PayoutUnavailable, PayoutTaken,
         PayoutAnswered, walletVars, requestVars
    <3> QED
      BY <3>1, Stutters
  <2>6. CASE WorkerStep(t)
    <3>1. \/ SaleCommit(t) /\ UNCHANGED requestVars
          \/ RequestCommit(t)
          \/ AdminCommit(t)
          \/ Quiet(t)
      BY ONLY <2>6, Zenon DEF WorkerStep, Quiet
    <3> QED
      BY ONLY <3>1, <2>2, <2>3, <2>4, <2>5, Zenon
  <2>7. CASE WorkerBegin(t) \/ Crash(t)
    <3>1. Quiet(t)
      BY ONLY <2>7, Zenon DEF Quiet
    <3> QED
      BY ONLY <3>1, <2>5, Zenon
  <2> QED
    BY ONLY <2>1, <2>6, <2>7, Zenon
<1> QED
  BY <1>1, <1>2

(* Withdrawals.tla, KeepsAccount: sales, requests and decisions by any     *)
(* number of workers, and their crashes, are steps of the abstract account *)
(* (withdrawals/services.py, wallet/services.py).                          *)
THEOREM WithdrawalsKeepAccount == Spec => KeepsAccount
<1>1. Inv /\ WalletInv /\ [Next]_vars => [Acc!Next]_(Acc!vars)
  BY NextAccount
<1> QED
  BY <1>1, InitAccount, InitInv, NextInv, InitWallet, NextWallet, PTL
     DEF Spec, KeepsAccount, Acc!Spec
=============================================================================
