---------------------------- MODULE AccountsProof ----------------------------
(***************************************************************************)
(* Proofs about the accounts app: the reset codes of a user                *)
(* (PasswordReset) and the sessions on an account (Sessions), for any      *)
(* finite number of requests, any tokens and any bounds.                   *)
(***************************************************************************)
EXTENDS MCAccounts, FiniteSetTheorems, WellFoundedInduction, TLAPS

(***************************************************************************)
(* Reset codes.  What a request remembers of a code nobody disturbs is     *)
(* what the code's row says.                                               *)
(***************************************************************************)
Holds(r, i) == req[r].pc \notin {"idle", "create"} /\ req[r].i = i

Creating == {r \in Requests : req[r].pc = "create"}

(* Those that are being created have room, and what their issuers retired  *)
(* is dead; what a request works on exists.                                *)
Pointers ==
    /\ Len(code) + Cardinality(Creating) <= MaxCodes
    /\ closed <= Len(code)
    /\ \A j \in DOMAIN code : code[j].after <= Len(code)
    /\ \A r \in Creating : req[r].i <= Len(code) /\ \A i \in 1..req[r].i : ~Live(i)
    /\ \A r \in Requests : req[r].pc \notin {"idle", "create"} => req[r].i \in 1..Len(code)
    /\ \A r \in Requests : req[r].pc = "count" => req[r].seen < MAX_VERIFY_ATTEMPTS

HolderInv(r, i) ==
    /\ req[r].pc = "count" => /\ req[r].seen = code[i].attempts
                              /\ code[i].attempts < MAX_VERIFY_ATTEMPTS
    /\ req[r].pc = "others" <=> code[i].used

SetsOnce(i) == \/ used[i] = 1 /\ code[i].used
               \/ used[i] = 1 /\ \E r \in Requests : Holds(r, i) /\ req[r].pc = "used_at"
               \/ used[i] = 0 /\ ~code[i].used
                              /\ \A r \in Requests : Holds(r, i) => req[r].pc # "used_at"

CodeInv(i) == /\ \A r, s \in Requests : Holds(r, i) /\ Holds(s, i) => r = s
              /\ \A r \in Requests : Holds(r, i) => HolderInv(r, i)
              /\ wrong[i] = code[i].attempts
              /\ SetsOnce(i)

Untouched(i) == used[i] = 0 /\ wrong[i] = 0

Basics == TypeOK /\ Pointers /\ ClosedCodesStayDead

Codes == \A i \in Index \ disturbed : IF i <= Len(code) THEN CodeInv(i) ELSE Untouched(i)

ResetInv == Basics /\ Codes

-----------------------------------------------------------------------------
LEMMA RowTypes ==
    ASSUME TypeOK
    PROVE  /\ DOMAIN code = 1..Len(code) /\ Len(code) \in Nat /\ Len(code) <= MaxCodes
           /\ \A i \in 1..Len(code) : code[i] \in Code
BY DEF TypeOK

LEMMA ByIndex ==
    ASSUME NEW S, NEW n \in Nat, NEW f, f = [i \in 1..n |-> f[i]], \A i \in 1..n : f[i] \in S
    PROVE  f \in Seq(S) /\ Len(f) = n
OBVIOUS

LEMMA Expiring ==
    ASSUME TypeOK, NEW new, new = ExpireUnused(code)
    PROVE  /\ new \in Seq(Code) /\ Len(new) = Len(code)
           /\ \A i \in 1..Len(code) :
                  /\ new[i].used = code[i].used /\ new[i].attempts = code[i].attempts
                  /\ new[i].after = code[i].after
                  /\ new[i].used \/ new[i].expired
<1>1. new = [i \in 1..Len(code) |-> IF code[i].used THEN code[i]
                                    ELSE [code[i] EXCEPT !.expired = TRUE]]
  BY RowTypes DEF ExpireUnused
<1>2. ASSUME NEW i \in 1..Len(code)
      PROVE  /\ new[i] \in Code
             /\ new[i].used = code[i].used /\ new[i].attempts = code[i].attempts
             /\ new[i].after = code[i].after
             /\ new[i].used \/ new[i].expired
  <2>1. code[i] \in Code
    BY RowTypes
  <2> QED
    BY <1>1, <2>1 DEF Code
<1>3. new = [i \in 1..Len(code) |-> new[i]]
  BY <1>1
<1> QED
  BY <1>2, <1>3, ByIndex, RowTypes

(* The order of the numbers has least elements, so a set of positions has  *)
(* a last one.                                                             *)
Below == {p \in Nat \X Nat : p[1] < p[2]}

LEMMA BelowWellFounded == IsWellFoundedOn(Below, Nat)
BY NatLessThanWellFounded, Zenon DEF OpToRel, Below

LEMMA LastOne ==
    ASSUME NEW n \in Nat, NEW S \in SUBSET (1..n), S # {}
    PROVE  \E i \in S : \A j \in S : j <= i
<1> DEFINE T == {k \in Nat : n - k \in S}
<1>1. T \subseteq Nat /\ T # {}
  <2>1. PICK i \in S : TRUE
    OBVIOUS
  <2>2. n - i \in Nat /\ n - (n - i) = i
    OBVIOUS
  <2> QED
    BY <2>2
<1>2. PICK k \in T : \A y \in T : ~ (<<y, k>> \in Below)
  BY <1>1, BelowWellFounded, WFMin, Zenon
<1>3. ASSUME NEW j \in S PROVE j <= n - k
  <2>1. n - j \in Nat /\ n - (n - j) = j
    OBVIOUS
  <2>2. n - j \in T
    BY <2>1
  <2>3. ~ (n - j < k)
    BY <1>1, <1>2, <2>2 DEF Below
  <2> QED
    BY <1>1, <2>3
<1> QED
  BY <1>3

LEMMA Newest ==
    ASSUME TypeOK, NewestUnused # 0
    PROVE  NewestUnused \in 1..Len(code) /\ ~ code[NewestUnused].used
<1> DEFINE unused == {i \in DOMAIN code : ~code[i].used}
<1>1. unused \in SUBSET (1..Len(code)) /\ unused # {}
  BY RowTypes DEF NewestUnused
<1>2. \E i \in unused : \A j \in unused : j <= i
  BY <1>1, LastOne, RowTypes
<1>3. NewestUnused = CHOOSE i \in unused : \A j \in unused : j <= i
  BY <1>1 DEF NewestUnused
<1> QED
  BY <1>1, <1>2, <1>3

LEMMA RequestMoves ==
    ASSUME TypeOK, NEW r \in Requests, NEW x \in Request, req' = [req EXCEPT ![r] = x]
    PROVE  /\ req' \in [Requests -> Request] /\ req'[r] = x
           /\ \A s \in Requests \ {r} : req'[s] = req[s]
BY DEF TypeOK

LEMMA SameCreating ==
    ASSUME TypeOK, NEW r \in Requests, NEW x \in Request, req' = [req EXCEPT ![r] = x],
           x.pc = "create" <=> req[r].pc = "create"
    PROVE  Creating' = Creating
BY RequestMoves DEF Creating

LEMMA FiniteCreating == IsFiniteSet(Creating) /\ Cardinality(Creating) \in Nat
<1>1. Creating \in SUBSET Requests
  BY DEF Creating
<1> QED
  BY <1>1, FS_Subset, FS_CardinalityType, ResetAssumption

LEMMA OneMore ==
    ASSUME NEW r, NEW S, IsFiniteSet(S), Cardinality(S) \in Nat
    PROVE  /\ Cardinality(S \cup {r}) \in Nat /\ Cardinality(S \cup {r}) <= Cardinality(S) + 1
           /\ Cardinality(S \ {r}) \in Nat /\ Cardinality(S \ {r}) <= Cardinality(S)
           /\ r \in S => Cardinality(S \ {r}) = Cardinality(S) - 1
<1>1. /\ IsFiniteSet(S \cup {r})
      /\ Cardinality(S \cup {r}) = IF r \in S THEN Cardinality(S) ELSE Cardinality(S) + 1
  BY FS_AddElement, Zenon
<1>2. /\ IsFiniteSet(S \ {r})
      /\ Cardinality(S \ {r}) = IF r \in S THEN Cardinality(S) - 1 ELSE Cardinality(S)
  BY FS_RemoveElement, Zenon
<1>3. Cardinality(S \cup {r}) \in Nat /\ Cardinality(S \ {r}) \in Nat
  BY <1>1, <1>2, FS_CardinalityType, Zenon
<1> QED
  BY <1>1, <1>2, <1>3

LEMMA IdleType == Idle \in Request /\ Idle.pc = "idle"
BY ResetAssumption DEF Idle, Request

-----------------------------------------------------------------------------
(* Dead codes stay dead: the steps that create no row. *)
LEMMA CreatingStep ==
    ASSUME TypeOK, Pointers, NEW r \in Requests, NEW x \in Request, req' = [req EXCEPT ![r] = x],
           x.pc = "create" => Len(code) + Cardinality(Creating) < MaxCodes,
           Len(code') = Len(code)
    PROVE  (Len(code) + Cardinality(Creating) <= MaxCodes)'
<1>1. CASE x.pc = "create"
  <2>1. Creating' = Creating \cup {r}
    BY <1>1, RequestMoves DEF Creating
  <2>2. Cardinality(Creating') <= Cardinality(Creating) + 1
    BY <2>1, FiniteCreating, OneMore, Zenon
  <2>3. Cardinality(Creating') \in Nat
    BY <2>1, FiniteCreating, OneMore, Zenon
  <2> QED
    BY <1>1, <2>2, <2>3, FiniteCreating, RowTypes, ResetAssumption
<1>2. CASE x.pc # "create"
  <2>1. Creating' = Creating \ {r}
    BY <1>2, RequestMoves DEF Creating
  <2>2. Cardinality(Creating') <= Cardinality(Creating)
    BY <2>1, FiniteCreating, OneMore, Zenon
  <2>3. Cardinality(Creating') \in Nat
    BY <2>1, FiniteCreating, OneMore, Zenon
  <2> QED
    BY <2>2, <2>3, FiniteCreating, RowTypes, ResetAssumption DEF Pointers
<1> QED
  BY <1>1, <1>2

LEMMA BasicStep ==
    ASSUME Basics, NEW r \in Requests, NEW x \in Request, req' = [req EXCEPT ![r] = x],
           code' \in Seq(Code), Len(code') = Len(code),
           \A i \in 1..Len(code) : code'[i].after = code[i].after,
           \A i \in 1..Len(code) : Live(i)' => Live(i),
           \/ closed' = closed
           \/ closed' = Len(code) /\ \A i \in 1..Len(code) : ~Live(i)',
           x.pc = "create" => /\ x.i = Len(code)
                              /\ \A i \in 1..Len(code) : ~Live(i)'
                              /\ Len(code) + Cardinality(Creating) < MaxCodes,
           x.pc \notin {"idle", "create"} => x.i \in 1..Len(code),
           x.pc = "count" => x.seen < MAX_VERIFY_ATTEMPTS,
           wrong' \in [Index -> 0..MAX_VERIFY_ATTEMPTS + 1], used' \in [Index -> 0..2],
           disturbed' \subseteq Index
    PROVE  Basics'
<1>1. /\ req' \in [Requests -> Request] /\ req'[r] = x
      /\ \A s \in Requests \ {r} : req'[s] = req[s]
  BY RequestMoves DEF Basics
<1>2. /\ Len(code) \in Nat /\ Len(code) <= MaxCodes
      /\ DOMAIN code = 1..Len(code) /\ DOMAIN code' = 1..Len(code)
      /\ closed \in Nat /\ closed <= Len(code) /\ closed' \in Nat /\ closed' <= Len(code)
  BY ResetAssumption, RowTypes DEF Basics, TypeOK, Pointers
<1>3. TypeOK'
  BY <1>1, <1>2, ResetAssumption DEF Basics, TypeOK
<1>4. (Len(code) + Cardinality(Creating) <= MaxCodes)'
  BY CreatingStep DEF Basics
<1>5. Pointers'
  <2>1. \A j \in DOMAIN code' : code'[j].after <= Len(code')
    BY <1>2 DEF Basics, Pointers
  <2>2. ASSUME NEW s \in Creating'
        PROVE  req'[s].i <= Len(code') /\ \A i \in 1..req'[s].i : ~Live(i)'
    <3>1. CASE s = r
      BY <1>1, <1>2, <2>2, <3>1 DEF Creating
    <3>2. CASE s # r
      <4>1. s \in Creating /\ req'[s] = req[s] /\ req[s].i \in Nat
        BY <1>1, <2>2, <3>2, ResetAssumption DEF Creating, Basics, TypeOK, Request
      <4> QED
        BY <1>2, <4>1 DEF Basics, Pointers
    <3> QED
      BY <3>1, <3>2
  <2>3. \A s \in Requests : req'[s].pc \notin {"idle", "create"} => req'[s].i \in 1..Len(code')
    BY <1>1 DEF Basics, Pointers
  <2>4. \A s \in Requests : req'[s].pc = "count" => req'[s].seen < MAX_VERIFY_ATTEMPTS
    BY <1>1 DEF Basics, Pointers
  <2> QED
    BY <1>2, <1>4, <2>1, <2>2, <2>3, <2>4 DEF Pointers
<1>6. ClosedCodesStayDead'
  <2>1. ASSUME NEW j \in DOMAIN code', NEW i \in 1..code'[j].after PROVE ~Live(i)'
    <3>1. j \in DOMAIN code /\ code'[j].after = code[j].after /\ code[j].after <= Len(code)
      BY <1>2 DEF Basics, Pointers
    <3>2. code[j].after \in Nat
      BY <1>2, RowTypes, ResetAssumption DEF Basics, Code
    <3> QED
      BY <1>2, <2>1, <3>1, <3>2 DEF Basics, ClosedCodesStayDead
  <2>2. \A i \in 1..closed' : ~Live(i)'
    BY <1>2 DEF Basics, ClosedCodesStayDead
  <2> QED
    BY <2>1, <2>2 DEF ClosedCodesStayDead
<1> QED
  BY <1>3, <1>5, <1>6 DEF Basics

(* And the one that does: the new row comes after all the others. *)
LEMMA CreateBasics == ASSUME Basics, NEW r \in Requests, IssueCreate(r) PROVE Basics'
<1> DEFINE n == Len(code)
<1>1. req' = [req EXCEPT ![r] = Idle] /\ UNCHANGED <<wrong, used, disturbed, closed>>
  BY DEF IssueCreate
<1>2. /\ req' \in [Requests -> Request] /\ req'[r] = Idle
      /\ \A s \in Requests \ {r} : req'[s] = req[s]
  BY <1>1, IdleType, RequestMoves DEF Basics
<1>3. /\ n \in Nat /\ n <= MaxCodes /\ DOMAIN code = 1..n /\ code \in Seq(Code)
  BY RowTypes DEF Basics, TypeOK
<1>4. /\ r \in Creating /\ req[r].i \in Nat /\ req[r].i <= n
      /\ \A i \in 1..req[r].i : ~Live(i)
  BY ResetAssumption DEF IssueCreate, Basics, TypeOK, Request, Creating, Pointers
<1>5. Creating' = Creating \ {r}
  BY <1>2, IdleType DEF Creating
<1>6. /\ Cardinality(Creating') = Cardinality(Creating) - 1 /\ Cardinality(Creating') \in Nat
  BY <1>4, <1>5, FiniteCreating, OneMore, Zenon
<1>7. n + 1 <= MaxCodes /\ n + 1 + Cardinality(Creating') <= MaxCodes
  BY <1>3, <1>6, FiniteCreating, ResetAssumption DEF Basics, Pointers
<1>8. Fresh(req[r].i) \in Code /\ Fresh(req[r].i).after = req[r].i
  BY <1>3, <1>4, ResetAssumption DEF Fresh, Code
<1>9. /\ code' \in Seq(Code) /\ Len(code') = n + 1 /\ DOMAIN code' = 1..n+1
      /\ \A i \in 1..n : code'[i] = code[i]
      /\ code'[n + 1] = Fresh(req[r].i)
  BY <1>3, <1>8 DEF IssueCreate
<1> HIDE DEF n
<1>10. \A i \in 1..n : Live(i)' <=> Live(i)
  BY <1>3, <1>9 DEF Live
<1>11. TypeOK'
  BY <1>1, <1>2, <1>7, <1>9 DEF Basics, TypeOK
<1>12. closed \in Nat /\ closed <= n
  BY ResetAssumption DEF Basics, TypeOK, Pointers, n
<1>13. ASSUME NEW j \in 1..n+1
       PROVE  /\ code'[j].after \in Nat /\ code'[j].after <= n
              /\ \A i \in 1..code'[j].after : ~Live(i)'
  <2>1. CASE j = n + 1
    BY <1>3, <1>4, <1>8, <1>9, <1>10, <2>1
  <2>2. CASE j # n + 1
    <3>1. j \in 1..n /\ code'[j] = code[j] /\ j \in DOMAIN code
      BY <1>3, <1>9, <2>2
    <3>2. code[j].after \in Nat
      BY <1>3, <3>1, RowTypes, ResetAssumption DEF Basics, Code, n
    <3>3. code[j].after <= n /\ \A i \in 1..code[j].after : ~Live(i)
      BY <3>1 DEF Basics, Pointers, ClosedCodesStayDead, n
    <3> QED
      BY <1>3, <1>10, <3>1, <3>2, <3>3
  <2> QED
    BY <2>1, <2>2
<1>14. ClosedCodesStayDead'
  BY <1>1, <1>3, <1>9, <1>10, <1>12, <1>13 DEF Basics, ClosedCodesStayDead
<1>15. ASSUME NEW s \in Creating'
       PROVE  req'[s].i <= n + 1 /\ \A i \in 1..req'[s].i : ~Live(i)'
  <2>1. s \in Creating /\ req'[s] = req[s] /\ req[s].i \in Nat
    BY <1>2, <1>5, <1>15, ResetAssumption DEF Creating, Basics, TypeOK, Request
  <2>2. req[s].i <= n /\ \A i \in 1..req[s].i : ~Live(i)
    BY <2>1 DEF Basics, Pointers, n
  <2> QED
    BY <1>3, <1>10, <2>1, <2>2
<1>16. ASSUME NEW s \in Requests, req'[s].pc \notin {"idle", "create"} PROVE req'[s].i \in 1..n+1
  <2>1. req'[s] = req[s]
    BY <1>2, <1>16, IdleType
  <2>2. req[s].i \in 1..n
    BY <1>16, <2>1 DEF Basics, Pointers, n
  <2> QED
    BY <1>3, <2>1, <2>2
<1>17. \A s \in Requests : req'[s].pc = "count" => req'[s].seen < MAX_VERIFY_ATTEMPTS
  BY <1>2, IdleType DEF Basics, Pointers
<1>18. Pointers'
  BY <1>1, <1>3, <1>7, <1>9, <1>12, <1>13, <1>15, <1>16, <1>17 DEF Pointers
<1> QED
  BY <1>11, <1>14, <1>18 DEF Basics

-----------------------------------------------------------------------------
(* A code that neither the row nor the request of a step is about. *)
LEMMA OtherCode ==
    ASSUME TypeOK, NEW i, CodeInv(i), NEW r \in Requests, NEW x \in Request,
           req' = [req EXCEPT ![r] = x],
           ~Holds(r, i), x.pc \notin {"idle", "create"} => x.i # i,
           code'[i].used = code[i].used, code'[i].attempts = code[i].attempts,
           wrong'[i] = wrong[i], used'[i] = used[i]
    PROVE  CodeInv(i)'
<1>1. /\ req'[r] = x
      /\ \A s \in Requests \ {r} : req'[s] = req[s]
  BY RequestMoves
<1>2. \A s \in Requests : Holds(s, i)' <=> Holds(s, i) /\ s # r
  BY <1>1 DEF Holds
<1>3. SetsOnce(i)'
  BY <1>1, <1>2 DEF CodeInv, SetsOnce
<1>4. \A s \in Requests : Holds(s, i)' => HolderInv(s, i)'
  BY <1>1, <1>2 DEF CodeInv, HolderInv
<1> QED
  BY <1>2, <1>3, <1>4 DEF CodeInv

(* A code that only the request of the step holds, before or after it. *)
LEMMA OwnCode ==
    ASSUME TypeOK, NEW i, NEW r \in Requests, NEW x \in Request,
           req' = [req EXCEPT ![r] = x],
           \A s \in Requests \ {r} : ~Holds(s, i),
           x.pc = "count" => /\ x.seen = code'[i].attempts
                             /\ code'[i].attempts < MAX_VERIFY_ATTEMPTS,
           x.pc \notin {"idle", "create"} => (x.pc = "others" <=> code'[i].used),
           wrong'[i] = code'[i].attempts,
           \/ used'[i] = 1 /\ code'[i].used
           \/ used'[i] = 1 /\ x.pc = "used_at" /\ x.i = i
           \/ used'[i] = 0 /\ ~code'[i].used /\ x.pc # "used_at"
    PROVE  CodeInv(i)'
<1>1. /\ req'[r] = x
      /\ \A s \in Requests \ {r} : req'[s] = req[s]
  BY RequestMoves
<1>2. \A s \in Requests : Holds(s, i)' => s = r
  BY <1>1 DEF Holds
<1>3. SetsOnce(i)'
  BY <1>1, <1>2 DEF SetsOnce, Holds
<1>4. Holds(r, i)' => HolderInv(r, i)'
  BY <1>1 DEF HolderInv, Holds
<1> QED
  BY <1>2, <1>3, <1>4 DEF CodeInv

LEMMA Types ==
    ASSUME Basics
    PROVE  /\ DOMAIN code = 1..Len(code) /\ Len(code) \in Nat /\ Len(code) <= MaxCodes
           /\ code \in Seq(Code)
           /\ \A i \in 1..Len(code) : i \in Index /\ code[i] \in Code
           /\ \A r \in Requests : req[r] \in Request
BY RowTypes, ResetAssumption DEF Basics, TypeOK, Index

LEMMA IssueExpireInv == ASSUME ResetInv, NEW r \in Requests, IssueExpire(r) PROVE ResetInv'
<1> DEFINE x == [Idle EXCEPT !.pc = "create", !.i = Len(code)]
<1>1. x \in Request /\ x.pc = "create" /\ x.i = Len(code)
  <2>1. Len(code) \in 0..MaxCodes /\ 0 \in 0..MAX_VERIFY_ATTEMPTS
    BY Types, ResetAssumption DEF ResetInv
  <2>2. Idle \in Request
    BY IdleType
  <2> QED
    BY <2>1, <2>2 DEF Request
<1>2. /\ req' = [req EXCEPT ![r] = x] /\ code' = ExpireUnused(code)
      /\ UNCHANGED <<wrong, used, disturbed, closed>>
      /\ Len(code) + Cardinality(Creating) < MaxCodes
      /\ req[r].pc = "idle"
  BY DEF IssueExpire, Creating
<1> HIDE DEF x
<1>3. /\ code' \in Seq(Code) /\ Len(code') = Len(code)
      /\ \A i \in 1..Len(code) : /\ code'[i].used = code[i].used
                                 /\ code'[i].attempts = code[i].attempts
                                 /\ code'[i].after = code[i].after
                                 /\ code'[i].used \/ code'[i].expired
  BY <1>2, Expiring DEF ResetInv, Basics
<1>4. \A i \in 1..Len(code) : ~Live(i)'
  BY <1>3 DEF Live
<1>5. Basics'
  BY <1>1, <1>2, <1>3, <1>4, BasicStep DEF ResetInv, Basics, TypeOK
<1>6. ASSUME NEW i \in Index \ disturbed, i <= Len(code) PROVE CodeInv(i)'
  <2>1. i \in 1..Len(code) /\ CodeInv(i)
    BY <1>6, ResetAssumption DEF Index, ResetInv, Codes
  <2> QED
    BY <1>1, <1>2, <1>3, <2>1, OtherCode DEF ResetInv, Basics, Holds
<1>7. Codes'
  BY <1>2, <1>3, <1>6 DEF ResetInv, Codes, Untouched
<1> QED
  BY <1>5, <1>7 DEF ResetInv

LEMMA IssueCreateInv == ASSUME ResetInv, NEW r \in Requests, IssueCreate(r) PROVE ResetInv'
<1> DEFINE n == Len(code)
<1>1. Basics'
  BY CreateBasics DEF ResetInv
<1>2. /\ req' = [req EXCEPT ![r] = Idle] /\ UNCHANGED <<wrong, used, disturbed>>
      /\ code' = Append(code, Fresh(req[r].i)) /\ req[r].pc = "create"
  BY DEF IssueCreate
<1>3. /\ n \in Nat /\ code \in Seq(Code) /\ Len(code') = n + 1
      /\ \A i \in 1..n : code'[i] = code[i]
      /\ code'[n + 1] = Fresh(req[r].i)
  BY <1>2, Types DEF ResetInv
<1> HIDE DEF n
<1>4. ASSUME NEW i \in Index \ disturbed', i <= n PROVE CodeInv(i)'
  <2>1. i \in 1..n /\ CodeInv(i)
    BY <1>2, <1>4, ResetAssumption DEF Index, ResetInv, Codes, n
  <2> QED
    BY <1>2, <1>3, <2>1, OtherCode, IdleType DEF ResetInv, Basics, Holds
<1>5. ASSUME NEW i \in Index \ disturbed', i = n + 1 PROVE CodeInv(i)'
  <2>1. Untouched(i)
    BY <1>2, <1>3, <1>5 DEF ResetInv, Codes, n
  <2>2. \A s \in Requests : ~Holds(s, i)
    BY <1>3, <1>5 DEF ResetInv, Basics, Pointers, Holds, n
  <2>3. ~code'[i].used /\ code'[i].attempts = 0 /\ wrong'[i] = 0 /\ used'[i] = 0
    BY <1>2, <1>3, <1>5, <2>1 DEF Untouched, Fresh
  <2> QED
    BY <1>2, <2>2, <2>3, OwnCode, IdleType DEF ResetInv, Basics
<1>6. ASSUME NEW i \in Index \ disturbed', i > n + 1 PROVE Untouched(i)'
  BY <1>2, <1>3, <1>6, ResetAssumption DEF ResetInv, Codes, Untouched, Index, n
<1>7. Codes'
  BY <1>3, <1>4, <1>5, <1>6, ResetAssumption DEF Codes, Index
<1> QED
  BY <1>1, <1>7 DEF ResetInv

LEMMA ResetReadInv ==
    ASSUME ResetInv, NEW r \in Requests, NEW typed, ResetRead(r, typed)
    PROVE  ResetInv'
<1>1. PICK k : k = NewestUnused
  OBVIOUS
<1>2. /\ k \in 1..Len(code) /\ ~code[k].used
      /\ code[k].attempts < MAX_VERIFY_ATTEMPTS
      /\ code[k] \in Code /\ k \in Index
  BY <1>1, Newest, Types, ResetAssumption DEF ResetRead, IsExhausted, ResetInv, Basics, Code
<1> DEFINE x == [pc |-> IF typed = k THEN "password" ELSE "count",
                 i |-> k, seen |-> code[k].attempts]
<1>3. x \in Request /\ x.pc \in {"password", "count"} /\ x.i = k /\ x.seen = code[k].attempts
  BY <1>2 DEF Request, Code, Index
<1>4. /\ req' = [req EXCEPT ![r] = x]
      /\ UNCHANGED <<code, wrong, used, closed>>
      /\ disturbed' = IF Holders(k) # {} THEN disturbed \cup {k} ELSE disturbed
      /\ req[r].pc = "idle"
  BY <1>1 DEF ResetRead
<1> HIDE DEF x
<1>5. Basics'
  <2>1. disturbed' \subseteq Index
    BY <1>2, <1>4 DEF ResetInv, Basics, TypeOK
  <2>2. \A i \in 1..Len(code) : Live(i)' => Live(i)
    BY <1>4 DEF Live
  <2> QED
    BY <1>2, <1>3, <1>4, <2>1, <2>2, BasicStep DEF ResetInv, Basics, TypeOK
<1>6. ASSUME NEW i \in Index \ disturbed', i <= Len(code) PROVE CodeInv(i)'
  <2>1. i \in 1..Len(code) /\ CodeInv(i) /\ ~Holds(r, i)
    BY <1>4, <1>6, ResetAssumption DEF Index, ResetInv, Codes, Holds
  <2>2. CASE i # k
    BY <1>3, <1>4, <2>1, <2>2, OtherCode DEF ResetInv, Basics
  <2>3. CASE i = k
    <3>1. \A s \in Requests : ~Holds(s, i)
      BY <1>4, <2>3 DEF Holders, Holds
    <3>2. used[i] = 0
      BY <1>2, <2>1, <2>3, <3>1 DEF CodeInv, SetsOnce
    <3>3. wrong[i] = code[i].attempts
      BY <2>1 DEF CodeInv
    <3> QED
      BY <1>2, <1>3, <1>4, <2>3, <3>1, <3>2, <3>3, OwnCode DEF ResetInv, Basics
  <2> QED
    BY <2>2, <2>3
<1>7. Codes'
  BY <1>4, <1>6 DEF ResetInv, Codes, Untouched
<1> QED
  BY <1>5, <1>7 DEF ResetInv

(* The code a request works on, in the steps that finish its work. *)
LEMMA Mine ==
    ASSUME ResetInv, NEW r \in Requests, req[r].pc \notin {"idle", "create"}
    PROVE  /\ req[r].i \in 1..Len(code) /\ req[r].i \in Index /\ Holds(r, req[r].i)
           /\ code[req[r].i] \in Code
           /\ req[r].i \notin disturbed =>
                  /\ CodeInv(req[r].i) /\ HolderInv(r, req[r].i)
                  /\ \A s \in Requests \ {r} : ~Holds(s, req[r].i)
<1>1. req[r].i \in 1..Len(code) /\ Holds(r, req[r].i)
  BY DEF ResetInv, Basics, Pointers, Holds
<1>2. req[r].i \in Index /\ code[req[r].i] \in Code
  BY <1>1, Types DEF ResetInv
<1>3. req[r].i \notin disturbed => CodeInv(req[r].i)
  BY <1>1, <1>2, Types DEF ResetInv, Codes
<1> QED
  BY <1>1, <1>2, <1>3 DEF CodeInv

(* A request's row changes, and no other. *)
LEMMA RowChanges ==
    ASSUME Basics, NEW k \in 1..Len(code), NEW c \in Code, code' = [code EXCEPT ![k] = c]
    PROVE  /\ code' \in Seq(Code) /\ Len(code') = Len(code)
           /\ code'[k] = c
           /\ \A i \in 1..Len(code) : i # k => code'[i] = code[i]
BY Types

LEMMA CountAttemptInv ==
    ASSUME ResetInv, NEW r \in Requests, CountAttempt(r)
    PROVE  ResetInv'
<1>1. PICK k : k = req[r].i
  OBVIOUS
<1>2. PICK c : c = [code[k] EXCEPT !.attempts = req[r].seen + 1]
  OBVIOUS
<1>3. /\ code' = [code EXCEPT ![k] = c]
      /\ wrong' = [wrong EXCEPT ![k] = UpTo(MAX_VERIFY_ATTEMPTS + 1, wrong[k] + 1)]
      /\ req' = [req EXCEPT ![r] = Idle]
      /\ UNCHANGED <<used, disturbed, closed>>
      /\ req[r].pc = "count"
  BY <1>1, <1>2 DEF CountAttempt
<1>4. /\ k \in 1..Len(code) /\ k \in Index /\ Holds(r, k) /\ code[k] \in Code
      /\ k \notin disturbed => /\ CodeInv(k) /\ HolderInv(r, k)
                               /\ \A s \in Requests \ {r} : ~Holds(s, k)
  BY <1>1, <1>3, Mine
<1>5. req[r].seen \in Nat /\ req[r].seen < MAX_VERIFY_ATTEMPTS
  BY <1>3, Types, ResetAssumption DEF ResetInv, Basics, Pointers, Request
<1>6. /\ c \in Code /\ c.used = code[k].used /\ c.expired = code[k].expired
      /\ c.after = code[k].after /\ c.attempts = req[r].seen + 1
  <2>1. req[r].seen + 1 \in 0..MAX_VERIFY_ATTEMPTS
    BY <1>5, ResetAssumption
  <2> QED
    BY <1>2, <1>4, <2>1 DEF Code
<1>7. /\ code' \in Seq(Code) /\ Len(code') = Len(code) /\ code'[k] = c
      /\ \A i \in 1..Len(code) : i # k => code'[i] = code[i]
  BY <1>3, <1>4, <1>6, RowChanges DEF ResetInv
<1>8. Basics'
  <2>1. \A i \in 1..Len(code) : Live(i)' => Live(i)
    BY <1>6, <1>7, Types DEF Live, ResetInv
  <2>2. \A i \in 1..Len(code) : code'[i].after = code[i].after
    BY <1>6, <1>7
  <2>3. wrong' \in [Index -> 0..MAX_VERIFY_ATTEMPTS + 1]
    BY <1>3, <1>4, ResetAssumption DEF UpTo, ResetInv, Basics, TypeOK
  <2> QED
    BY <1>3, <1>7, <2>1, <2>2, <2>3, BasicStep, IdleType DEF ResetInv, Basics, TypeOK
<1>9. ASSUME NEW i \in Index \ disturbed, i <= Len(code) PROVE CodeInv(i)'
  <2>1. i \in 1..Len(code) /\ CodeInv(i)
    BY <1>9, ResetAssumption DEF Index, ResetInv, Codes
  <2>2. CASE i # k
    <3>1. wrong'[i] = wrong[i] /\ used'[i] = used[i] /\ code'[i] = code[i]
      BY <1>3, <1>4, <1>7, <2>1, <2>2 DEF ResetInv, Basics, TypeOK
    <3>2. ~Holds(r, i)
      BY <1>1, <2>2 DEF Holds
    <3> QED
      BY <1>3, <2>1, <3>1, <3>2, OtherCode, IdleType DEF ResetInv, Basics
  <2>3. CASE i = k
    <3>1. /\ wrong[i] = code[i].attempts /\ req[r].seen = code[i].attempts
          /\ ~code[i].used /\ used[i] = 0
      BY <1>3, <1>4, <2>3 DEF CodeInv, HolderInv, SetsOnce, Holds
    <3>2. wrong'[i] = wrong[i] + 1
      BY <1>3, <1>4, <1>5, <2>3, <3>1, ResetAssumption DEF UpTo, ResetInv, Basics, TypeOK
    <3>3. /\ wrong'[i] = code'[i].attempts /\ ~code'[i].used /\ used'[i] = 0
      BY <1>3, <1>6, <1>7, <2>3, <3>1, <3>2
    <3> QED
      BY <1>3, <1>4, <2>3, <3>3, OwnCode, IdleType DEF ResetInv, Basics
  <2> QED
    BY <2>2, <2>3
<1>10. Codes'
  BY <1>3, <1>4, <1>7, <1>9 DEF ResetInv, Codes, Untouched, Basics, TypeOK
<1> QED
  BY <1>8, <1>10 DEF ResetInv

LEMMA SetPasswordInv ==
    ASSUME ResetInv, NEW r \in Requests, SetPassword(r)
    PROVE  ResetInv'
<1>1. PICK k : k = req[r].i
  OBVIOUS
<1>2. PICK x : x = [req[r] EXCEPT !.pc = "used_at"]
  OBVIOUS
<1>3. /\ used' = [used EXCEPT ![k] = UpTo(2, used[k] + 1)]
      /\ req' = [req EXCEPT ![r] = x]
      /\ UNCHANGED <<code, wrong, disturbed, closed>>
      /\ req[r].pc = "password"
  BY <1>1, <1>2 DEF SetPassword
<1>4. /\ k \in 1..Len(code) /\ k \in Index /\ Holds(r, k)
      /\ k \notin disturbed => /\ CodeInv(k) /\ HolderInv(r, k)
                               /\ \A s \in Requests \ {r} : ~Holds(s, k)
  BY <1>1, <1>3, Mine
<1>5. x \in Request /\ x.pc = "used_at" /\ x.i = k
  BY <1>1, <1>2, Types DEF ResetInv, Request
<1>6. Basics'
  <2>1. \A i \in 1..Len(code) : Live(i)' => Live(i)
    BY <1>3 DEF Live
  <2>2. used' \in [Index -> 0..2]
    BY <1>3, <1>4 DEF UpTo, ResetInv, Basics, TypeOK
  <2> QED
    BY <1>3, <1>4, <1>5, <2>1, <2>2, BasicStep DEF ResetInv, Basics, TypeOK
<1>7. ASSUME NEW i \in Index \ disturbed, i <= Len(code) PROVE CodeInv(i)'
  <2>1. i \in 1..Len(code) /\ CodeInv(i)
    BY <1>7, ResetAssumption DEF Index, ResetInv, Codes
  <2>2. CASE i # k
    <3>1. used'[i] = used[i] /\ ~Holds(r, i)
      BY <1>1, <1>3, <1>4, <2>2 DEF ResetInv, Basics, TypeOK, Holds
    <3> QED
      BY <1>3, <1>5, <2>1, <2>2, <3>1, OtherCode DEF ResetInv, Basics
  <2>3. CASE i = k
    <3>1. wrong[i] = code[i].attempts /\ ~code[i].used /\ used[i] = 0
      BY <1>3, <1>4, <2>3 DEF CodeInv, HolderInv, SetsOnce, Holds
    <3>2. used'[i] = 1
      BY <1>3, <1>4, <2>3, <3>1 DEF UpTo, ResetInv, Basics, TypeOK
    <3> QED
      BY <1>3, <1>4, <1>5, <2>3, <3>1, <3>2, OwnCode DEF ResetInv, Basics
  <2> QED
    BY <2>2, <2>3
<1>8. Codes'
  BY <1>3, <1>4, <1>7 DEF ResetInv, Codes, Untouched, Basics, TypeOK
<1> QED
  BY <1>6, <1>8 DEF ResetInv

LEMMA MarkUsedInv ==
    ASSUME ResetInv, NEW r \in Requests, MarkUsed(r)
    PROVE  ResetInv'
<1>1. PICK k : k = req[r].i
  OBVIOUS
<1>2. PICK x : x = [req[r] EXCEPT !.pc = "others"]
  OBVIOUS
<1>3. PICK c : c = [code[k] EXCEPT !.used = TRUE]
  OBVIOUS
<1>4. /\ code' = [code EXCEPT ![k] = c]
      /\ req' = [req EXCEPT ![r] = x]
      /\ UNCHANGED <<wrong, used, disturbed, closed>>
      /\ req[r].pc = "used_at"
  BY <1>1, <1>2, <1>3 DEF MarkUsed
<1>5. /\ k \in 1..Len(code) /\ k \in Index /\ Holds(r, k) /\ code[k] \in Code
      /\ k \notin disturbed => /\ CodeInv(k) /\ HolderInv(r, k)
                               /\ \A s \in Requests \ {r} : ~Holds(s, k)
  BY <1>1, <1>4, Mine
<1>6. x \in Request /\ x.pc = "others" /\ x.i = k
  BY <1>1, <1>2, Types DEF ResetInv, Request
<1>7. c \in Code /\ c.used /\ c.attempts = code[k].attempts /\ c.after = code[k].after
  BY <1>3, <1>5 DEF Code
<1>8. /\ code' \in Seq(Code) /\ Len(code') = Len(code) /\ code'[k] = c
      /\ \A i \in 1..Len(code) : i # k => code'[i] = code[i]
  BY <1>4, <1>5, <1>7, RowChanges DEF ResetInv
<1>9. Basics'
  <2>1. \A i \in 1..Len(code) : Live(i)' => Live(i)
    BY <1>7, <1>8, Types DEF Live, ResetInv
  <2>2. \A i \in 1..Len(code) : code'[i].after = code[i].after
    BY <1>7, <1>8
  <2> QED
    BY <1>4, <1>5, <1>6, <1>8, <2>1, <2>2, BasicStep DEF ResetInv, Basics, TypeOK
<1>10. ASSUME NEW i \in Index \ disturbed, i <= Len(code) PROVE CodeInv(i)'
  <2>1. i \in 1..Len(code) /\ CodeInv(i)
    BY <1>10, ResetAssumption DEF Index, ResetInv, Codes
  <2>2. CASE i # k
    <3>1. code'[i] = code[i] /\ ~Holds(r, i)
      BY <1>1, <1>8, <2>1, <2>2 DEF Holds
    <3> QED
      BY <1>4, <1>6, <2>1, <2>2, <3>1, OtherCode DEF ResetInv, Basics
  <2>3. CASE i = k
    <3>1. wrong[i] = code[i].attempts /\ used[i] = 1
      BY <1>4, <1>5, <2>3 DEF CodeInv, HolderInv, SetsOnce, Holds
    <3>2. wrong'[i] = code'[i].attempts /\ used'[i] = 1 /\ code'[i].used
      BY <1>4, <1>7, <1>8, <2>3, <3>1
    <3> QED
      BY <1>4, <1>5, <1>6, <2>3, <3>2, OwnCode DEF ResetInv, Basics
  <2> QED
    BY <2>2, <2>3
<1>11. Codes'
  BY <1>4, <1>8, <1>10 DEF ResetInv, Codes, Untouched
<1> QED
  BY <1>9, <1>11 DEF ResetInv

LEMMA ExpireOthersInv ==
    ASSUME ResetInv, NEW r \in Requests, ExpireOthers(r)
    PROVE  ResetInv'
<1>1. PICK k : k = req[r].i
  OBVIOUS
<1>2. /\ req' = [req EXCEPT ![r] = Idle] /\ code' = ExpireUnused(code)
      /\ closed' = Len(code) /\ UNCHANGED <<wrong, used, disturbed>>
      /\ req[r].pc = "others"
  BY DEF ExpireOthers
<1>3. /\ code' \in Seq(Code) /\ Len(code') = Len(code)
      /\ \A i \in 1..Len(code) : /\ code'[i].used = code[i].used
                                 /\ code'[i].attempts = code[i].attempts
                                 /\ code'[i].after = code[i].after
                                 /\ code'[i].used \/ code'[i].expired
  BY <1>2, Expiring DEF ResetInv, Basics
<1>4. /\ k \in 1..Len(code)
      /\ k \notin disturbed => /\ CodeInv(k) /\ HolderInv(r, k)
                               /\ \A s \in Requests \ {r} : ~Holds(s, k)
  BY <1>1, <1>2, Mine
<1>5. \A i \in 1..Len(code) : ~Live(i)'
  BY <1>3 DEF Live
<1>6. Basics'
  BY <1>2, <1>3, <1>5, BasicStep, IdleType DEF ResetInv, Basics, TypeOK
<1>7. ASSUME NEW i \in Index \ disturbed, i <= Len(code) PROVE CodeInv(i)'
  <2>1. i \in 1..Len(code) /\ CodeInv(i)
    BY <1>7, ResetAssumption DEF Index, ResetInv, Codes
  <2>2. CASE i # k
    <3>1. ~Holds(r, i)
      BY <1>1, <2>2 DEF Holds
    <3> QED
      BY <1>2, <1>3, <2>1, <3>1, OtherCode, IdleType DEF ResetInv, Basics
  <2>3. CASE i = k
    <3>1. wrong[i] = code[i].attempts /\ used[i] = 1 /\ code[i].used
      BY <1>2, <1>4, <2>1, <2>3 DEF CodeInv, HolderInv, SetsOnce
    <3>2. wrong'[i] = code'[i].attempts /\ used'[i] = 1 /\ code'[i].used
      BY <1>2, <1>3, <2>1, <3>1
    <3> QED
      BY <1>2, <1>4, <2>3, <3>2, OwnCode, IdleType DEF ResetInv, Basics
  <2> QED
    BY <2>2, <2>3
<1>8. Codes'
  BY <1>2, <1>3, <1>7 DEF ResetInv, Codes, Untouched
<1> QED
  BY <1>6, <1>8 DEF ResetInv

LEMMA CrashInv == ASSUME ResetInv, NEW r \in Requests, Crash(r) PROVE ResetInv'
<1>1. /\ req' = [req EXCEPT ![r] = Idle] /\ UNCHANGED <<code, wrong, used, closed>>
      /\ disturbed' = disturbed \cup {i \in Index : r \in Holders(i)}
  BY DEF Crash
<1>2. \A i \in Index \ disturbed' : i \notin disturbed /\ ~Holds(r, i)
  BY <1>1 DEF Holders, Holds
<1>3. Basics'
  <2>1. disturbed' \subseteq Index
    BY <1>1 DEF ResetInv, Basics, TypeOK
  <2>2. \A i \in 1..Len(code) : Live(i)' => Live(i)
    BY <1>1 DEF Live
  <2> QED
    BY <1>1, <2>1, <2>2, BasicStep, IdleType DEF ResetInv, Basics, TypeOK
<1>4. ASSUME NEW i \in Index \ disturbed', i <= Len(code) PROVE CodeInv(i)'
  <2>1. CodeInv(i)
    BY <1>2, <1>4 DEF ResetInv, Codes
  <2> QED
    BY <1>1, <1>2, <1>4, <2>1, OtherCode, IdleType DEF ResetInv, Basics
<1>5. Codes'
  BY <1>1, <1>2, <1>4 DEF ResetInv, Codes, Untouched
<1> QED
  BY <1>3, <1>5 DEF ResetInv

LEMMA ExpireInv == ASSUME ResetInv, NEW k \in Index, Expire(k) PROVE ResetInv'
<1>1. PICK c : c = [code[k] EXCEPT !.expired = TRUE]
  OBVIOUS
<1>2. /\ code' = [code EXCEPT ![k] = c] /\ UNCHANGED <<req, wrong, used, disturbed, closed>>
      /\ k \in 1..Len(code)
  BY <1>1, Types DEF Expire, Live, ResetInv
<1>3. /\ c \in Code /\ c.used = code[k].used /\ c.expired
      /\ c.attempts = code[k].attempts /\ c.after = code[k].after
  BY <1>1, <1>2, Types DEF Code, ResetInv
<1>4. /\ code' \in Seq(Code) /\ Len(code') = Len(code) /\ DOMAIN code' = DOMAIN code
      /\ \A i \in 1..Len(code) : /\ code'[i].used = code[i].used
                                 /\ code'[i].attempts = code[i].attempts
                                 /\ code'[i].after = code[i].after
                                 /\ Live(i)' => Live(i)
  BY <1>2, <1>3, RowChanges, Types DEF ResetInv, Live
<1>5. Basics'
  <2>1. TypeOK'
    BY <1>2, <1>4 DEF ResetInv, Basics, TypeOK
  <2>2. Pointers'
    <3>1. Creating' = Creating
      BY <1>2 DEF Creating
    <3>2. ASSUME NEW q \in Creating PROVE \A i \in 1..req[q].i : ~Live(i)'
      <4>1. /\ req[q].i \in Nat /\ req[q].i <= Len(code)
            /\ \A i \in 1..req[q].i : ~Live(i)
        BY ResetAssumption, Types DEF ResetInv, Basics, Pointers, Creating, Request
      <4> QED
        BY <1>4, <4>1, Types DEF ResetInv
    <3>3. Len(code') = Len(code) /\ \A j \in DOMAIN code : code'[j].after = code[j].after
      BY <1>4, Types DEF ResetInv
    <3> QED
      BY <1>2, <1>4, <3>1, <3>2, <3>3 DEF ResetInv, Basics, Pointers
  <2>3. ClosedCodesStayDead'
    <3>1. ASSUME NEW j \in DOMAIN code PROVE \A i \in 1..code'[j].after : ~Live(i)'
      <4>1. /\ code'[j].after = code[j].after /\ code[j].after \in Nat
            /\ code[j].after <= Len(code)
            /\ \A i \in 1..code[j].after : ~Live(i)
        <5>1. j \in 1..Len(code) /\ code[j] \in Code
          BY Types DEF ResetInv
        <5>2. code[j].after \in Nat
          BY <5>1, ResetAssumption DEF Code
        <5>3. code[j].after <= Len(code) /\ \A i \in 1..code[j].after : ~Live(i)
          BY DEF ResetInv, Basics, Pointers, ClosedCodesStayDead
        <5> QED
          BY <1>4, <5>1, <5>2, <5>3
      <4> QED
        BY <1>4, <4>1, Types DEF ResetInv
    <3>2. \A i \in 1..closed : ~Live(i)'
      <4>1. closed \in Nat /\ closed <= Len(code) /\ \A i \in 1..closed : ~Live(i)
        BY ResetAssumption DEF ResetInv, Basics, TypeOK, Pointers, ClosedCodesStayDead
      <4> QED
        BY <1>4, <4>1, Types DEF ResetInv
    <3> QED
      BY <1>2, <1>4, <3>1, <3>2 DEF ClosedCodesStayDead
  <2> QED
    BY <2>1, <2>2, <2>3 DEF Basics
<1>6. ASSUME NEW i \in Index \ disturbed, i <= Len(code) PROVE CodeInv(i)'
  <2>1. i \in 1..Len(code) /\ CodeInv(i)
    BY <1>6, ResetAssumption DEF Index, ResetInv, Codes
  <2>2. \A s \in Requests : (Holds(s, i)' <=> Holds(s, i)) /\ (HolderInv(s, i)' <=> HolderInv(s, i))
    BY <1>2, <1>4, <2>1 DEF Holds, HolderInv
  <2>3. SetsOnce(i)'
    BY <1>2, <1>4, <2>1, <2>2 DEF SetsOnce, CodeInv
  <2> QED
    BY <1>2, <1>4, <2>1, <2>2, <2>3 DEF CodeInv
<1>7. Codes'
  BY <1>2, <1>4, <1>6 DEF ResetInv, Codes, Untouched
<1> QED
  BY <1>5, <1>7 DEF ResetInv

-----------------------------------------------------------------------------
LEMMA ResetInitInv == Init => ResetInv
<1> SUFFICES ASSUME Init PROVE ResetInv
  OBVIOUS
<1>1. /\ code = <<>> /\ Len(code) = 0 /\ closed = 0 /\ disturbed = {}
      /\ \A r \in Requests : req[r] = Idle
      /\ \A i \in Index : Untouched(i)
  BY DEF Init, Untouched
<1>2. TypeOK
  BY <1>1, IdleType, ResetAssumption DEF Init, TypeOK
<1>3. Creating = {}
  BY <1>1, IdleType DEF Creating
<1>4. Cardinality(Creating) = 0
  BY <1>3, FS_EmptySet
<1>5. Pointers
  BY <1>1, <1>3, <1>4, IdleType, ResetAssumption DEF Pointers
<1>6. ClosedCodesStayDead
  BY <1>1 DEF ClosedCodesStayDead
<1>7. Codes
  BY <1>1, ResetAssumption DEF Codes, Index
<1> QED
  BY <1>2, <1>5, <1>6, <1>7 DEF ResetInv, Basics

LEMMA ResetNextInv == ResetInv /\ [Next]_vars => ResetInv'
<1> SUFFICES ASSUME ResetInv, [Next]_vars PROVE ResetInv'
  OBVIOUS
<1>1. CASE UNCHANGED vars
  <2>1. UNCHANGED <<code, req, wrong, used, disturbed, closed>>
    BY <1>1 DEF vars
  <2>2. TypeOK' /\ Pointers' /\ ClosedCodesStayDead'
    BY <2>1 DEF ResetInv, Basics, TypeOK, Pointers, ClosedCodesStayDead, Creating, Live
  <2>3. \A i : (CodeInv(i)' <=> CodeInv(i)) /\ (Untouched(i)' <=> Untouched(i))
    BY <2>1 DEF CodeInv, Holds, HolderInv, SetsOnce, Untouched
  <2> QED
    BY <2>1, <2>2, <2>3 DEF ResetInv, Basics, Codes
<1>2. CASE Next
  <2>1. CASE \E i \in Index : Expire(i)
    BY <2>1, ExpireInv
  <2>2. CASE \E r \in Requests : \/ IssueExpire(r) \/ IssueCreate(r)
                                 \/ \E typed \in 0..MaxCodes : ResetRead(r, typed)
                                 \/ CountAttempt(r)
                                 \/ SetPassword(r) \/ MarkUsed(r) \/ ExpireOthers(r)
                                 \/ Crash(r)
    BY <2>2, IssueExpireInv, IssueCreateInv, ResetReadInv, CountAttemptInv, SetPasswordInv,
       MarkUsedInv, ExpireOthersInv, CrashInv
  <2> QED
    BY <1>2, <2>1, <2>2 DEF Next
<1> QED
  BY <1>1, <1>2

(* PasswordReset keeps its types. *)
THEOREM ResetTypeCorrect == Spec => []TypeOK
BY ResetInitInv, ResetNextInv, PTL DEF Spec, ResetInv, Basics

(* ClosedCodesStayDead: a code is dead once a later request for one, or a  *)
(* reset, has closed it, however many requests overlap or crash.           *)
THEOREM ClosedIsClosed == Spec => []ClosedCodesStayDead
BY ResetInitInv, ResetNextInv, PTL DEF Spec, ResetInv, Basics

(* UndisturbedCodeIsSingleUse: a code that one request at a time has       *)
(* worked on, to its end, sets one password and takes                      *)
(* MAX_VERIFY_ATTEMPTS wrong entries at most, because its row then says    *)
(* what has happened to it.                                                *)
THEOREM SingleUse == Spec => []UndisturbedCodeIsSingleUse
<1>1. ResetInv => UndisturbedCodeIsSingleUse
  <2> SUFFICES ASSUME ResetInv, NEW i \in Index \ disturbed
               PROVE  used[i] <= 1 /\ wrong[i] <= MAX_VERIFY_ATTEMPTS
    BY DEF UndisturbedCodeIsSingleUse
  <2>1. CASE i <= Len(code)
    <3>1. i \in 1..Len(code) /\ CodeInv(i)
      BY <2>1, ResetAssumption DEF Index, ResetInv, Codes
    <3>2. code[i].attempts <= MAX_VERIFY_ATTEMPTS
      BY <3>1, Types, ResetAssumption DEF Code, ResetInv
    <3> QED
      BY <3>1, <3>2 DEF CodeInv, SetsOnce
  <2>2. CASE ~(i <= Len(code))
    BY <2>2, ResetAssumption DEF ResetInv, Codes, Untouched
  <2> QED
    BY <2>1, <2>2
<1> QED
  BY <1>1, ResetInitInv, ResetNextInv, PTL DEF Spec

-----------------------------------------------------------------------------
(***************************************************************************)
(* Sessions.  A token may still be used if it is valid, or if a rotation   *)
(* of it is under way that found it valid.                                 *)
(***************************************************************************)
Rotates(r, t) == call[r].pc = "rotate" /\ call[r].token = t

InUse(t) == token[t] = "valid" \/ \E r \in Requests : Rotates(r, t)

(* What a token was rotated from is blacklisted. *)
Ancestry ==
    \A t \in Tokens :
        /\ token[t] = "unused" => lineage[t] = {}
        /\ token[t] # "unused" => t \in lineage[t]
        /\ \A s \in lineage[t] : /\ token[s] # "unused"
                                 /\ s # t => token[s] = "blacklisted"

Related(s, t) == s # t /\ lineage[s] \cap lineage[t] # {}
                     => lineage[s] \cap lineage[t] \cap forked # {}

TokenInv ==
    /\ Session!TypeOK
    /\ Ancestry
    /\ \A r \in Requests : call[r].pc \in {"rotate", "logout"} =>
           call[r].token \in Tokens /\ token[call[r].token] # "unused"
    /\ \A t \in loggedOut : token[t] = "blacklisted"
    /\ \A t \in Tokens : InUse(t) => lineage[t] \cap loggedOut = {}
    /\ \A s, t \in Tokens : InUse(s) /\ InUse(t) => Related(s, t)
    /\ \A q, r \in Requests :
           q # r /\ call[q].pc = "rotate" /\ call[r].pc = "rotate" /\ call[q].token = call[r].token
           => call[q].token \in forked

(* What is under way writes back what is there. *)
RowInv ==
    /\ barred => /\ account \in {"SUSPENDED", "deleted"}
                 /\ \A r \in Session!RowWrites : call[r].status = "SUSPENDED"
    /\ secured => /\ password = newest
                  /\ \A r \in Requests : call[r].pc = "user" => call[r].password = newest

SessionInv == TokenInv /\ RowInv

-----------------------------------------------------------------------------
LEMMA IdleCall == Session!Idle \in Session!Request /\ Session!Idle.pc = "idle"
BY AccountsAssumption DEF Session!Idle, Session!Request, Session!AccountStatus

LEMMA BegunCall ==
    ASSUME NEW pc \in {"register", "mint", "suspend"},
           NEW x, x = [Session!Idle EXCEPT !.pc = pc]
    PROVE  x \in Session!Request /\ x.pc = pc
BY IdleCall DEF Session!Request

LEMMA TokenCall ==
    ASSUME NEW t \in Tokens, NEW x
    PROVE  /\ x = [Session!Idle EXCEPT !.pc = "rotate", !.token = t]
                 => x \in Session!Request /\ x.pc = "rotate" /\ x.token = t
           /\ x = [Session!Idle EXCEPT !.pc = "logout", !.token = t]
                 => x \in Session!Request /\ x.pc = "logout" /\ x.token = t
BY IdleCall DEF Session!Request

LEMMA CallMoves ==
    ASSUME Session!TypeOK, NEW r \in Requests, NEW x \in Session!Request,
           call' = [call EXCEPT ![r] = x]
    PROVE  /\ call' \in [Requests -> Session!Request] /\ call'[r] = x
           /\ \A s \in Requests \ {r} : call'[s] = call[s]
BY DEF Session!TypeOK

(* The steps that touch no token. *)
LEMMA TokensStay ==
    ASSUME TokenInv, Session!TypeOK', UNCHANGED <<token, lineage, loggedOut, forked>>,
           \A r \in Requests : call'[r].pc \in {"rotate", "logout"} =>
               \/ call'[r] = call[r]
               \/ /\ call'[r].pc = "logout" /\ call'[r].token \in Tokens
                  /\ token[call'[r].token] # "unused"
    PROVE  TokenInv'
<1>1. \A r \in Requests : \A t : Rotates(r, t)' => Rotates(r, t) /\ call'[r] = call[r]
  BY DEF Rotates
<1>2. \A t : InUse(t)' => InUse(t)
  BY <1>1 DEF InUse
<1>3. Ancestry'
  BY DEF TokenInv, Ancestry
<1>4. \A s, t \in Tokens : InUse(s)' /\ InUse(t)' => Related(s, t)'
  BY <1>2 DEF TokenInv, Related
<1>5. \A t \in Tokens : InUse(t)' => (lineage[t] \cap loggedOut = {})'
  BY <1>2 DEF TokenInv
<1>6. \A r \in Requests : call'[r].pc \in {"rotate", "logout"} =>
           call'[r].token \in Tokens /\ token'[call'[r].token] # "unused"
  BY DEF TokenInv
<1>7. \A q, r \in Requests :
           q # r /\ call'[q].pc = "rotate" /\ call'[r].pc = "rotate" /\ call'[q].token = call'[r].token
           => call'[q].token \in forked'
  BY <1>1 DEF TokenInv
<1> QED
  BY <1>3, <1>4, <1>5, <1>6, <1>7 DEF TokenInv

LEMMA RefreshCheckTokens ==
    ASSUME TokenInv, NEW r \in Requests, NEW t \in Tokens, Session!RefreshCheck(r, t)
    PROVE  TokenInv'
<1>1. PICK x : x = [Session!Idle EXCEPT !.pc = "rotate", !.token = t]
  OBVIOUS
<1>2. /\ call' = [call EXCEPT ![r] = x]
      /\ forked' = IF Session!Rotating(t) # {} THEN forked \cup {t} ELSE forked
      /\ UNCHANGED <<account, password, token, lineage, loggedOut, answered, outlived, newest, barred,
                     secured>>
      /\ call[r].pc = "idle" /\ token[t] = "valid"
  BY <1>1 DEF Session!RefreshCheck
<1>3. x \in Session!Request /\ x.pc = "rotate" /\ x.token = t
  BY <1>1, TokenCall
<1>4. /\ call' \in [Requests -> Session!Request] /\ call'[r] = x
      /\ \A s \in Requests \ {r} : call'[s] = call[s]
  BY <1>2, <1>3, CallMoves DEF TokenInv
<1>5. Session!TypeOK'
  BY <1>2, <1>4 DEF TokenInv, Session!TypeOK
<1>6. \A s \in Requests : \A u : Rotates(s, u)' <=> IF s = r THEN u = t ELSE Rotates(s, u)
  BY <1>3, <1>4 DEF Rotates
<1>7. \A u : InUse(u)' <=> InUse(u)
  BY <1>2, <1>6 DEF InUse, Rotates
<1>8. Ancestry'
  BY <1>2 DEF TokenInv, Ancestry
<1>9. \A s, u \in Tokens : InUse(s)' /\ InUse(u)' => Related(s, u)'
  BY <1>2, <1>7 DEF TokenInv, Related
<1>10. ASSUME NEW q \in Requests, NEW s \in Requests, q # s, call'[q].pc = "rotate",
              call'[s].pc = "rotate", call'[q].token = call'[s].token
       PROVE  call'[q].token \in forked'
  <2>1. CASE q = r
    <3>1. Rotates(s, t)
      BY <1>3, <1>4, <1>10, <2>1 DEF Rotates
    <3> QED
      BY <1>2, <1>3, <1>4, <2>1, <3>1 DEF Rotates, Session!Rotating
  <2>2. CASE s = r
    <3>1. Rotates(q, t) /\ call'[q].token = t
      BY <1>4, <1>6, <1>10, <2>2 DEF Rotates
    <3> QED
      BY <1>2, <3>1 DEF Rotates, Session!Rotating
  <2>3. CASE q # r /\ s # r
    BY <1>2, <1>4, <1>6, <1>10, <2>3 DEF TokenInv
  <2> QED
    BY <2>1, <2>2, <2>3
<1>11. \A s \in Requests : call'[s].pc \in {"rotate", "logout"} =>
           call'[s].token \in Tokens /\ token'[call'[s].token] # "unused"
  BY <1>2, <1>3, <1>4 DEF TokenInv
<1> QED
  BY <1>2, <1>5, <1>7, <1>8, <1>9, <1>10, <1>11 DEF TokenInv

(* A new token, minted or rotated from u. *)
LEMMA MintTokens ==
    ASSUME TokenInv, NEW r \in Requests, NEW t \in Tokens, Session!Exists,
           call[r].pc = "mint", token[t] = "unused",
           call' = [call EXCEPT ![r] = Session!Idle],
           token' = [token EXCEPT ![t] = "valid"],
           lineage' = [lineage EXCEPT ![t] = {t}],
           UNCHANGED <<account, password, forked, loggedOut, answered, outlived, newest, barred, secured>>
    PROVE  TokenInv'
<1>1. /\ call' \in [Requests -> Session!Request] /\ call'[r] = Session!Idle
      /\ \A s \in Requests \ {r} : call'[s] = call[s]
  BY CallMoves, IdleCall DEF TokenInv
<1>2. /\ token' \in [Tokens -> {"unused", "valid", "blacklisted"}]
      /\ lineage' \in [Tokens -> SUBSET Tokens]
      /\ token'[t] = "valid" /\ lineage'[t] = {t}
      /\ \A u \in Tokens : u # t => token'[u] = token[u] /\ lineage'[u] = lineage[u]
  BY DEF TokenInv, Session!TypeOK
<1>3. Session!TypeOK'
  BY <1>1, <1>2 DEF TokenInv, Session!TypeOK
<1>4. \A u \in Tokens : u # t => t \notin lineage[u]
  BY DEF TokenInv, Ancestry
<1>5. t \notin loggedOut
  BY DEF TokenInv
<1>6. Ancestry'
  <2>1. \A u \in Tokens : lineage[u] \subseteq Tokens
    BY DEF TokenInv, Session!TypeOK
  <2> QED
    BY <1>2, <1>4, <2>1 DEF TokenInv, Ancestry
<1>7. \A s \in Requests : \A u : Rotates(s, u)' => Rotates(s, u) /\ s # r
  BY <1>1, IdleCall DEF Rotates
<1>8. \A u \in Tokens : InUse(u)' => u = t \/ InUse(u)
  BY <1>2, <1>7 DEF InUse
<1>9. \A u \in Tokens : InUse(u)' => (lineage[u] \cap loggedOut = {})'
  BY <1>2, <1>5, <1>8 DEF TokenInv
<1>10. \A s, u \in Tokens : InUse(s)' /\ InUse(u)' => Related(s, u)'
  BY <1>2, <1>4, <1>8 DEF TokenInv, Related
<1>11. \A s \in Requests : call'[s].pc \in {"rotate", "logout"} =>
           call'[s].token \in Tokens /\ token'[call'[s].token] # "unused"
  BY <1>1, <1>2, IdleCall DEF TokenInv
<1>12. \A q, s \in Requests :
           q # s /\ call'[q].pc = "rotate" /\ call'[s].pc = "rotate" /\ call'[q].token = call'[s].token
           => call'[q].token \in forked'
  BY <1>1, <1>7, IdleCall DEF TokenInv
<1>13. \A u \in loggedOut' : token'[u] = "blacklisted"
  <2>1. loggedOut \subseteq Tokens
    BY DEF TokenInv, Session!TypeOK
  <2> QED
    BY <1>2, <1>5, <2>1 DEF TokenInv
<1> QED
  BY <1>3, <1>6, <1>9, <1>10, <1>11, <1>12, <1>13 DEF TokenInv

LEMMA RotateTokens ==
    ASSUME TokenInv, NEW r \in Requests, NEW t \in Tokens, NEW u, u = call[r].token,
           call[r].pc = "rotate", token[t] = "unused",
           call' = [call EXCEPT ![r] = Session!Idle],
           token' = [token EXCEPT ![u] = "blacklisted", ![t] = "valid"],
           lineage' = [lineage EXCEPT ![t] = {t} \cup lineage[u]],
           UNCHANGED <<account, password, forked, loggedOut, answered, outlived, newest, barred, secured>>
    PROVE  TokenInv'
<1>1. /\ call' \in [Requests -> Session!Request] /\ call'[r] = Session!Idle
      /\ \A s \in Requests \ {r} : call'[s] = call[s]
  BY CallMoves, IdleCall DEF TokenInv
<1>2. u \in Tokens /\ token[u] # "unused" /\ u # t /\ InUse(u) /\ Rotates(r, u)
  BY DEF TokenInv, InUse, Rotates
<1>3. /\ token' \in [Tokens -> {"unused", "valid", "blacklisted"}]
      /\ lineage' \in [Tokens -> SUBSET Tokens]
      /\ token'[t] = "valid" /\ token'[u] = "blacklisted"
      /\ lineage'[t] = {t} \cup lineage[u]
      /\ \A s \in Tokens : s # t => lineage'[s] = lineage[s]
      /\ \A s \in Tokens : s # t /\ s # u => token'[s] = token[s]
  BY <1>2 DEF TokenInv, Session!TypeOK
<1>4. Session!TypeOK'
  BY <1>1, <1>3 DEF TokenInv, Session!TypeOK
<1>5. \A s \in Tokens : s # t => t \notin lineage[s]
  BY DEF TokenInv, Ancestry
<1>6. t \notin loggedOut
  BY DEF TokenInv
<1>7. Ancestry'
  <2>1. \A s \in Tokens : lineage[s] \subseteq Tokens
    BY DEF TokenInv, Session!TypeOK
  <2>2. ASSUME NEW s \in Tokens, s # t
        PROVE  /\ token'[s] = "unused" => lineage'[s] = {}
               /\ token'[s] # "unused" => s \in lineage'[s]
               /\ \A v \in lineage'[s] : /\ token'[v] # "unused"
                                         /\ v # s => token'[v] = "blacklisted"
    BY <1>2, <1>3, <1>5, <2>1, <2>2 DEF TokenInv, Ancestry
  <2>3. \A v \in lineage'[t] : /\ token'[v] # "unused"
                               /\ v # t => token'[v] = "blacklisted"
    BY <1>2, <1>3, <2>1 DEF TokenInv, Ancestry
  <2> QED
    BY <1>3, <2>2, <2>3 DEF Ancestry
<1>8. \A s \in Requests : \A v : Rotates(s, v)' => Rotates(s, v) /\ s # r
  BY <1>1, IdleCall DEF Rotates
<1>9. \A s \in Tokens : InUse(s)' => s = t \/ InUse(s)
  BY <1>3, <1>8 DEF InUse
<1>10. ASSUME NEW s \in Tokens, InUse(s)' PROVE lineage'[s] \cap loggedOut' = {}
  BY <1>2, <1>3, <1>6, <1>9, <1>10 DEF TokenInv
<1>11. ASSUME NEW s \in Tokens, s # t, InUse(s)'
       PROVE  /\ lineage[s] \cap lineage[u] # {} => lineage[s] \cap lineage[u] \cap forked # {}
              /\ lineage'[s] = lineage[s] /\ t \notin lineage[s]
  <2>1. CASE s = u
    <3>1. PICK q \in Requests : Rotates(q, u) /\ q # r
      BY <1>3, <1>8, <1>11, <2>1 DEF InUse
    <3>2. u \in forked /\ u \in lineage[u]
      BY <1>2, <3>1 DEF TokenInv, Ancestry, Rotates
    <3> QED
      BY <1>3, <1>5, <1>11, <2>1, <3>2
  <2>2. CASE s # u
    BY <1>2, <1>3, <1>5, <1>9, <1>11, <2>2 DEF TokenInv, Related
  <2> QED
    BY <2>1, <2>2
<1>12. ASSUME NEW s \in Tokens, NEW v \in Tokens, InUse(s)', InUse(v)', s # v,
              lineage'[s] \cap lineage'[v] # {}
       PROVE  lineage'[s] \cap lineage'[v] \cap forked' # {}
  <2>1. CASE s = t
    BY <1>3, <1>11, <1>12, <2>1
  <2>2. CASE v = t
    BY <1>3, <1>11, <1>12, <2>2
  <2>3. CASE s # t /\ v # t
    BY <1>3, <1>9, <1>12, <2>3 DEF TokenInv, Related
  <2> QED
    BY <2>1, <2>2, <2>3
<1>13. \A s \in Requests : call'[s].pc \in {"rotate", "logout"} =>
           call'[s].token \in Tokens /\ token'[call'[s].token] # "unused"
  BY <1>1, <1>3, IdleCall DEF TokenInv
<1>14. \A q, s \in Requests :
           q # s /\ call'[q].pc = "rotate" /\ call'[s].pc = "rotate" /\ call'[q].token = call'[s].token
           => call'[q].token \in forked'
  BY <1>1, <1>8, IdleCall DEF TokenInv
<1>15. \A s \in loggedOut' : token'[s] = "blacklisted"
  <2>1. loggedOut \subseteq Tokens
    BY DEF TokenInv, Session!TypeOK
  <2> QED
    BY <1>3, <1>6, <2>1 DEF TokenInv
<1>16. \A s, v \in Tokens : InUse(s)' /\ InUse(v)' => Related(s, v)'
  BY <1>12 DEF Related
<1> QED
  BY <1>4, <1>7, <1>10, <1>13, <1>14, <1>15, <1>16 DEF TokenInv

LEMMA LogoutCheckTokens ==
    ASSUME TokenInv, NEW r \in Requests, NEW t \in Tokens, Session!LogoutCheck(r, t)
    PROVE  /\ TokenInv'
           /\ \A s \in Requests : call'[s] = call[s] \/ call'[s].pc \notin {"profile", "user"}
<1>1. PICK x : x = [Session!Idle EXCEPT !.pc = "logout", !.token = t]
  OBVIOUS
<1>2. /\ call' = [call EXCEPT ![r] = x]
      /\ UNCHANGED <<account, password, token, lineage, forked, loggedOut, answered, outlived,
                     newest, barred, secured>>
      /\ token[t] = "valid"
  BY <1>1 DEF Session!LogoutCheck, Session!histories
<1>3. x \in Session!Request /\ x.pc = "logout" /\ x.token = t
  BY <1>1, TokenCall
<1>4. /\ call' \in [Requests -> Session!Request] /\ call'[r] = x
      /\ \A s \in Requests \ {r} : call'[s] = call[s]
  BY <1>2, <1>3, CallMoves DEF TokenInv
<1>5. Session!TypeOK'
  BY <1>2, <1>4 DEF TokenInv, Session!TypeOK
<1>6. TokenInv'
  BY <1>2, <1>3, <1>4, <1>5, TokensStay
<1> QED
  BY <1>3, <1>4, <1>6

(* The logout writes the blacklist's row, which may be there by then.      *)
LEMMA LogoutTokens ==
    ASSUME TokenInv, NEW r \in Requests, Session!LogoutBlacklist(r)
    PROVE  /\ TokenInv'
           /\ \A s \in Requests : call'[s] = call[s] \/ call'[s].pc \notin {"profile", "user"}
<1>1. PICK t : t = call[r].token
  OBVIOUS
<1>2. /\ call[r].pc = "logout"
      /\ token' = [token EXCEPT ![t] = "blacklisted"]
      /\ loggedOut' = IF token[t] = "valid" /\ Session!Rotating(t) = {}
                       THEN loggedOut \cup {t} ELSE loggedOut
      /\ answered' = answered \cup {t}
      /\ call' = [call EXCEPT ![r] = Session!Idle]
      /\ UNCHANGED <<account, password, lineage, forked, outlived, newest, barred, secured>>
  BY <1>1 DEF Session!LogoutBlacklist, Session!End
<1>3. /\ call' \in [Requests -> Session!Request] /\ call'[r] = Session!Idle
      /\ \A s \in Requests \ {r} : call'[s] = call[s]
  BY <1>2, IdleCall, CallMoves DEF TokenInv
<1>4. t \in Tokens /\ token[t] # "unused"
  BY <1>1, <1>2 DEF TokenInv
<1>5. /\ token' \in [Tokens -> {"unused", "valid", "blacklisted"}] /\ token'[t] = "blacklisted"
      /\ \A s \in Tokens : s # t => token'[s] = token[s]
      /\ loggedOut' \subseteq Tokens /\ answered' \subseteq Tokens
  BY <1>2, <1>4 DEF TokenInv, Session!TypeOK
<1>6. Session!TypeOK'
  BY <1>2, <1>3, <1>5 DEF TokenInv, Session!TypeOK
<1>7. Ancestry'
  <2>1. \A s \in Tokens : lineage[s] \subseteq Tokens
    BY DEF TokenInv, Session!TypeOK
  <2> QED
    BY <1>2, <1>4, <1>5, <2>1 DEF TokenInv, Ancestry
<1>8. \A s \in Requests : \A v : Rotates(s, v)' <=> Rotates(s, v)
  BY <1>2, <1>3, IdleCall DEF Rotates
<1>9. \A s \in Tokens : InUse(s)' => InUse(s)
  BY <1>5, <1>8 DEF InUse
<1>10. ASSUME NEW s \in Tokens, InUse(s)' PROVE lineage[s] \cap loggedOut' = {}
  <2>1. lineage[s] \cap loggedOut = {}
    BY <1>9, <1>10 DEF TokenInv
  <2>2. CASE s # t
    \* A valid t is nobody's ancestor.
    BY <1>2, <1>4, <2>1, <2>2 DEF TokenInv, Ancestry
  <2>3. CASE s = t
    <3>1. Session!Rotating(t) # {}
      BY <1>5, <1>8, <1>10, <2>3 DEF InUse, Rotates, Session!Rotating
    <3> QED
      BY <1>2, <2>1, <3>1
  <2> QED
    BY <2>2, <2>3
<1>11. \A s, v \in Tokens : InUse(s)' /\ InUse(v)' => Related(s, v)'
  BY <1>2, <1>9 DEF TokenInv, Related
<1>12. \A s \in Requests : call'[s].pc \in {"rotate", "logout"} =>
           call'[s].token \in Tokens /\ token'[call'[s].token] # "unused"
  BY <1>3, <1>5, IdleCall DEF TokenInv
<1>13. \A s \in loggedOut' : token'[s] = "blacklisted"
  BY <1>2, <1>5 DEF TokenInv, Session!TypeOK
<1>14. \A q, s \in Requests :
           q # s /\ call'[q].pc = "rotate" /\ call'[s].pc = "rotate" /\ call'[q].token = call'[s].token
           => call'[q].token \in forked'
  BY <1>2, <1>3, IdleCall DEF TokenInv
<1>15. TokenInv'
  BY <1>2, <1>6, <1>7, <1>10, <1>11, <1>12, <1>13, <1>14 DEF TokenInv
<1> QED
  BY <1>3, <1>15, IdleCall

-----------------------------------------------------------------------------
(* The steps that change no column of the row, but may read it. *)
LEMMA RowStays ==
    ASSUME SessionInv, UNCHANGED <<account, password, newest, barred, secured>>,
           \A r \in Requests :
               \/ call'[r] = call[r]
               \/ call'[r].pc \notin {"profile", "user"}
               \/ Session!Exists /\ call'[r].status = account /\ call'[r].password = password
    PROVE  RowInv'
BY DEF SessionInv, RowInv, Session!RowWrites, Session!Exists, Session!AccountStatus

LEMMA TypesStay ==
    ASSUME TokenInv, call' \in [Requests -> Session!Request],
           UNCHANGED <<token, lineage, forked, loggedOut, answered, outlived>>,
           account' \in Session!AccountStatus \cup {"none", "deleted"},
           password' \in 0..MaxPassword, newest' \in 0..MaxPassword,
           barred' \in BOOLEAN, secured' \in BOOLEAN
    PROVE  Session!TypeOK'
BY DEF TokenInv, Session!TypeOK

(* A request that goes on or ends, the tokens being left alone. *)
LEMMA CallGoesOn ==
    ASSUME SessionInv, NEW r \in Requests, NEW x \in Session!Request,
           x.pc \notin {"rotate", "logout"}, call' = [call EXCEPT ![r] = x],
           UNCHANGED <<token, lineage, forked, loggedOut, answered, outlived>>,
           account' \in Session!AccountStatus \cup {"none", "deleted"},
           password' \in 0..MaxPassword, newest' \in 0..MaxPassword,
           barred' \in BOOLEAN, secured' \in BOOLEAN
    PROVE  /\ TokenInv'
           /\ call'[r] = x /\ \A s \in Requests \ {r} : call'[s] = call[s]
<1>1. /\ call' \in [Requests -> Session!Request] /\ call'[r] = x
      /\ \A s \in Requests \ {r} : call'[s] = call[s]
  BY CallMoves DEF SessionInv, TokenInv
<1>2. Session!TypeOK'
  BY <1>1, TypesStay DEF SessionInv
<1>3. TokenInv'
  BY <1>1, <1>2, TokensStay DEF SessionInv
<1> QED
  BY <1>1, <1>3

LEMMA Row ==
    ASSUME SessionInv
    PROVE  /\ account \in Session!AccountStatus \cup {"none", "deleted"}
           /\ password \in 0..MaxPassword /\ newest \in 0..MaxPassword
           /\ barred \in BOOLEAN /\ secured \in BOOLEAN
           /\ \A r \in Requests : call[r] \in Session!Request
BY DEF SessionInv, TokenInv, Session!TypeOK

LEMMA BeginInv ==
    ASSUME SessionInv, NEW r \in Requests,
           Session!RegisterCheck(r) \/ Session!LoginCheck(r) \/ Session!DeleteLog(r)
    PROVE  SessionInv'
<1>1. PICK pc \in {"register", "mint", "suspend"} :
          /\ Session!Begin(r, pc)
          /\ UNCHANGED <<account, password, token, lineage, forked, loggedOut, answered, outlived, newest,
                         barred, secured>>
  BY DEF Session!RegisterCheck, Session!LoginCheck, Session!DeleteLog, Session!histories
<1>2. PICK x : x = [Session!Idle EXCEPT !.pc = pc]
  OBVIOUS
<1>3. x \in Session!Request /\ x.pc = pc /\ call' = [call EXCEPT ![r] = x]
  BY <1>1, <1>2, BegunCall DEF Session!Begin
<1>4. TokenInv' /\ call'[r] = x /\ \A s \in Requests \ {r} : call'[s] = call[s]
  BY <1>1, <1>3, Row, CallGoesOn
<1>5. RowInv'
  BY <1>1, <1>3, <1>4, RowStays
<1> QED
  BY <1>4, <1>5 DEF SessionInv

LEMMA ReadInv ==
    ASSUME SessionInv, NEW r \in Requests, Session!ProfileRead(r) \/ Session!AdminRead(r)
    PROVE  SessionInv'
<1>1. PICK pc \in {"profile", "user"} :
          /\ Session!Exists
          /\ call' = [call EXCEPT ![r] = [Session!Idle EXCEPT !.pc = pc, !.status = account,
                                                              !.password = password]]
          /\ UNCHANGED <<account, password, token, lineage, forked, loggedOut, answered, outlived, newest,
                         barred, secured>>
  BY DEF Session!ProfileRead, Session!AdminRead, Session!histories
<1>2. PICK x : x = [Session!Idle EXCEPT !.pc = pc, !.status = account, !.password = password]
  OBVIOUS
<1>3. /\ x \in Session!Request /\ x.pc = pc /\ x.status = account /\ x.password = password
  BY <1>1, <1>2, IdleCall, Row DEF Session!Request, Session!Exists
<1>4. TokenInv' /\ call'[r] = x /\ \A s \in Requests \ {r} : call'[s] = call[s]
  BY <1>1, <1>2, <1>3, Row, CallGoesOn
<1>5. RowInv'
  BY <1>1, <1>3, <1>4, RowStays
<1> QED
  BY <1>4, <1>5 DEF SessionInv

(* A request ends or dies, and neither tokens nor row have changed. *)
LEMMA EndInv ==
    ASSUME SessionInv, NEW r \in Requests, Session!End(r),
           UNCHANGED <<account, password, token, lineage, forked, loggedOut, answered, outlived, newest,
                       barred, secured>>
    PROVE  SessionInv'
<1>1. TokenInv' /\ call'[r] = Session!Idle /\ \A s \in Requests \ {r} : call'[s] = call[s]
  BY Row, IdleCall, CallGoesOn DEF Session!End
<1>2. RowInv'
  BY <1>1, IdleCall, RowStays
<1> QED
  BY <1>1, <1>2 DEF SessionInv

LEMMA RegisterInv ==
    ASSUME SessionInv, NEW r \in Requests, Session!RegisterCreate(r)
    PROVE  SessionInv'
<1>1. CASE account # "none" /\ UNCHANGED account /\ Session!End(r)
  BY <1>1, EndInv DEF Session!RegisterCreate, Session!histories
<1>2. CASE account = "none" /\ account' = "ACTIVE" /\ Session!Begin(r, "mint")
  <2>1. PICK x : x = [Session!Idle EXCEPT !.pc = "mint"]
    OBVIOUS
  <2>2. x \in Session!Request /\ x.pc = "mint" /\ call' = [call EXCEPT ![r] = x]
    BY <1>2, <2>1, BegunCall DEF Session!Begin
  <2>3. UNCHANGED <<password, token, lineage, forked, loggedOut, answered, outlived, newest, barred, secured>>
    BY DEF Session!RegisterCreate, Session!histories
  <2>4. account' \in Session!AccountStatus
    BY <1>2 DEF Session!AccountStatus
  <2>5. TokenInv' /\ call'[r] = x /\ \A s \in Requests \ {r} : call'[s] = call[s]
    BY <2>2, <2>3, <2>4, Row, CallGoesOn
  <2>6. RowInv'
    BY <1>2, <2>2, <2>3, <2>5 DEF SessionInv, RowInv, Session!RowWrites
  <2> QED
    BY <2>5, <2>6 DEF SessionInv
<1> QED
  BY <1>1, <1>2 DEF Session!RegisterCreate

LEMMA MintInv ==
    ASSUME SessionInv, NEW r \in Requests, Session!Mint(r) \/ Session!RefreshRotate(r)
    PROVE  SessionInv'
<1>1. /\ Session!End(r)
      /\ UNCHANGED <<account, password, forked, loggedOut, answered, outlived, newest, barred, secured>>
  BY DEF Session!Mint, Session!RefreshRotate
<1>2. CASE UNCHANGED <<token, lineage>>
  BY <1>1, <1>2, EndInv
<1>3. CASE ~UNCHANGED <<token, lineage>>
  <2>1. TokenInv'
    <3>1. CASE Session!Mint(r)
      BY <1>1, <1>3, <3>1, MintTokens DEF Session!Mint, Session!End, SessionInv
    <3>2. CASE Session!RefreshRotate(r)
      BY <1>1, <1>3, <3>2, RotateTokens DEF Session!RefreshRotate, Session!End, SessionInv
    <3> QED
      BY <3>1, <3>2
  <2>2. call'[r] = Session!Idle /\ \A s \in Requests \ {r} : call'[s] = call[s]
    BY <1>1, IdleCall, CallMoves DEF Session!End, SessionInv, TokenInv
  <2>3. RowInv'
    BY <1>1, <2>2, IdleCall, RowStays
  <2> QED
    BY <2>1, <2>3 DEF SessionInv
<1> QED
  BY <1>2, <1>3

LEMMA TokenCallInv ==
    ASSUME SessionInv, NEW r \in Requests,
           \/ \E t \in Tokens : Session!RefreshCheck(r, t) \/ Session!LogoutCheck(r, t)
           \/ Session!LogoutBlacklist(r)
    PROVE  SessionInv'
<1>1. TokenInv'
  BY RefreshCheckTokens, LogoutCheckTokens, LogoutTokens DEF SessionInv
<1>2. UNCHANGED <<account, password, newest, barred, secured>>
  BY DEF Session!RefreshCheck, Session!LogoutCheck, Session!LogoutBlacklist, Session!histories
<1>3. \A s \in Requests : call'[s] = call[s] \/ call'[s].pc \notin {"profile", "user"}
  <2>1. CASE Session!LogoutBlacklist(r)
    BY <2>1, LogoutTokens DEF SessionInv
  <2>2. ASSUME NEW t \in Tokens, Session!LogoutCheck(r, t)
        PROVE  \A s \in Requests : call'[s] = call[s] \/ call'[s].pc \notin {"profile", "user"}
    BY <2>2, LogoutCheckTokens DEF SessionInv
  <2>3. ASSUME NEW t \in Tokens, Session!RefreshCheck(r, t)
        PROVE  \A s \in Requests : call'[s] = call[s] \/ call'[s].pc \notin {"profile", "user"}
    <3>1. PICK x : x = [Session!Idle EXCEPT !.pc = "rotate", !.token = t]
      OBVIOUS
    <3>2. x \in Session!Request /\ x.pc = "rotate" /\ call' = [call EXCEPT ![r] = x]
      BY <2>3, <3>1, TokenCall DEF Session!RefreshCheck
    <3> QED
      BY <3>2, CallMoves DEF SessionInv, TokenInv
  <2> QED
    BY <2>1, <2>2, <2>3
<1>4. RowInv'
  BY <1>2, <1>3, RowStays
<1> QED
  BY <1>1, <1>4 DEF SessionInv

(* The steps that write to the row. *)
LEMMA ResetPasswordInv ==
    ASSUME SessionInv, NEW r \in Requests, Session!ResetPassword(r)
    PROVE  SessionInv'
<1>1. /\ password' = newest + 1 /\ newest' = newest + 1 /\ newest < MaxPassword
      /\ outlived' = outlived \cup Session!Valid
      /\ secured' = (Session!RowWrites = {})
      /\ UNCHANGED <<account, token, call, lineage, forked, loggedOut, answered, barred>>
  BY DEF Session!ResetPassword
<1>2. Session!TypeOK'
  BY <1>1, AccountsAssumption DEF SessionInv, TokenInv, Session!TypeOK, Session!Valid
<1>3. TokenInv'
  BY <1>1, <1>2, TokensStay DEF SessionInv
<1>4. RowInv'
  BY <1>1 DEF SessionInv, RowInv, Session!RowWrites
<1> QED
  BY <1>3, <1>4 DEF SessionInv

LEMMA StatusInv ==
    ASSUME SessionInv, NEW r \in Requests, Session!Suspend(r) \/ Session!Activate(r)
    PROVE  SessionInv'
<1>1. /\ UNCHANGED <<password, token, call, lineage, forked, loggedOut, answered, outlived, newest, secured>>
      /\ \/ account' = "SUSPENDED" /\ barred' = (Session!RowWrites = {})
         \/ account' = "ACTIVE" /\ barred' = FALSE
  BY DEF Session!Suspend, Session!Activate
<1>2. Session!TypeOK'
  BY <1>1 DEF SessionInv, TokenInv, Session!TypeOK, Session!AccountStatus
<1>3. TokenInv'
  BY <1>1, <1>2, TokensStay DEF SessionInv
<1>4. RowInv'
  BY <1>1 DEF SessionInv, RowInv, Session!RowWrites
<1> QED
  BY <1>3, <1>4 DEF SessionInv

LEMMA ProfileSaveInv ==
    ASSUME SessionInv, NEW r \in Requests, Session!ProfileSave(r)
    PROVE  SessionInv'
<1>1. /\ account' = IF Session!Exists THEN call[r].status ELSE account
      /\ call' = [call EXCEPT ![r] = Session!Idle] /\ call[r].pc = "profile"
      /\ UNCHANGED <<password, token, lineage, forked, loggedOut, answered, outlived, newest, barred, secured>>
  BY DEF Session!ProfileSave, Session!End, Session!histories
<1>2. account' \in Session!AccountStatus \cup {"none", "deleted"}
  BY <1>1, Row DEF Session!Request
<1>3. TokenInv' /\ call'[r] = Session!Idle /\ \A s \in Requests \ {r} : call'[s] = call[s]
  BY <1>1, <1>2, Row, IdleCall, CallGoesOn
<1>4. RowInv'
  BY <1>1, <1>3, IdleCall DEF SessionInv, RowInv, Session!RowWrites
<1> QED
  BY <1>3, <1>4 DEF SessionInv

LEMMA UserSaveInv ==
    ASSUME SessionInv, NEW r \in Requests, Session!UserSave(r)
    PROVE  SessionInv'
<1>1. PICK x : x = [call[r] EXCEPT !.pc = IF Session!Exists THEN "profile" ELSE "idle"]
  OBVIOUS
<1>2. /\ password' = IF Session!Exists THEN call[r].password ELSE password
      /\ call' = [call EXCEPT ![r] = x] /\ call[r].pc = "user"
      /\ UNCHANGED <<account, token, lineage, forked, loggedOut, answered, outlived, newest, barred, secured>>
  BY <1>1 DEF Session!UserSave, Session!histories
<1>3. x \in Session!Request /\ x.pc \in {"profile", "idle"} /\ x.status = call[r].status
  BY <1>1, Row DEF Session!Request
<1>4. password' \in 0..MaxPassword
  BY <1>2, Row DEF Session!Request
<1>5. TokenInv' /\ call'[r] = x /\ \A s \in Requests \ {r} : call'[s] = call[s]
  BY <1>2, <1>3, <1>4, Row, CallGoesOn
<1>6. RowInv'
  BY <1>2, <1>3, <1>5 DEF SessionInv, RowInv, Session!RowWrites
<1> QED
  BY <1>5, <1>6 DEF SessionInv

LEMMA DeleteInv ==
    ASSUME SessionInv, NEW r \in Requests, Session!DeleteSuspend(r) \/ Session!DeleteUser(r)
    PROVE  SessionInv'
<1>1. PICK x \in Session!Request : x.pc \in {"delete", "idle"} /\ call' = [call EXCEPT ![r] = x]
  <2>1. CASE Session!DeleteUser(r)
    BY <2>1, IdleCall DEF Session!DeleteUser, Session!End
  <2>2. CASE Session!DeleteSuspend(r)
    <3>1. PICK y : y = [call[r] EXCEPT !.pc = "delete"]
      OBVIOUS
    <3>2. y \in Session!Request /\ y.pc = "delete" /\ call' = [call EXCEPT ![r] = y]
      BY <2>2, <3>1, Row DEF Session!Request, Session!DeleteSuspend
    <3> QED
      BY <3>2
  <2> QED
    BY <2>1, <2>2
<1>2. /\ UNCHANGED <<password, token, lineage, forked, loggedOut, answered, outlived, newest, barred, secured>>
      /\ account' \in {"SUSPENDED", "deleted", account}
  BY DEF Session!DeleteSuspend, Session!DeleteUser, Session!histories
<1>3. account' \in Session!AccountStatus \cup {"none", "deleted"}
  BY <1>2, Row DEF Session!AccountStatus
<1>4. TokenInv' /\ call'[r] = x /\ \A s \in Requests \ {r} : call'[s] = call[s]
  BY <1>1, <1>2, <1>3, Row, CallGoesOn
<1>5. RowInv'
  BY <1>1, <1>2, <1>4 DEF SessionInv, RowInv, Session!RowWrites
<1> QED
  BY <1>4, <1>5 DEF SessionInv

-----------------------------------------------------------------------------
LEMMA SessionInitInv == Session!Init => SessionInv
<1> SUFFICES ASSUME Session!Init PROVE SessionInv
  OBVIOUS
<1>1. /\ account = "none" /\ password = 0 /\ newest = 0
      /\ token = [t \in Tokens |-> "unused"] /\ lineage = [t \in Tokens |-> {}]
      /\ call = [r \in Requests |-> Session!Idle]
      /\ forked = {} /\ loggedOut = {} /\ answered = {} /\ outlived = {} /\ barred = FALSE /\ secured = FALSE
  BY DEF Session!Init
<1>2. Session!TypeOK
  <2>1. call \in [Requests -> Session!Request] /\ lineage \in [Tokens -> SUBSET Tokens]
    BY <1>1, IdleCall
  <2>2. 0 \in 0..MaxPassword
    BY AccountsAssumption
  <2>3. token \in [Tokens -> {"unused", "valid", "blacklisted"}]
    BY <1>1
  <2> QED
    BY <1>1, <2>1, <2>2, <2>3 DEF Session!TypeOK
<1>3. TokenInv
  BY <1>1, <1>2, IdleCall DEF TokenInv, Ancestry, InUse, Rotates, Related
<1>4. RowInv
  BY <1>1 DEF RowInv
<1> QED
  BY <1>3, <1>4 DEF SessionInv

LEMMA SessionNextInv == SessionInv /\ [Session!Next]_(Session!vars) => SessionInv'
<1> SUFFICES ASSUME SessionInv, [Session!Next]_(Session!vars) PROVE SessionInv'
  OBVIOUS
<1>1. CASE UNCHANGED Session!vars
  <2>1. UNCHANGED <<account, password, token, call, lineage, forked, loggedOut, answered, outlived, newest,
                    barred, secured>>
    BY <1>1 DEF Session!vars, Session!histories
  <2>2. Session!TypeOK'
    BY <2>1 DEF SessionInv, TokenInv, Session!TypeOK
  <2> QED
    BY <2>1, <2>2, TokensStay, RowStays DEF SessionInv
<1>2. CASE Session!Next
  <2>1. PICK r \in Requests :
            \/ Session!RegisterCheck(r) \/ Session!RegisterCreate(r) \/ Session!LoginCheck(r)
            \/ Session!Mint(r)
            \/ \E t \in Tokens : Session!RefreshCheck(r, t) \/ Session!LogoutCheck(r, t)
            \/ Session!RefreshRotate(r) \/ Session!LogoutBlacklist(r) \/ Session!ResetPassword(r)
            \/ Session!ProfileRead(r) \/ Session!ProfileSave(r) \/ Session!AdminRead(r)
            \/ Session!UserSave(r) \/ Session!Suspend(r) \/ Session!Activate(r)
            \/ Session!DeleteLog(r) \/ Session!DeleteSuspend(r) \/ Session!DeleteUser(r)
            \/ Session!Crash(r)
    BY <1>2 DEF Session!Next
  <2>2. CASE Session!Crash(r)
    BY <2>2, EndInv DEF Session!Crash, Session!histories
  <2> QED
    BY <2>1, <2>2, BeginInv, ReadInv, RegisterInv, MintInv, TokenCallInv, ResetPasswordInv,
       StatusInv, ProfileSaveInv, UserSaveInv, DeleteInv
<1> QED
  BY <1>1, <1>2

(* LogoutEndsSession: after a logout that no rotation of its token crossed *)
(* - none was under way when it wrote, none had gone through since it      *)
(* looked the token up - nothing that was ever rotated from the token      *)
(* refreshes, for any number of tokens, rotations and logouts: the         *)
(* ancestors of a token that is in use are blacklisted by then, so such a  *)
(* logout is of none of them.                                              *)
THEOREM LogoutIsFinal == Session!Spec => []LogoutEndsSession
<1>1. SessionInv => LogoutEndsSession
  BY DEF SessionInv, TokenInv, InUse, LogoutEndsSession, Session!LogoutEndsSession, Session!Valid
<1> QED
  BY <1>1, SessionInitInv, SessionNextInv, PTL DEF Session!Spec

(* OneTokenPerLogin: of the tokens rotated from one another one is valid,  *)
(* unless two rotations of a token overlapped.                             *)
THEOREM LoginHasOneToken == Session!Spec => []OneTokenPerLogin
<1>1. SessionInv => OneTokenPerLogin
  BY DEF SessionInv, TokenInv, InUse, Related, OneTokenPerLogin, Session!OneTokenPerLogin,
         Session!Valid
<1> QED
  BY <1>1, SessionInitInv, SessionNextInv, PTL DEF Session!Spec

(* UndoneOnlyByStraddlingWrite: what was read once a suspension or a new   *)
(* password was there writes it back, so only an older read undoes it.     *)
THEOREM RowWritesKeep == Session!Spec => []UndoneOnlyByStraddlingWrite
<1>1. SessionInv => UndoneOnlyByStraddlingWrite
  BY DEF SessionInv, RowInv, UndoneOnlyByStraddlingWrite, Session!UndoneOnlyByStraddlingWrite
<1> QED
  BY <1>1, SessionInitInv, SessionNextInv, PTL DEF Session!Spec

-----------------------------------------------------------------------------
(***************************************************************************)
(* The two side by side, as the run checks them: where one moves, the      *)
(* other stutters.                                                         *)
(***************************************************************************)
THEOREM AccountsSideBySide ==
    MCSpec => [](/\ ClosedCodesStayDead /\ UndisturbedCodeIsSingleUse
                 /\ LogoutEndsSession /\ OneTokenPerLogin /\ UndoneOnlyByStraddlingWrite)
<1>1. MCInit => Init /\ Session!Init
  BY DEF MCInit
<1>2. [MCNext]_allVars => [Next]_vars
  BY DEF MCNext, allVars, vars
<1>3. [MCNext]_allVars => [Session!Next]_(Session!vars)
  BY DEF MCNext, allVars, sessionVars, Session!vars, Session!histories
<1> QED
  BY <1>1, <1>2, <1>3, ClosedIsClosed, SingleUse, LogoutIsFinal, LoginHasOneToken, RowWritesKeep,
     PTL DEF MCSpec, Spec, Session!Spec
=============================================================================
