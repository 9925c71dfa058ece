------------------------------ MODULE SmbProofs ------------------------------
(***************************************************************************)
(* What the proof system checks of what carries files to and from the NAS: *)
(* the memory of refused logins, the writes, the session and the lanes of  *)
(* the SMB transport.  MCSmb runs the parts side by side, one of them at a *)
(* time moving; each theorem says, for every value of the constants that   *)
(* the part's assumption allows, what the run smb checks for a few.        *)
(***************************************************************************)
EXTENDS MCSmb, SequenceTheorems, FiniteSetTheorems, TLAPS

-----------------------------------------------------------------------------
(* AuthGate. *)

GateTypes ==
    /\ mapped \subseteq Accounts
    /\ refusal \in [Accounts -> 0 .. Gate!NoRefusal]
    /\ last \in [Accounts -> Gate!Outcomes]
    /\ queue \in [Accounts -> Seq(Callers)]
    /\ \A a \in Accounts : \A k \in 1 .. Len(queue[a]) : AccountOf[queue[a][k]] = a
    /\ phase \in [Callers -> Gate!Phases]
    /\ fresh \subseteq Callers /\ accepts \subseteq Accounts
    /\ dials \in 0 .. MaxDials
    /\ struck \in [Accounts -> 0 .. Cooldown] /\ noted \in [Accounts -> 0 .. Cooldown]
    /\ crowded \subseteq Accounts /\ doubled \subseteq Accounts

\* Who dials for an answer nobody has is at the head of the queue; the slot remembers a
\* refusal for as long as the strike it was told of is recent; and no such dial is under
\* way within that time.
DialHoldsLock == \A c \in Callers : phase[c] = "dialing" => Gate!Holds(c)
RefusalKept == \A a \in Accounts : noted[a] < Cooldown => refusal[a] <= noted[a]
DialOutwaits == \A c \in Callers : phase[c] = "dialing" => noted[AccountOf[c]] = Cooldown

GateInv == GateTypes /\ DialHoldsLock /\ RefusalKept /\ DialOutwaits /\ crowded = {}

\* Taking a caller out of a queue leaves another at its head there.
LEMMA WithoutKeeps ==
    ASSUME NEW S, NEW q \in Seq(S), NEW c
    PROVE  /\ Gate!Without(q, c) \in Seq(S)
           /\ \A k \in 1 .. Len(Gate!Without(q, c)) :
                 \E n \in 1 .. Len(q) : Gate!Without(q, c)[k] = q[n]
           /\ q # <<>> /\ Head(q) # c =>
                 Gate!Without(q, c) # <<>> /\ Head(Gate!Without(q, c)) = Head(q)
<1>1. CASE ~ \E k \in DOMAIN q : q[k] = c
  BY <1>1 DEF Gate!Without
<1>2. CASE \E k \in DOMAIN q : q[k] = c
  <2>1. PICK k \in 1 .. Len(q) :
            q[k] = c /\ Gate!Without(q, c) = SubSeq(q, 1, k - 1) \o SubSeq(q, k + 1, Len(q))
    <3> DEFINE n == CHOOSE k \in DOMAIN q : q[k] = c
    <3>1. n \in DOMAIN q /\ q[n] = c
      BY <1>2
    <3>2. Gate!Without(q, c) = Gate!RemoveAt(q, n)
      BY <1>2 DEF Gate!Without
    <3> HIDE DEF n
    <3>3. Gate!Without(q, c) = SubSeq(q, 1, n - 1) \o SubSeq(q, n + 1, Len(q))
      BY <3>2 DEF Gate!RemoveAt
    <3>4. n \in 1 .. Len(q)
      BY <3>1
    <3> QED BY <3>1, <3>3, <3>4
  <2> DEFINE a == SubSeq(q, 1, k - 1)
             b == SubSeq(q, k + 1, Len(q))
  <2>2. /\ Len(q) \in Nat /\ k \in Nat /\ 1 <= k /\ k <= Len(q)
        /\ \A i \in 1 .. Len(q) : q[i] \in S
    OBVIOUS
  <2>3. a \in Seq(S) /\ Len(a) = k - 1 /\ \A i \in 1 .. k - 1 : a[i] = q[i]
    <3>1. \A i \in 1 .. k - 1 : q[i] \in S
      BY <2>2
    <3>2. a \in Seq(S) /\ Len(a) = (IF 1 <= k - 1 THEN k - 1 - 1 + 1 ELSE 0)
          /\ \A i \in 1 .. k - 1 - 1 + 1 : a[i] = q[1 + i - 1]
      BY <2>2, <3>1, SubSeqProperties
    <3> QED BY <2>2, <3>2
  <2>4. b \in Seq(S) /\ Len(b) = Len(q) - k /\ \A i \in 1 .. Len(q) - k : b[i] = q[k + i]
    <3>1. \A i \in k + 1 .. Len(q) : q[i] \in S
      BY <2>2
    <3>2. b \in Seq(S) /\ Len(b) = (IF k + 1 <= Len(q) THEN Len(q) - (k + 1) + 1 ELSE 0)
          /\ \A i \in 1 .. Len(q) - (k + 1) + 1 : b[i] = q[k + 1 + i - 1]
      BY <2>2, <3>1, SubSeqProperties
    <3> QED BY <2>2, <3>2
  <2> HIDE DEF a, b
  <2>5. /\ a \o b \in Seq(S) /\ Len(a \o b) = Len(q) - 1
        /\ \A i \in 1 .. Len(q) - 1 : (a \o b)[i] = IF i <= k - 1 THEN a[i] ELSE b[i - (k - 1)]
    BY <2>2, <2>3, <2>4, ConcatProperties
  <2>6. Gate!Without(q, c) = a \o b
    BY <2>1 DEF a, b
  <2>7. ASSUME NEW i \in 1 .. Len(a \o b) PROVE \E n \in 1 .. Len(q) : (a \o b)[i] = q[n]
    <3>1. CASE i <= k - 1
      BY <2>2, <2>3, <2>5, <3>1
    <3>2. CASE i > k - 1
      <4>1. i - (k - 1) \in 1 .. Len(q) - k /\ k + (i - (k - 1)) = i + 1 /\ i + 1 \in 1 .. Len(q)
        BY <2>2, <2>5, <3>2
      <4>2. (a \o b)[i] = q[i + 1]
        BY <2>4, <2>5, <3>2, <4>1
      <4> QED BY <4>1, <4>2
    <3> QED BY <2>2, <3>1, <3>2
  <2>8. ASSUME q # <<>>, Head(q) # c PROVE a \o b # <<>> /\ Head(a \o b) = Head(q)
    <3>1. k # 1 /\ Head(q) = q[1]
      BY <2>1, <2>8
    <3>2. Len(a \o b) # 0 /\ (a \o b)[1] = q[1]
      BY <2>2, <2>3, <2>5, <3>1
    <3> QED BY <2>5, <3>1, <3>2
  <2> QED BY <2>5, <2>6, <2>7, <2>8
<1> QED BY <1>1, <1>2

\* What the assumption says, constant by constant.
LEMMA GateConstants ==
    ASSUME Gate!GateAssumption
    PROVE  /\ Cooldown \in Nat /\ Cooldown > 0 /\ Gate!NoRefusal = Cooldown + 1 /\ MaxDials \in Nat
           /\ AccountOf \in [Callers -> Accounts]
  BY DEF Gate!GateAssumption, Gate!NoRefusal

\* It holds before anybody has asked.
LEMMA GateInit == ASSUME Gate!GateAssumption, Gate!Init PROVE GateInv
<1>1. GateTypes
  BY GateConstants DEF Gate!Init, GateTypes, Gate!Outcomes, Gate!Phases
<1> QED BY <1>1, GateConstants
        DEF Gate!Init, GateInv, DialHoldsLock, RefusalKept, DialOutwaits

\* What the invariant says is what the run checks.
LEMMA GateTyped == ASSUME Gate!GateAssumption, GateInv PROVE Gate!TypeOK /\ Gate!StrikesSpaced
<1>1. ASSUME NEW a \in Accounts
      PROVE  Gate!Range(queue[a]) \subseteq {c \in Callers : AccountOf[c] = a}
  <2>1. queue[a] \in Seq(Callers) /\ \A k \in 1 .. Len(queue[a]) : AccountOf[queue[a][k]] = a
    BY DEF GateInv, GateTypes
  <2> QED BY <2>1 DEF Gate!Range
<1>2. Gate!OneUnknownDial
  BY DEF GateInv, DialHoldsLock, Gate!OneUnknownDial, Gate!Holds
<1> QED BY <1>1, <1>2 DEF GateInv, GateTypes, Gate!TypeOK, Gate!StrikesSpaced

\* A caller returns, field by field; whoever else holds a lock still does.
LEMMA GateReturn ==
    ASSUME Gate!GateAssumption, GateTypes, NEW c \in Callers, NEW released \in BOOLEAN,
           NEW r \in 0 .. Gate!NoRefusal, NEW l \in Gate!Outcomes, Gate!Return(c, released, r, l)
    PROVE  /\ mapped' \subseteq Accounts /\ last' \in [Accounts -> Gate!Outcomes]
           /\ refusal' \in [Accounts -> 0 .. Gate!NoRefusal]
           /\ refusal' = [refusal EXCEPT ![AccountOf[c]] = r]
           /\ queue' \in [Accounts -> Seq(Callers)]
           /\ \A a \in Accounts : \A k \in 1 .. Len(queue'[a]) : AccountOf[queue'[a][k]] = a
           /\ phase' \in [Callers -> Gate!Phases] /\ phase'[c] = "idle"
           /\ \A d \in Callers : d # c => phase'[d] = phase[d]
           /\ \A d \in Callers : d # c /\ Gate!Holds(d) => Gate!Holds(d)'
<1> DEFINE a == AccountOf[c]
<1>1. /\ a \in Accounts /\ queue \in [Accounts -> Seq(Callers)]
      /\ \A d \in Callers : AccountOf[d] \in Accounts
  BY GateConstants DEF GateTypes
<1>2. /\ queue' = [queue EXCEPT ![a] = Gate!Without(queue[a], c)]
      /\ phase' = [phase EXCEPT ![c] = "idle"]
      /\ refusal' = [refusal EXCEPT ![a] = r]
  BY DEF Gate!Return
<1>3. mapped' \subseteq Accounts /\ last' \in [Accounts -> Gate!Outcomes]
  BY <1>1 DEF Gate!Return, GateTypes, Gate!Outcomes
<1>4. phase' \in [Callers -> Gate!Phases] /\ phase'[c] = "idle"
      /\ \A d \in Callers : d # c => phase'[d] = phase[d]
  BY <1>2 DEF GateTypes, Gate!Phases
<1>5. /\ Gate!Without(queue[a], c) \in Seq(Callers)
      /\ \A k \in 1 .. Len(Gate!Without(queue[a], c)) :
            \E n \in 1 .. Len(queue[a]) : Gate!Without(queue[a], c)[k] = queue[a][n]
      /\ queue[a] # <<>> /\ Head(queue[a]) # c =>
            /\ Gate!Without(queue[a], c) # <<>>
            /\ Head(Gate!Without(queue[a], c)) = Head(queue[a])
  BY <1>1, WithoutKeeps
<1>6. queue' \in [Accounts -> Seq(Callers)]
  BY <1>1, <1>2, <1>5
<1>7. /\ queue'[a] = Gate!Without(queue[a], c)
      /\ \A b \in Accounts : b # a => queue'[b] = queue[b]
  BY <1>1, <1>2
<1> HIDE DEF a
<1>8. ASSUME NEW b \in Accounts, NEW k \in 1 .. Len(queue'[b]) PROVE AccountOf[queue'[b][k]] = b
  <2>1. CASE b = a
    <3>1. \A n \in 1 .. Len(queue[a]) : AccountOf[queue[a][n]] = a
      BY <1>1 DEF GateTypes
    <3>2. k \in 1 .. Len(Gate!Without(queue[a], c)) /\ queue'[b] = Gate!Without(queue[a], c)
      BY <1>7, <1>8, <2>1
    <3>3. PICK n \in 1 .. Len(queue[a]) : Gate!Without(queue[a], c)[k] = queue[a][n]
      BY <1>5, <3>2
    <3> QED BY <2>1, <3>1, <3>2, <3>3
  <2>2. CASE b # a
    BY <1>7, <1>8, <2>2 DEF GateTypes
  <2> QED BY <2>1, <2>2
<1>9. ASSUME NEW d \in Callers, d # c, Gate!Holds(d) PROVE Gate!Holds(d)'
  BY <1>1, <1>5, <1>7, <1>9 DEF Gate!Holds
<1>10. refusal' \in [Accounts -> 0 .. Gate!NoRefusal]
  BY <1>2 DEF GateTypes
<1>11. refusal' = [refusal EXCEPT ![AccountOf[c]] = r]
  BY <1>2 DEF a
<1> QED BY <1>3, <1>4, <1>6, <1>8, <1>9, <1>10, <1>11

\* A return keeps the invariant where the refusal it leaves is no older than the strike the
\* slot was told of, and a strike is only noted where nobody else dials for the account.
LEMMA GateReturned ==
    ASSUME Gate!GateAssumption, GateInv, NEW c \in Callers, NEW released \in BOOLEAN,
           NEW r \in 0 .. Gate!NoRefusal, NEW l \in Gate!Outcomes, Gate!Return(c, released, r, l),
           NEW m \in 0 .. Cooldown, noted' = [noted EXCEPT ![AccountOf[c]] = m],
           m < Cooldown => r <= m,
           \/ m = noted[AccountOf[c]]
           \/ Gate!Holds(c),
           fresh' \subseteq Callers, UNCHANGED <<accepts, dials>>, crowded' = {},
           struck' \in [Accounts -> 0 .. Cooldown], doubled' \subseteq Accounts
    PROVE  GateInv'
<1>1. GateTypes
  BY DEF GateInv
<1>2. /\ mapped' \subseteq Accounts /\ last' \in [Accounts -> Gate!Outcomes]
      /\ refusal' \in [Accounts -> 0 .. Gate!NoRefusal]
      /\ refusal' = [refusal EXCEPT ![AccountOf[c]] = r]
      /\ queue' \in [Accounts -> Seq(Callers)]
      /\ \A a \in Accounts : \A k \in 1 .. Len(queue'[a]) : AccountOf[queue'[a][k]] = a
      /\ phase' \in [Callers -> Gate!Phases] /\ phase'[c] = "idle"
      /\ \A d \in Callers : d # c => phase'[d] = phase[d]
      /\ \A d \in Callers : d # c /\ Gate!Holds(d) => Gate!Holds(d)'
  BY <1>1, GateReturn
<1>3. /\ AccountOf[c] \in Accounts /\ \A d \in Callers : AccountOf[d] \in Accounts
      /\ Cooldown \in Nat /\ Gate!NoRefusal = Cooldown + 1
  BY GateConstants
<1>4. noted' \in [Accounts -> 0 .. Cooldown]
  BY <1>1 DEF GateTypes
<1>5. GateTypes'
  BY <1>1, <1>2, <1>4 DEF GateTypes, Gate!Outcomes, Gate!Phases, Gate!NoRefusal
<1>6. DialHoldsLock'
  BY <1>2 DEF GateInv, DialHoldsLock
<1>7. RefusalKept'
  BY <1>1, <1>2, <1>3 DEF GateInv, GateTypes, RefusalKept
<1>8. ASSUME NEW d \in Callers, phase'[d] = "dialing" PROVE noted'[AccountOf[d]] = Cooldown
  <2>1. d # c /\ phase[d] = "dialing" /\ noted[AccountOf[d]] = Cooldown /\ Gate!Holds(d)
    BY <1>2, <1>8 DEF GateInv, DialOutwaits, DialHoldsLock
  <2>2. AccountOf[d] = AccountOf[c] => m = noted[AccountOf[c]]
    BY <2>1 DEF Gate!Holds
  <2> QED BY <1>1, <1>3, <2>1, <2>2 DEF GateTypes
<1> QED BY <1>5, <1>6, <1>7, <1>8 DEF GateInv, DialOutwaits

\* The same, for a return that notes no strike.
LEMMA GateLeft ==
    ASSUME Gate!GateAssumption, GateInv, NEW c \in Callers, NEW released \in BOOLEAN,
           NEW r \in 0 .. Gate!NoRefusal, NEW l \in Gate!Outcomes, Gate!Return(c, released, r, l),
           noted[AccountOf[c]] < Cooldown => r <= noted[AccountOf[c]],
           fresh' \subseteq Callers, UNCHANGED <<accepts, dials, struck, noted, crowded, doubled>>
    PROVE  GateInv'
<1>1. /\ AccountOf[c] \in Accounts /\ noted \in [Accounts -> 0 .. Cooldown]
      /\ struck \in [Accounts -> 0 .. Cooldown] /\ doubled \subseteq Accounts /\ crowded = {}
  BY GateConstants DEF GateInv, GateTypes
<1>2. noted' = [noted EXCEPT ![AccountOf[c]] = noted[AccountOf[c]]]
  BY <1>1
<1> QED BY <1>1, <1>2, GateReturned

\* A strike under the lock: the only one that dials for the account is who holds it.
LEMMA GateStrike ==
    ASSUME Gate!GateAssumption, GateInv, NEW a \in Accounts, Gate!Strike(a)
    PROVE  struck' \in [Accounts -> 0 .. Cooldown] /\ doubled' \subseteq Accounts
  BY GateConstants DEF GateInv, GateTypes, Gate!Strike

\* Every caller that joins a queue leaves its head alone.
LEMMA GateJoin ==
    ASSUME Gate!GateAssumption, GateInv, NEW c \in Callers, NEW p \in Gate!Phases, p # "dialing",
           queue' = [queue EXCEPT ![AccountOf[c]] = Append(@, c)],
           phase' = [phase EXCEPT ![c] = p], phase[c] # "dialing"
    PROVE  /\ queue' \in [Accounts -> Seq(Callers)]
           /\ \A a \in Accounts : \A k \in 1 .. Len(queue'[a]) : AccountOf[queue'[a][k]] = a
           /\ phase' \in [Callers -> Gate!Phases]
           /\ \A d \in Callers : phase'[d] = "dialing" => phase[d] = "dialing"
           /\ DialHoldsLock'
<1> DEFINE a == AccountOf[c]
<1>1. /\ a \in Accounts /\ queue \in [Accounts -> Seq(Callers)] /\ phase \in [Callers -> Gate!Phases]
      /\ \A d \in Callers : AccountOf[d] \in Accounts
  BY GateConstants DEF GateInv, GateTypes
<1>2. queue'[a] = Append(queue[a], c) /\ \A b \in Accounts : b # a => queue'[b] = queue[b]
  BY <1>1
<1>3. queue' \in [Accounts -> Seq(Callers)]
  BY <1>1
<1>4. \A k \in 1 .. Len(queue[a]) : AccountOf[queue[a][k]] = a
  BY <1>1 DEF GateInv, GateTypes
<1>5. \A b \in Accounts : b # a => \A k \in 1 .. Len(queue[b]) : AccountOf[queue[b][k]] = b
  BY DEF GateInv, GateTypes
<1>6. AccountOf[c] = a /\ queue[a] \in Seq(Callers)
  BY <1>1
<1> HIDE DEF a
<1>7. \A k \in 1 .. Len(queue'[a]) : AccountOf[queue'[a][k]] = a
  BY <1>2, <1>4, <1>6
<1>8. \A b \in Accounts : \A k \in 1 .. Len(queue'[b]) : AccountOf[queue'[b][k]] = b
  BY <1>2, <1>5, <1>7
<1>9. phase' \in [Callers -> Gate!Phases]
      /\ \A d \in Callers : phase'[d] = "dialing" => phase[d] = "dialing"
  BY <1>1
<1>10. ASSUME NEW d \in Callers, phase'[d] = "dialing" PROVE Gate!Holds(d)'
  <2>1. Gate!Holds(d)
    BY <1>9, <1>10 DEF GateInv, DialHoldsLock
  <2>2. CASE AccountOf[d] = a
    BY <1>2, <1>6, <2>1, <2>2 DEF Gate!Holds
  <2>3. CASE AccountOf[d] # a
    BY <1>1, <1>2, <2>1, <2>3 DEF Gate!Holds
  <2> QED BY <2>2, <2>3
<1> QED BY <1>3, <1>8, <1>9, <1>10 DEF DialHoldsLock

\* Every action keeps it.
LEMMA GateStep ==
    ASSUME Gate!GateAssumption, GateInv, [Gate!Next]_(Gate!vars)
    PROVE  GateInv'
<1> USE GateConstants
<1>0. /\ GateTypes /\ DialHoldsLock /\ RefusalKept /\ DialOutwaits /\ crowded = {}
      /\ \A d \in Callers : AccountOf[d] \in Accounts
      /\ Cooldown \in Nat
      /\ \A a \in Accounts : refusal[a] \in Nat /\ noted[a] \in Nat
  BY DEF GateInv, GateTypes
<1>1. CASE UNCHANGED Gate!vars
  BY <1>0, <1>1 DEF Gate!vars, Gate!history, GateInv, GateTypes, DialHoldsLock, RefusalKept,
                    DialOutwaits, Gate!Holds, Gate!Outcomes, Gate!Phases, Gate!NoRefusal
<1>2. ASSUME NEW c \in Callers, Gate!Ask(c) PROVE GateInv'
  <2>1. /\ queue' \in [Accounts -> Seq(Callers)]
        /\ \A a \in Accounts : \A k \in 1 .. Len(queue'[a]) : AccountOf[queue'[a][k]] = a
        /\ phase' \in [Callers -> Gate!Phases]
        /\ \A d \in Callers : phase'[d] = "dialing" => phase[d] = "dialing"
        /\ DialHoldsLock'
    <3>1. "queued" \in Gate!Phases
      BY DEF Gate!Phases
    <3>2. /\ queue' = [queue EXCEPT ![AccountOf[c]] = Append(@, c)]
          /\ phase' = [phase EXCEPT ![c] = "queued"] /\ phase[c] # "dialing"
      BY <1>2 DEF Gate!Ask
    <3> QED BY <3>1, <3>2, GateJoin
  <2>2. UNCHANGED <<accepts, struck, noted, crowded, doubled>> /\ fresh' = fresh \ {c}
        /\ dials < MaxDials /\ dials' = dials + 1
    BY <1>2 DEF Gate!Ask, Gate!history
  <2>3. PICK gone \in SUBSET {a \in mapped : Gate!Sweepable(a)} :
            /\ mapped' = (mapped \ gone) \cup {AccountOf[c]}
            /\ refusal' = Gate!Forgotten(refusal, gone, Gate!NoRefusal)
            /\ last' = Gate!Forgotten(last, gone, "none")
    BY <1>2 DEF Gate!Ask
  <2>4. /\ mapped' \subseteq Accounts
        /\ refusal' \in [Accounts -> 0 .. Gate!NoRefusal]
        /\ last' \in [Accounts -> Gate!Outcomes]
        /\ \A a \in Accounts : refusal'[a] = refusal[a] \/ refusal[a] >= Cooldown
    BY <1>0, <2>3 DEF GateTypes, Gate!Forgotten, Gate!Sweepable, Gate!NoRefusal, Gate!Outcomes
  <2>5. dials' \in 0 .. MaxDials
    BY <1>0, <2>2 DEF GateTypes
  <2>6. GateTypes'
    BY <1>0, <2>1, <2>2, <2>4, <2>5 DEF GateTypes, Gate!Outcomes, Gate!Phases, Gate!NoRefusal
  <2>7. RefusalKept'
    BY <1>0, <2>2, <2>4 DEF RefusalKept
  <2>8. DialOutwaits'
    BY <1>0, <2>1, <2>2 DEF DialOutwaits
  <2> QED BY <1>0, <2>1, <2>2, <2>6, <2>7, <2>8 DEF GateInv
<1>3. ASSUME NEW c \in Callers, Gate!TurnedAway(c) PROVE GateInv'
  BY <1>0, <1>3, GateLeft DEF Gate!TurnedAway, Gate!history, GateTypes, RefusalKept
<1>4. ASSUME NEW c \in Callers, Gate!SharesUnreachable(c) PROVE GateInv'
  <2>1. ~ noted[AccountOf[c]] < Cooldown
    BY <1>0, <1>4 DEF Gate!SharesUnreachable, RefusalKept, GateTypes
  <2>2. Gate!NoRefusal \in 0 .. Gate!NoRefusal
    OBVIOUS
  <2> QED BY <1>0, <1>4, <2>1, <2>2, GateLeft DEF Gate!SharesUnreachable, Gate!history, GateTypes
<1>5. ASSUME NEW c \in Callers, Gate!DialBeside(c) PROVE GateInv'
  <2> DEFINE a == AccountOf[c]
  <2>1. /\ Gate!Holds(c) /\ refusal[a] >= Cooldown /\ phase[c] = "queued"
        /\ phase' = [phase EXCEPT ![c] = "beside"]
        /\ queue' = [queue EXCEPT ![a] = Tail(@)]
        /\ refusal' = [refusal EXCEPT ![a] = Gate!NoRefusal]
        /\ UNCHANGED <<mapped, last, fresh, accepts, dials, struck, noted, crowded, doubled>>
    BY <1>5 DEF Gate!DialBeside, Gate!history
  <2>2. a \in Accounts /\ queue \in [Accounts -> Seq(Callers)] /\ queue[a] # <<>>
    BY <1>0, <2>1 DEF GateTypes, Gate!Holds
  <2>3. queue'[a] = Tail(queue[a]) /\ \A b \in Accounts : b # a => queue'[b] = queue[b]
    BY <2>1, <2>2
  <2>4. queue' \in [Accounts -> Seq(Callers)]
    BY <2>1, <2>2
  <2>5. \A b \in Accounts : \A k \in 1 .. Len(queue[b]) : AccountOf[queue[b][k]] = b
    BY <1>0 DEF GateTypes
  <2>6. ~ noted[a] < Cooldown
    BY <1>0, <2>1, <2>2 DEF RefusalKept
  <2>7. \A d \in Callers : phase[d] = "dialing" => AccountOf[d] # a
    BY <1>0, <2>1 DEF DialHoldsLock, Gate!Holds
  <2>8. phase' \in [Callers -> Gate!Phases] /\ \A d \in Callers : phase'[d] = "dialing" => phase[d] = "dialing"
    BY <1>0, <2>1 DEF GateTypes, Gate!Phases
  <2>9. refusal' \in [Accounts -> 0 .. Gate!NoRefusal] /\ \A b \in Accounts : b # a => refusal'[b] = refusal[b]
    BY <1>0, <2>1 DEF GateTypes
  <2> HIDE DEF a
  <2>10. \A k \in 1 .. Len(queue'[a]) : AccountOf[queue'[a][k]] = a
    <3>1. queue[a] \in Seq(Callers) /\ \A k \in 1 .. Len(queue[a]) : AccountOf[queue[a][k]] = a
      BY <2>2, <2>5
    <3>2. ASSUME NEW k \in 1 .. Len(queue'[a])
          PROVE  k + 1 \in 1 .. Len(queue[a]) /\ queue'[a][k] = queue[a][k + 1]
      BY <2>2, <2>3, <3>1, <3>2
    <3> QED BY <3>1, <3>2
  <2>11. \A b \in Accounts : \A k \in 1 .. Len(queue'[b]) : AccountOf[queue'[b][k]] = b
    BY <2>3, <2>5, <2>10
  <2>12. GateTypes'
    BY <1>0, <2>1, <2>4, <2>8, <2>9, <2>11 DEF GateTypes, Gate!Outcomes, Gate!Phases, Gate!NoRefusal
  <2>13. DialHoldsLock'
    BY <1>0, <2>3, <2>7, <2>8 DEF DialHoldsLock, Gate!Holds
  <2>14. RefusalKept'
    BY <1>0, <2>1, <2>6, <2>9 DEF RefusalKept
  <2>15. DialOutwaits'
    BY <1>0, <2>1, <2>8 DEF DialOutwaits
  <2> QED BY <1>0, <2>1, <2>12, <2>13, <2>14, <2>15 DEF GateInv
<1>6. ASSUME NEW c \in Callers, Gate!DialLocked(c) PROVE GateInv'
  <2> DEFINE a == AccountOf[c]
  <2>1. /\ Gate!Holds(c) /\ refusal[a] >= Cooldown /\ phase[c] = "queued"
        /\ phase' = [phase EXCEPT ![c] = "dialing"]
        /\ refusal' = [refusal EXCEPT ![a] = Gate!NoRefusal]
        /\ UNCHANGED <<mapped, last, queue, fresh, accepts, dials, struck, noted, crowded, doubled>>
    BY <1>6 DEF Gate!DialLocked, Gate!history
  <2>2. noted[a] = Cooldown
    <3>1. a \in Accounts /\ noted[a] \in 0 .. Cooldown
      BY <1>0 DEF GateTypes
    <3>2. ~ noted[a] < Cooldown
      BY <1>0, <2>1, <3>1 DEF RefusalKept
    <3> QED BY <1>0, <3>1, <3>2
  <2>3. phase' \in [Callers -> Gate!Phases] /\ \A d \in Callers : phase'[d] = "dialing" => phase[d] = "dialing" \/ d = c
    BY <1>0, <2>1 DEF GateTypes, Gate!Phases
  <2>4. refusal' \in [Accounts -> 0 .. Gate!NoRefusal] /\ \A b \in Accounts : b # a => refusal'[b] = refusal[b]
    BY <1>0, <2>1 DEF GateTypes
  <2>5. GateTypes'
    BY <1>0, <2>1, <2>3, <2>4 DEF GateTypes, Gate!Outcomes, Gate!Phases, Gate!NoRefusal
  <2>6. DialHoldsLock'
    BY <1>0, <2>1, <2>3 DEF DialHoldsLock, Gate!Holds
  <2>7. RefusalKept'
    BY <1>0, <2>1, <2>2, <2>4 DEF RefusalKept
  <2>8. DialOutwaits'
    BY <1>0, <2>1, <2>2, <2>3 DEF DialOutwaits
  <2> QED BY <1>0, <2>1, <2>5, <2>6, <2>7, <2>8 DEF GateInv
<1>7. ASSUME NEW c \in Callers, Gate!BesideRecorded(c) PROVE GateInv'
  <2>1. 0 \in 0 .. Gate!NoRefusal /\ 0 \in 0 .. Cooldown /\ 0 <= 0
    OBVIOUS
  <2> QED BY <1>0, <1>7, <2>1, GateReturned DEF Gate!BesideRecorded, GateTypes
<1>8. ASSUME NEW c \in Callers, Gate!Accepted(c) PROVE GateInv'
  <2>1. "ok" \in Gate!Outcomes /\ Gate!Waiting(c) \subseteq Callers
    BY DEF Gate!Outcomes, Gate!Waiting
  <2> QED BY <1>0, <1>8, <2>1, GateLeft DEF Gate!Accepted, Gate!history, GateTypes, RefusalKept
<1>9. ASSUME NEW c \in Callers, Gate!Unreachable(c) PROVE GateInv'
  <2>1. (IF RouteOf[c] = "address" THEN "down-address" ELSE "down-stream") \in Gate!Outcomes
        /\ Gate!Waiting(c) \subseteq Callers
    BY DEF Gate!Outcomes, Gate!Waiting
  <2> QED BY <1>0, <1>9, <2>1, GateLeft DEF Gate!Unreachable, Gate!history, GateTypes, RefusalKept
<1>10. ASSUME NEW c \in Callers, Gate!Refused(c) PROVE GateInv'
  <2>1. 0 \in 0 .. Gate!NoRefusal /\ 0 \in 0 .. Cooldown /\ 0 <= 0 /\ "none" \in Gate!Outcomes
    BY DEF Gate!Outcomes
  <2>2. /\ Gate!Holds(c) /\ noted[AccountOf[c]] = Cooldown
    BY <1>0, <1>10 DEF Gate!Refused, DialHoldsLock, DialOutwaits
  <2>3. /\ Gate!Return(c, TRUE, 0, "none") /\ Gate!Strike(AccountOf[c])
        /\ noted' = [noted EXCEPT ![AccountOf[c]] = 0] /\ crowded' = {}
        /\ UNCHANGED <<fresh, accepts, dials>>
    <3>1. ~ noted[AccountOf[c]] < Cooldown
      BY <1>0, <2>2
    <3> QED BY <1>0, <1>10, <3>1 DEF Gate!Refused, Gate!LockedStrike
  <2>4. struck' \in [Accounts -> 0 .. Cooldown] /\ doubled' \subseteq Accounts
    BY <1>0, <2>3, GateStrike
  <2> QED BY <1>0, <2>1, <2>2, <2>3, <2>4, GateReturned DEF GateTypes
<1>11. ASSUME NEW c \in Callers, Gate!BesideDone(c) PROVE GateInv'
  BY <1>0, <1>11, GateLeft DEF Gate!BesideDone, Gate!history, GateTypes, RefusalKept
<1>12. ASSUME NEW c \in Callers, Gate!BesideRefused(c) PROVE GateInv'
  <2>1. /\ queue' \in [Accounts -> Seq(Callers)]
        /\ \A a \in Accounts : \A k \in 1 .. Len(queue'[a]) : AccountOf[queue'[a][k]] = a
        /\ phase' \in [Callers -> Gate!Phases]
        /\ \A d \in Callers : phase'[d] = "dialing" => phase[d] = "dialing"
        /\ DialHoldsLock'
    <3>1. "recording" \in Gate!Phases
      BY DEF Gate!Phases
    <3>2. /\ queue' = [queue EXCEPT ![AccountOf[c]] = Append(@, c)]
          /\ phase' = [phase EXCEPT ![c] = "recording"] /\ phase[c] # "dialing"
      BY <1>12 DEF Gate!BesideRefused
    <3> QED BY <3>1, <3>2, GateJoin
  <2>2. UNCHANGED <<mapped, refusal, last, fresh, accepts, dials, noted, crowded>>
    BY <1>12 DEF Gate!BesideRefused
  <2>3. struck' \in [Accounts -> 0 .. Cooldown] /\ doubled' \subseteq Accounts
    BY <1>0, <1>12, GateStrike DEF Gate!BesideRefused
  <2>4. GateTypes'
    BY <1>0, <2>1, <2>2, <2>3 DEF GateTypes, Gate!Outcomes, Gate!Phases, Gate!NoRefusal
  <2>5. RefusalKept' /\ DialOutwaits'
    BY <1>0, <2>1, <2>2 DEF RefusalKept, DialOutwaits
  <2> QED BY <1>0, <2>1, <2>2, <2>4, <2>5 DEF GateInv
<1>13. ASSUME NEW c \in Callers, Gate!Dropped(c) PROVE GateInv'
  BY <1>0, <1>13, GateLeft DEF Gate!Dropped, Gate!history, GateTypes, RefusalKept
<1>14. ASSUME NEW a \in Accounts, Gate!CredentialsChange(a) PROVE GateInv'
  BY <1>0, <1>14 DEF Gate!CredentialsChange, Gate!history, GateInv, GateTypes, DialHoldsLock,
                     RefusalKept, DialOutwaits, Gate!Holds, Gate!Outcomes, Gate!Phases, Gate!NoRefusal
<1>15. CASE Gate!Tick
  <2>1. /\ refusal' = [a \in Accounts |-> Gate!Older(refusal[a])]
        /\ struck' = [a \in Accounts |-> Gate!Older(struck[a])]
        /\ noted' = [a \in Accounts |-> Gate!Older(noted[a])]
        /\ UNCHANGED <<mapped, last, queue, phase, fresh, accepts, dials, crowded, doubled>>
    BY <1>15 DEF Gate!Tick
  <2>2. /\ refusal' \in [Accounts -> 0 .. Gate!NoRefusal]
        /\ struck' \in [Accounts -> 0 .. Cooldown] /\ noted' \in [Accounts -> 0 .. Cooldown]
        /\ \A a \in Accounts : /\ refusal'[a] = IF refusal[a] < Cooldown THEN refusal[a] + 1 ELSE refusal[a]
                               /\ noted'[a] = IF noted[a] < Cooldown THEN noted[a] + 1 ELSE noted[a]
    BY <1>0, <2>1 DEF GateTypes, Gate!Older
  <2>3. GateTypes'
    BY <1>0, <2>1, <2>2 DEF GateTypes, Gate!Outcomes, Gate!Phases, Gate!NoRefusal
  <2>4. RefusalKept'
    BY <1>0, <2>2 DEF RefusalKept
  <2>5. DialHoldsLock' /\ DialOutwaits'
    BY <1>0, <2>1, <2>2 DEF DialHoldsLock, DialOutwaits, Gate!Holds
  <2> QED BY <1>0, <2>1, <2>3, <2>4, <2>5 DEF GateInv
<1> QED BY <1>1, <1>2, <1>3, <1>4, <1>5, <1>6, <1>7, <1>8, <1>9, <1>10, <1>11, <1>12, <1>13, <1>14,
           <1>15 DEF Gate!Next, Gate!Settled, Gate!Takes, Gate!Ends

\* A step of the run in this part is one of the module's, or none.
LEMMA GateMoves ==
    ASSUME [SuiteNext]_suiteVars, part = "gate" \/ part' = "gate"
    PROVE  part' = part /\ [Gate!Next]_(Gate!vars)
<1>1. part' = part
  BY DEF SuiteNext, suiteVars, OnlyUpload, OnlyGate, OnlySession, OnlyLanes, OnlyWrites,
                OnlyDownloads, OnlyWinfs
<1> QED BY <1>1 DEF SuiteNext, suiteVars, OnlyUpload, OnlyGate, OnlySession, OnlyLanes, OnlyWrites,
                OnlyDownloads, OnlyWinfs, Gate!vars, Gate!history

\* No dial under the lock earns a strike within the cool-down of one its slot was told of,
\* whatever is swept, released, dropped and asked for again meanwhile, and only one dial
\* of an account is made without an answer to go by.
THEOREM GateSound == SuiteSpec => []StrikesSpaced
<1>1. SuiteInit => (part = "gate" => GateInv)
  <2>1. SUFFICES ASSUME SuiteInit, part = "gate" PROVE GateInv
    OBVIOUS
  <2>2. Gate!Init
    BY <2>1 DEF SuiteInit
  <2> QED BY <2>2, GateInit, GateOk
<1>2. (part = "gate" => GateInv) /\ [SuiteNext]_suiteVars => (part = "gate" => GateInv)'
  <2>1. SUFFICES ASSUME part = "gate" => GateInv, [SuiteNext]_suiteVars, part' = "gate"
                 PROVE  GateInv'
    OBVIOUS
  <2>2. part' = part /\ [Gate!Next]_(Gate!vars)
    BY <2>1, GateMoves
  <2> QED BY <2>1, <2>2, GateStep, GateOk
<1>3. (part = "gate" => GateInv) => StrikesSpaced
  BY GateTyped, GateOk DEF StrikesSpaced
<1> QED BY <1>1, <1>2, <1>3, PTL DEF SuiteSpec

-----------------------------------------------------------------------------
(* SmbWrites. *)

\* A phase belongs to one kind of writer; what is staged is whole before it is renamed; a
\* .part is being staged, renamed or cleaned up, its writer is excused, or it is the empty
\* one of a create that was not answered; a handle about to write a chunk is where it was
\* asked to be.
WritePhases ==
    \A w \in Writers :
        /\ phase[w] \in {"staging", "committing", "cleaning"} => MethodOf[w] \in {"atomic", "staged"}
        /\ phase[w] \in {"filling", "removing"} => MethodOf[w] = "new"
        /\ phase[w] \in {"between", "writing", "finishing", "reopening"} => MethodOf[w] = "handle"
        /\ phase[w] = "committing" => temp[w] = "whole"
        /\ temp[w] # "absent" =>
              \/ phase[w] \in {"staging", "committing", "cleaning"} \/ w \in excuse
              \/ phase[w] = "failed" /\ MethodOf[w] = "staged" /\ temp[w] = "empty"
        /\ phase[w] = "idle" => position[w] = next[w]
        /\ phase[w] = "between" /\ open[w] => position[w] = next[w]
        /\ phase[w] = "writing" => position[w] = asked[w] /\ next[w] = asked[w]

\* A file in part at the path is a streamed handle's, or that of a writer of a new file,
\* which still has it open under that name and is filling it, removing it or excused, or
\* which made it empty and was not answered.
TargetOwned ==
    (target # Write!Absent /\ target.how # "whole") =>
        /\ target.by \in Writers
        /\ MethodOf[target.by] # "handle" =>
              /\ MethodOf[target.by] = "new"
              /\ \/ /\ target.by \in linked
                    /\ phase[target.by] \in {"filling", "removing"} \/ target.by \in excuse
                 \/ phase[target.by] = "failed" /\ target.how = "empty"

\* The types the proof goes by, the file at the path apart from the writers.
TargetTyped ==
    \/ target = Write!Absent
    \/ \E w \in Writers \cup {OldFile}, how \in {"empty", "part", "whole"} : target = Write!File(w, how)
WriterTyped ==
    /\ temp \in [Writers -> {"absent", "empty", "part", "whole"}]
    /\ phase \in [Writers -> Write!Phases]
    /\ open \in [Writers -> BOOLEAN]
    /\ position \in [Writers -> 0 .. MaxChunks + 1]
    /\ next \in [Writers -> 0 .. MaxChunks + 1]
    /\ asked \in [Writers -> 0 .. MaxChunks]
    /\ chunks \in [Writers -> 0 .. MaxChunks]
    /\ linked \subseteq Writers /\ excuse \subseteq Writers

WriteInv == TargetTyped /\ WriterTyped /\ WritePhases /\ TargetOwned

\* What the assumption says, constant by constant.
LEMMA WriteConstants ==
    ASSUME Write!WritesAssumption
    PROVE  /\ MaxChunks \in Nat /\ OldFile \notin Writers
           /\ \A w \in Writers : MethodOf[w] \in {"atomic", "staged", "new", "handle"}
  BY DEF Write!WritesAssumption

\* It holds of a path with a whole file or none.
LEMMA WriteInit == ASSUME Write!WritesAssumption, Write!Init PROVE WriteInv
<1>1. target = Write!Absent \/ target = Write!File(OldFile, "whole")
  BY DEF Write!Init
<1>2. WriterTyped
  <2>1. 0 \in 0 .. MaxChunks /\ 0 \in 0 .. MaxChunks + 1
    BY WriteConstants
  <2> QED BY <2>1 DEF Write!Init, WriterTyped, Write!Phases
<1>3. WritePhases
  BY DEF Write!Init, WritePhases
<1>4. target = Write!Absent \/ target.how = "whole"
  BY <1>1 DEF Write!File
<1> QED BY <1>1, <1>2, <1>3, <1>4 DEF WriteInv, TargetOwned, TargetTyped

\* What the invariant says is what the run checks.
LEMMA WriteTyped ==
    ASSUME Write!WritesAssumption, WriteInv
    PROVE  Write!TypeOK /\ Write!OldOrNew /\ Write!PartsCleaned /\ Write!WriterInStep
<1>1. Write!TypeOK
  BY DEF WriteInv, TargetTyped, WriterTyped, Write!TypeOK
<1>2. Write!OldOrNew
  BY WriteConstants DEF WriteInv, TargetOwned, Write!OldOrNew
<1>3. Write!PartsCleaned
  BY DEF WriteInv, WritePhases, Write!PartsCleaned
<1>4. Write!WriterInStep
  BY DEF WriteInv, WritePhases, Write!WriterInStep
<1> QED BY <1>1, <1>2, <1>3, <1>4

\* Every action keeps it.
LEMMA WriteStep ==
    ASSUME Write!WritesAssumption, WriteInv, [Write!Next]_(Write!vars) PROVE WriteInv'
<1>0. TargetTyped /\ WriterTyped /\ WritePhases /\ TargetOwned
  BY DEF WriteInv
<1> USE WriteConstants DEF Write!CreateUnanswered
<1>1. CASE UNCHANGED Write!vars
  BY <1>0, <1>1 DEF Write!vars, Write!writer, WriteInv, TargetTyped, WriterTyped, WritePhases,
                    TargetOwned,
                    Write!Phases, Write!File, Write!Absent
<1>2. ASSUME NEW w \in Writers, Write!StageBegins(w) PROVE WriteInv'
  <2>1. TargetTyped'
    BY <1>0, <1>2 DEF Write!StageBegins, Write!Goes, Write!writer, TargetTyped
  <2>2. WriterTyped'
    BY <1>0, <1>2 DEF Write!StageBegins, Write!Goes, Write!writer, WriterTyped, Write!Phases
  <2>3. WritePhases'
    BY <1>0, <1>2 DEF Write!StageBegins, Write!Goes, Write!writer, WriterTyped, WritePhases
  <2>4. TargetOwned'
    BY <1>0, <1>2 DEF Write!StageBegins, Write!Goes, Write!writer, WriterTyped, WritePhases,
                      TargetTyped, TargetOwned, Write!File, Write!Absent
  <2> QED BY <2>1, <2>2, <2>3, <2>4 DEF WriteInv
<1>3. ASSUME NEW w \in Writers, Write!Staged(w) PROVE WriteInv'
  <2>1. TargetTyped'
    BY <1>0, <1>3 DEF Write!Staged, Write!Goes, Write!writer, TargetTyped
  <2>2. WriterTyped'
    BY <1>0, <1>3 DEF Write!Staged, Write!Goes, Write!writer, WriterTyped, Write!Phases
  <2>3. WritePhases'
    BY <1>0, <1>3 DEF Write!Staged, Write!Goes, Write!writer, WriterTyped, WritePhases
  <2>4. TargetOwned'
    BY <1>0, <1>3 DEF Write!Staged, Write!Goes, Write!writer, WriterTyped, WritePhases,
                      TargetTyped, TargetOwned, Write!File, Write!Absent
  <2> QED BY <2>1, <2>2, <2>3, <2>4 DEF WriteInv
<1>4. ASSUME NEW w \in Writers, Write!StageFails(w) PROVE WriteInv'
  <2>1. TargetTyped'
    BY <1>0, <1>4 DEF Write!StageFails, Write!Goes, Write!writer, TargetTyped
  <2>2. WriterTyped'
    BY <1>0, <1>4 DEF Write!StageFails, Write!Goes, Write!writer, WriterTyped, Write!Phases
  <2>3. WritePhases'
    BY <1>0, <1>4 DEF Write!StageFails, Write!Goes, Write!writer, WriterTyped, WritePhases
  <2>4. TargetOwned'
    BY <1>0, <1>4 DEF Write!StageFails, Write!Goes, Write!writer, WriterTyped, WritePhases,
                      TargetTyped, TargetOwned, Write!File, Write!Absent
  <2> QED BY <2>1, <2>2, <2>3, <2>4 DEF WriteInv
<1>5. ASSUME NEW w \in Writers, Write!Committed(w) PROVE WriteInv'
  <2>1. TargetTyped'
    <3>1. temp[w] = "whole"
      BY <1>0, <1>5 DEF Write!Committed, WritePhases
    <3> QED BY <1>0, <1>5, <3>1 DEF Write!Committed, Write!RenameOver, TargetTyped
  <2>2. WriterTyped'
    BY <1>0, <1>5 DEF Write!Committed, Write!Goes, Write!writer, Write!RenameOver, WriterTyped,
                      Write!Phases
  <2>3. WritePhases'
    BY <1>0, <1>5 DEF Write!Committed, Write!Goes, Write!writer, Write!RenameOver, WriterTyped,
                      WritePhases
  <2>4. TargetOwned'
    BY <1>0, <1>5 DEF Write!Committed, Write!Goes, Write!writer, Write!RenameOver, WriterTyped,
                      WritePhases, TargetTyped, TargetOwned, Write!File, Write!Absent
  <2> QED BY <2>1, <2>2, <2>3, <2>4 DEF WriteInv
<1>6. ASSUME NEW w \in Writers, Write!CommitFails(w) PROVE WriteInv'
  <2>1. TargetTyped'
    <3>1. temp[w] = "whole"
      BY <1>0, <1>6 DEF Write!CommitFails, WritePhases
    <3> QED BY <1>0, <1>6, <3>1 DEF Write!CommitFails, Write!RenameOver, TargetTyped
  <2>2. WriterTyped'
    BY <1>0, <1>6 DEF Write!CommitFails, Write!Goes, Write!writer, Write!RenameOver, WriterTyped,
                      Write!Phases
  <2>3. WritePhases'
    BY <1>0, <1>6 DEF Write!CommitFails, Write!Goes, Write!writer, Write!RenameOver, WriterTyped,
                      WritePhases
  <2>4. TargetOwned'
    <3>1. phase' = [phase EXCEPT ![w] = "cleaning"] /\ MethodOf[w] \in {"atomic", "staged"} /\ temp[w] = "whole"
          /\ excuse' = excuse
      BY <1>0, <1>6 DEF Write!CommitFails, Write!Goes, Write!writer, WritePhases
    <3>2. CASE Write!RenameOver(w)
      <4>1. target'.how = "whole"
        BY <3>1, <3>2 DEF Write!RenameOver, Write!File
      <4> QED BY <4>1 DEF TargetOwned
    <3>3. CASE UNCHANGED <<target, temp, linked>>
      <4>1. \A v \in Writers : v # w => phase'[v] = phase[v]
        BY <1>0, <3>1 DEF WriterTyped
      <4> QED BY <1>0, <3>1, <3>3, <4>1 DEF TargetOwned, Write!Absent
    <3> QED BY <1>6, <3>2, <3>3 DEF Write!CommitFails
  <2> QED BY <2>1, <2>2, <2>3, <2>4 DEF WriteInv
<1>7. ASSUME NEW w \in Writers, Write!Cleaned(w) PROVE WriteInv'
  <2>1. TargetTyped'
    BY <1>0, <1>7 DEF Write!Cleaned, Write!Goes, Write!writer, TargetTyped
  <2>2. WriterTyped'
    BY <1>0, <1>7 DEF Write!Cleaned, Write!Goes, Write!writer, WriterTyped, Write!Phases
  <2>3. WritePhases'
    BY <1>0, <1>7 DEF Write!Cleaned, Write!Goes, Write!writer, WriterTyped, WritePhases
  <2>4. TargetOwned'
    BY <1>0, <1>7 DEF Write!Cleaned, Write!Goes, Write!writer, WriterTyped, WritePhases,
                      TargetTyped, TargetOwned, Write!File, Write!Absent
  <2> QED BY <2>1, <2>2, <2>3, <2>4 DEF WriteInv
<1>8. ASSUME NEW w \in Writers, Write!FillBegins(w) PROVE WriteInv'
  <2>1. TargetTyped'
    BY <1>0, <1>8 DEF Write!FillBegins, Write!Goes, Write!writer, Write!CreateNew, TargetTyped
  <2>2. WriterTyped'
    BY <1>0, <1>8 DEF Write!FillBegins, Write!Goes, Write!writer, Write!CreateNew, WriterTyped,
                      Write!Phases
  <2>3. WritePhases'
    BY <1>0, <1>8 DEF Write!FillBegins, Write!Goes, Write!writer, Write!CreateNew, WriterTyped,
                      WritePhases
  <2>4. TargetOwned'
    BY <1>0, <1>8 DEF Write!FillBegins, Write!Goes, Write!writer, Write!CreateNew, WriterTyped,
                      WritePhases, TargetTyped, TargetOwned, Write!File, Write!Absent
  <2> QED BY <2>1, <2>2, <2>3, <2>4 DEF WriteInv
<1>9. ASSUME NEW w \in Writers, Write!Filled(w) PROVE WriteInv'
  <2>1. TargetTyped'
    BY <1>0, <1>9 DEF Write!Filled, Write!Goes, Write!writer, TargetTyped
  <2>2. WriterTyped'
    BY <1>0, <1>9 DEF Write!Filled, Write!Goes, Write!writer, WriterTyped, Write!Phases
  <2>3. WritePhases'
    BY <1>0, <1>9 DEF Write!Filled, Write!Goes, Write!writer, WriterTyped, WritePhases
  <2>4. TargetOwned'
    BY <1>0, <1>9 DEF Write!Filled, Write!Goes, Write!writer, WriterTyped, WritePhases,
                      TargetTyped, TargetOwned, Write!File, Write!Absent
  <2> QED BY <2>1, <2>2, <2>3, <2>4 DEF WriteInv
<1>10. ASSUME NEW w \in Writers, Write!FillFails(w) PROVE WriteInv'
  <2>1. TargetTyped'
    BY <1>0, <1>10 DEF Write!FillFails, Write!Goes, Write!writer, TargetTyped
  <2>2. WriterTyped'
    BY <1>0, <1>10 DEF Write!FillFails, Write!Goes, Write!writer, WriterTyped, Write!Phases
  <2>3. WritePhases'
    BY <1>0, <1>10 DEF Write!FillFails, Write!Goes, Write!writer, WriterTyped, WritePhases
  <2>4. TargetOwned'
    BY <1>0, <1>10 DEF Write!FillFails, Write!Goes, Write!writer, WriterTyped, WritePhases,
                       TargetTyped, TargetOwned, Write!File, Write!Absent
  <2> QED BY <2>1, <2>2, <2>3, <2>4 DEF WriteInv
<1>11. ASSUME NEW w \in Writers, Write!Removed(w) PROVE WriteInv'
  <2>1. TargetTyped'
    BY <1>0, <1>11 DEF Write!Removed, Write!Goes, Write!writer, TargetTyped
  <2>2. WriterTyped'
    BY <1>0, <1>11 DEF Write!Removed, Write!Goes, Write!writer, WriterTyped, Write!Phases
  <2>3. WritePhases'
    BY <1>0, <1>11 DEF Write!Removed, Write!Goes, Write!writer, WriterTyped, WritePhases
  <2>4. TargetOwned'
    BY <1>0, <1>11 DEF Write!Removed, Write!Goes, Write!writer, WriterTyped, WritePhases,
                       TargetTyped, TargetOwned, Write!File, Write!Absent
  <2> QED BY <2>1, <2>2, <2>3, <2>4 DEF WriteInv
<1>12. ASSUME NEW w \in Writers, Write!NameTaken(w) PROVE WriteInv'
  <2>1. TargetTyped'
    BY <1>0, <1>12 DEF Write!NameTaken, Write!Goes, Write!writer, TargetTyped
  <2>2. WriterTyped'
    BY <1>0, <1>12 DEF Write!NameTaken, Write!Goes, Write!writer, WriterTyped, Write!Phases
  <2>3. WritePhases'
    BY <1>0, <1>12 DEF Write!NameTaken, Write!Goes, Write!writer, WriterTyped, WritePhases
  <2>4. TargetOwned'
    BY <1>0, <1>12 DEF Write!NameTaken, Write!Goes, Write!writer, WriterTyped, WritePhases,
                       TargetTyped, TargetOwned, Write!File, Write!Absent
  <2> QED BY <2>1, <2>2, <2>3, <2>4 DEF WriteInv
<1>13. ASSUME NEW w \in Writers, Write!OpenWrite(w) PROVE WriteInv'
  <2>1. TargetTyped'
    BY <1>0, <1>13 DEF Write!OpenWrite, Write!Goes, Write!writer, Write!CreateNew, TargetTyped
  <2>2. WriterTyped'
    BY <1>0, <1>13, ZenonT(40) DEF Write!OpenWrite, Write!Goes, Write!writer, Write!CreateNew, WriterTyped,
                       Write!Phases
  <2>3. WritePhases'
    BY <1>0, <1>13 DEF Write!OpenWrite, Write!Goes, Write!writer, Write!CreateNew, WriterTyped,
                       WritePhases
  <2>4. TargetOwned'
    BY <1>0, <1>13 DEF Write!OpenWrite, Write!Goes, Write!writer, Write!CreateNew, WriterTyped,
                       WritePhases, TargetTyped, TargetOwned, Write!File, Write!Absent
  <2> QED BY <2>1, <2>2, <2>3, <2>4 DEF WriteInv
<1>14. ASSUME NEW w \in Writers, NEW offset \in 0 .. MaxChunks, Write!WriteAt(w, offset) PROVE WriteInv'
  <2>1. TargetTyped'
    BY <1>0, <1>14 DEF Write!WriteAt, Write!Goes, Write!writer, TargetTyped
  <2>2. WriterTyped'
    BY <1>0, <1>14 DEF Write!WriteAt, Write!Goes, Write!writer, WriterTyped, Write!Phases
  <2>3. WritePhases'
    BY <1>0, <1>14 DEF Write!WriteAt, Write!Goes, Write!writer, WriterTyped, WritePhases
  <2>4. TargetOwned'
    BY <1>0, <1>14 DEF Write!WriteAt, Write!Goes, Write!writer, WriterTyped, WritePhases,
                       TargetTyped, TargetOwned, Write!File, Write!Absent
  <2> QED BY <2>1, <2>2, <2>3, <2>4 DEF WriteInv
<1>15. ASSUME NEW w \in Writers, Write!WriterFinished(w) PROVE WriteInv'
  <2>1. TargetTyped'
    BY <1>0, <1>15 DEF Write!WriterFinished, Write!Goes, Write!writer, TargetTyped
  <2>2. WriterTyped'
    BY <1>0, <1>15 DEF Write!WriterFinished, Write!Goes, Write!writer, WriterTyped, Write!Phases
  <2>3. WritePhases'
    BY <1>0, <1>15 DEF Write!WriterFinished, Write!Goes, Write!writer, WriterTyped, WritePhases
  <2>4. TargetOwned'
    BY <1>0, <1>15 DEF Write!WriterFinished, Write!Goes, Write!writer, WriterTyped, WritePhases,
                       TargetTyped, TargetOwned, Write!File, Write!Absent
  <2> QED BY <2>1, <2>2, <2>3, <2>4 DEF WriteInv
<1>16. ASSUME NEW w \in Writers, Write!Reopened(w) PROVE WriteInv'
  <2>1. TargetTyped'
    BY <1>0, <1>16 DEF Write!Reopened, Write!Goes, Write!writer, TargetTyped
  <2>2. WriterTyped'
    BY <1>0, <1>16 DEF Write!Reopened, Write!Goes, Write!writer, WriterTyped, Write!Phases
  <2>3. WritePhases'
    BY <1>0, <1>16 DEF Write!Reopened, Write!Goes, Write!writer, WriterTyped, WritePhases
  <2>4. TargetOwned'
    BY <1>0, <1>16 DEF Write!Reopened, Write!Goes, Write!writer, WriterTyped, WritePhases,
                       TargetTyped, TargetOwned, Write!File, Write!Absent
  <2> QED BY <2>1, <2>2, <2>3, <2>4 DEF WriteInv
<1>17. ASSUME NEW w \in Writers, Write!Written(w) PROVE WriteInv'
  <2>1. TargetTyped'
    BY <1>0, <1>17 DEF Write!Written, Write!Goes, Write!writer, TargetTyped
  <2>2. WriterTyped'
    <3>1. position[w] = asked[w] /\ asked[w] \in 0 .. MaxChunks
      BY <1>0, <1>17 DEF Write!Written, WritePhases, WriterTyped
    <3>2. position[w] + 1 \in 0 .. MaxChunks + 1 /\ asked[w] + 1 \in 0 .. MaxChunks + 1
      BY <3>1
    <3> QED BY <1>0, <1>17, <3>2 DEF Write!Written, Write!Goes, WriterTyped, Write!Phases
  <2>3. WritePhases'
    BY <1>0, <1>17 DEF Write!Written, Write!Goes, Write!writer, WriterTyped, WritePhases
  <2>4. TargetOwned'
    BY <1>0, <1>17 DEF Write!Written, Write!Goes, Write!writer, WriterTyped, WritePhases,
                       TargetTyped, TargetOwned, Write!File, Write!Absent
  <2> QED BY <2>1, <2>2, <2>3, <2>4 DEF WriteInv
<1>18. ASSUME NEW w \in Writers, Write!WriteFails(w) PROVE WriteInv'
  <2>1. TargetTyped'
    BY <1>0, <1>18 DEF Write!WriteFails, Write!Goes, Write!writer, TargetTyped
  <2>2. WriterTyped'
    BY <1>0, <1>18 DEF Write!WriteFails, Write!Goes, Write!writer, WriterTyped, Write!Phases
  <2>3. WritePhases'
    BY <1>0, <1>18 DEF Write!WriteFails, Write!Goes, Write!writer, WriterTyped, WritePhases
  <2>4. TargetOwned'
    BY <1>0, <1>18 DEF Write!WriteFails, Write!Goes, Write!writer, WriterTyped, WritePhases,
                       TargetTyped, TargetOwned, Write!File, Write!Absent
  <2> QED BY <2>1, <2>2, <2>3, <2>4 DEF WriteInv
<1>19. ASSUME NEW w \in Writers, Write!CloseHandle(w) PROVE WriteInv'
  <2>1. TargetTyped'
    BY <1>0, <1>19 DEF Write!CloseHandle, Write!Goes, Write!writer, TargetTyped
  <2>2. WriterTyped'
    BY <1>0, <1>19 DEF Write!CloseHandle, Write!Goes, Write!writer, WriterTyped, Write!Phases
  <2>3. WritePhases'
    BY <1>0, <1>19, ZenonT(40) DEF Write!CloseHandle, Write!Goes, Write!writer, WriterTyped, WritePhases
  <2>4. TargetOwned'
    BY <1>0, <1>19 DEF Write!CloseHandle, Write!Goes, Write!writer, WriterTyped, WritePhases,
                       TargetTyped, TargetOwned, Write!File, Write!Absent
  <2> QED BY <2>1, <2>2, <2>3, <2>4 DEF WriteInv
<1>20. ASSUME NEW w \in Writers, Write!Dropped(w) PROVE WriteInv'
  <2>1. TargetTyped'
    BY <1>0, <1>20 DEF Write!Dropped, Write!Goes, Write!writer, TargetTyped
  <2>2. WriterTyped'
    BY <1>0, <1>20 DEF Write!Dropped, Write!Goes, Write!writer, WriterTyped, Write!Phases
  <2>3. WritePhases'
    BY <1>0, <1>20 DEF Write!Dropped, Write!Goes, Write!writer, WriterTyped, WritePhases
  <2>4. TargetOwned'
    BY <1>0, <1>20 DEF Write!Dropped, Write!Goes, Write!writer, WriterTyped, WritePhases,
                       TargetTyped, TargetOwned, Write!File, Write!Absent
  <2> QED BY <2>1, <2>2, <2>3, <2>4 DEF WriteInv
<1>21. ASSUME NEW w \in Writers, Write!StageUnanswered(w) PROVE WriteInv'
  <2>1. TargetTyped'
    BY <1>0, <1>21 DEF Write!StageUnanswered, Write!Goes, Write!writer, TargetTyped
  <2>2. WriterTyped'
    BY <1>0, <1>21 DEF Write!StageUnanswered, Write!Goes, Write!writer, WriterTyped, Write!Phases
  <2>3. WritePhases'
    BY <1>0, <1>21 DEF Write!StageUnanswered, Write!Goes, Write!writer, WriterTyped, WritePhases
  <2>4. TargetOwned'
    BY <1>0, <1>21 DEF Write!StageUnanswered, Write!Goes, Write!writer, WriterTyped, WritePhases,
                       TargetTyped, TargetOwned, Write!File, Write!Absent
  <2> QED BY <2>1, <2>2, <2>3, <2>4 DEF WriteInv
<1>22. ASSUME NEW w \in Writers, Write!FillUnanswered(w) PROVE WriteInv'
  <2>1. TargetTyped'
    BY <1>0, <1>22 DEF Write!FillUnanswered, Write!Goes, Write!writer, TargetTyped
  <2>2. WriterTyped'
    BY <1>0, <1>22 DEF Write!FillUnanswered, Write!Goes, Write!writer, WriterTyped, Write!Phases
  <2>3. WritePhases'
    BY <1>0, <1>22 DEF Write!FillUnanswered, Write!Goes, Write!writer, WriterTyped, WritePhases
  <2>4. TargetOwned'
    BY <1>0, <1>22 DEF Write!FillUnanswered, Write!Goes, Write!writer, WriterTyped, WritePhases,
                       TargetTyped, TargetOwned, Write!File, Write!Absent
  <2> QED BY <2>1, <2>2, <2>3, <2>4 DEF WriteInv
<1>23. ASSUME NEW w \in Writers, Write!OpenUnanswered(w) PROVE WriteInv'
  <2>1. TargetTyped'
    BY <1>0, <1>23 DEF Write!OpenUnanswered, Write!Goes, Write!writer, TargetTyped
  <2>2. WriterTyped'
    BY <1>0, <1>23 DEF Write!OpenUnanswered, Write!Goes, Write!writer, WriterTyped, Write!Phases
  <2>3. WritePhases'
    BY <1>0, <1>23 DEF Write!OpenUnanswered, Write!Goes, Write!writer, WriterTyped, WritePhases
  <2>4. TargetOwned'
    BY <1>0, <1>23 DEF Write!OpenUnanswered, Write!Goes, Write!writer, WriterTyped, WritePhases,
                       TargetTyped, TargetOwned, Write!File, Write!Absent
  <2> QED BY <2>1, <2>2, <2>3, <2>4 DEF WriteInv
<1> QED BY <1>1, <1>2, <1>3, <1>4, <1>5, <1>6, <1>7, <1>8, <1>9, <1>10, <1>11, <1>12, <1>13, <1>14,
          <1>15, <1>16, <1>17, <1>18, <1>19, <1>20, <1>21, <1>22, <1>23
        DEF Write!Next, Write!Atomic, Write!New, Write!Handle

\* A step of the run in this part is one of the module's, or none.
LEMMA WriteMoves ==
    ASSUME [SuiteNext]_suiteVars, part = "writes" \/ part' = "writes"
    PROVE  part' = part /\ [Write!Next]_(Write!vars)
<1>1. part' = part
  BY DEF SuiteNext, suiteVars, OnlyUpload, OnlyGate, OnlySession, OnlyLanes, OnlyWrites,
                OnlyDownloads, OnlyWinfs
<1> QED BY <1>1 DEF SuiteNext, suiteVars, OnlyUpload, OnlyGate, OnlySession, OnlyLanes, OnlyWrites,
                OnlyDownloads, OnlyWinfs, Write!vars, Write!writer

\* Whatever fails, is lost or is dropped, the path holds part of a file only while it is
\* written in place, where its writer is excused, or empty where a create was not
\* answered; so it is with a .part; and a handle's writer is where the handle thinks it is.
THEOREM WriteSound == SuiteSpec => []OldOrNew
<1>1. SuiteInit => (part = "writes" => WriteInv)
  <2>1. SUFFICES ASSUME SuiteInit, part = "writes" PROVE WriteInv
    OBVIOUS
  <2>2. Write!Init
    BY <2>1 DEF SuiteInit
  <2> QED BY <2>2, WriteInit, WriteOk
<1>2. (part = "writes" => WriteInv) /\ [SuiteNext]_suiteVars => (part = "writes" => WriteInv)'
  <2>1. SUFFICES ASSUME part = "writes" => WriteInv, [SuiteNext]_suiteVars, part' = "writes"
                 PROVE  WriteInv'
    OBVIOUS
  <2>2. part' = part /\ [Write!Next]_(Write!vars)
    BY <2>1, WriteMoves
  <2> QED BY <2>1, <2>2, WriteStep, WriteOk
<1>3. (part = "writes" => WriteInv) => OldOrNew
  BY WriteTyped, WriteOk DEF OldOrNew
<1> QED BY <1>1, <1>2, <1>3, PTL DEF SuiteSpec

-----------------------------------------------------------------------------
(* SmbSession. *)

\* Whoever dials or attaches holds the slot, and so does a locked operation to its end.
SlotHeld ==
    \A o \in Ops :
        /\ phase[o] \in {"dialing", "attaching"} => lock = o
        /\ phase[o] = "running" /\ o \in Locked => lock = o

\* The trees and the locked operations follow the session in the slot; there is one to
\* attach to, and every running operation has one.
SlotFollowed ==
    /\ trees \in {0, cur}
    /\ \A o \in Ops :
          /\ phase[o] \in {"dialing", "attaching"} => cur # 0
          /\ phase[o] = "running" => on[o] # 0 /\ (o \in Locked => on[o] = cur)

SessionInv == Session!TypeOK /\ SlotHeld /\ SlotFollowed /\ Session!LiveIsTruthful

\* What the assumption says, constant by constant.
LEMMA SessionConstants ==
    ASSUME Session!SessionAssumption
    PROVE  /\ Session!Nobody \notin Ops /\ Locked \subseteq Ops /\ Deserting \subseteq Ops
           /\ MaxTrouble \in Nat
  BY DEF Session!SessionAssumption

\* It holds of a transport that has just been built.
LEMMA SessionInit == ASSUME Session!SessionAssumption, Session!Init PROVE SessionInv
<1> USE SessionConstants
<1>1. made \in {0, 1} /\ cur = made /\ cur \in 0 .. made /\ 0 \in 0 .. made /\ 0 \in 0 .. MaxTrouble
  BY DEF Session!Init
<1>2. Session!TypeOK
  BY <1>1 DEF Session!Init, Session!TypeOK, Session!OpPhases, Session!Kinds
<1>3. SlotHeld /\ SlotFollowed /\ Session!LiveIsTruthful
  BY DEF Session!Init, SlotHeld, SlotFollowed, Session!LiveIsTruthful
<1> QED BY <1>2, <1>3 DEF SessionInv

\* An operation that returns, field by field.
LEMMA SessionLeaves ==
    ASSUME Session!SessionAssumption, Session!TypeOK, NEW o \in Ops, Session!Leaves(o)
    PROVE  /\ phase' \in [Ops -> Session!OpPhases] /\ on' \in [Ops -> 0 .. made]
           /\ lock' \in Ops \cup {Session!Nobody}
  BY DEF Session!TypeOK, Session!Leaves, Session!Unlock, Session!Goes, Session!OpPhases

\* The slot goes from hand to hand whole, and a session found dead is never badged live.
LEMMA SessionStep ==
    ASSUME Session!SessionAssumption, SessionInv, [Session!Next]_(Session!vars)
    PROVE  SessionInv' /\ Session!NoLoginOnceRefused
<1>0. Session!TypeOK /\ SlotHeld /\ SlotFollowed /\ Session!LiveIsTruthful
  BY DEF SessionInv
<1>00. /\ made \in Nat /\ cur \in 0 .. made /\ trees \in 0 .. made /\ dead \subseteq 1 .. made
       /\ known \subseteq 1 .. made /\ lock \in Ops \cup {Session!Nobody}
       /\ phase \in [Ops -> Session!OpPhases] /\ on \in [Ops -> 0 .. made]
       /\ adopting \in [Adopters -> {"idle", "dialing", "swapping", "done"}]
       /\ trouble \in 0 .. MaxTrouble
  BY <1>0 DEF Session!TypeOK
<1> USE SessionConstants
<1>1. CASE UNCHANGED Session!vars
  BY <1>0, <1>1 DEF Session!vars, Session!slot, Session!flags, SessionInv, SlotHeld, SlotFollowed,
       Session!LiveIsTruthful, Session!TypeOK, Session!NoLoginOnceRefused, Session!IsLive,
       Session!Possible, Session!OpPhases, Session!Kinds, Session!Nobody
<1>2. ASSUME NEW o \in Ops, Session!Begin(o) PROVE SessionInv' /\ Session!NoLoginOnceRefused
  <2>1. Session!TypeOK'
    BY <1>0, <1>00, <1>2 DEF Session!Begin, Session!slot, Session!flags, Session!Goes,
                             Session!TypeOK, Session!OpPhases, Session!Kinds, Session!Nobody,
                             SlotFollowed
  <2>2. SlotHeld'
    BY <1>0, <1>00, <1>2 DEF Session!Begin, Session!slot, Session!flags, Session!Goes, SlotHeld
  <2>3. SlotFollowed'
    BY <1>0, <1>00, <1>2 DEF Session!Begin, Session!slot, Session!flags, Session!Goes, SlotHeld,
                             SlotFollowed
  <2>4. Session!LiveIsTruthful'
    BY <1>0, <1>00, <1>2 DEF Session!Begin, Session!slot, Session!flags, Session!Goes,
                             Session!LiveIsTruthful, Session!IsLive, Session!Possible, SlotHeld
  <2>5. Session!NoLoginOnceRefused
    BY <1>00, <1>2 DEF Session!Begin, Session!slot, Session!flags, Session!Goes,
                       Session!NoLoginOnceRefused
  <2> QED BY <2>1, <2>2, <2>3, <2>4, <2>5 DEF SessionInv
<1>3. ASSUME NEW o \in Ops, Session!Declined(o) PROVE SessionInv' /\ Session!NoLoginOnceRefused
  <2>1. Session!TypeOK'
    BY <1>0, <1>00, <1>3 DEF Session!Declined, Session!slot, Session!flags, Session!Goes,
                             Session!Takes, Session!Leaves, Session!Unlock, Session!TypeOK,
                             Session!OpPhases, Session!Kinds, Session!Nobody, SlotFollowed
  <2>2. SlotHeld'
    BY <1>0, <1>00, <1>3 DEF Session!Declined, Session!slot, Session!flags, Session!Goes,
                             Session!Takes, Session!Leaves, Session!Unlock, SlotHeld
  <2>3. SlotFollowed'
    BY <1>0, <1>00, <1>3 DEF Session!Declined, Session!slot, Session!flags, Session!Goes,
                             Session!Takes, Session!Leaves, Session!Unlock, SlotHeld, SlotFollowed
  <2>4. Session!LiveIsTruthful'
    BY <1>0, <1>00, <1>3 DEF Session!Declined, Session!slot, Session!flags, Session!Goes,
                             Session!Takes, Session!Leaves, Session!Unlock, Session!LiveIsTruthful,
                             Session!IsLive, Session!Possible, SlotHeld
  <2>5. Session!NoLoginOnceRefused
    BY <1>00, <1>3 DEF Session!Declined, Session!slot, Session!flags, Session!Goes, Session!Takes,
                       Session!Leaves, Session!Unlock, Session!NoLoginOnceRefused
  <2> QED BY <2>1, <2>2, <2>3, <2>4, <2>5 DEF SessionInv
<1>4. ASSUME NEW o \in Ops, Session!Proceeds(o) PROVE SessionInv' /\ Session!NoLoginOnceRefused
  <2>1. Session!TypeOK'
    BY <1>0, <1>00, <1>4 DEF Session!Proceeds, Session!slot, Session!flags, Session!Goes,
                             Session!Takes, Session!TypeOK, Session!OpPhases, Session!Kinds,
                             Session!Nobody, SlotFollowed
  <2>2. SlotHeld'
    BY <1>0, <1>00, <1>4 DEF Session!Proceeds, Session!slot, Session!flags, Session!Goes,
                             Session!Takes, SlotHeld
  <2>3. SlotFollowed'
    BY <1>0, <1>00, <1>4 DEF Session!Proceeds, Session!slot, Session!flags, Session!Goes,
                             Session!Takes, SlotHeld, SlotFollowed
  <2>4. Session!LiveIsTruthful'
    BY <1>0, <1>00, <1>4 DEF Session!Proceeds, Session!slot, Session!flags, Session!Goes,
                             Session!Takes, Session!LiveIsTruthful, Session!IsLive,
                             Session!Possible, SlotHeld
  <2>5. Session!NoLoginOnceRefused
    BY <1>00, <1>4 DEF Session!Proceeds, Session!slot, Session!flags, Session!Goes, Session!Takes,
                       Session!NoLoginOnceRefused
  <2> QED BY <2>1, <2>2, <2>3, <2>4, <2>5 DEF SessionInv
<1>5. ASSUME NEW o \in Ops, Session!Rebuilds(o) PROVE SessionInv' /\ Session!NoLoginOnceRefused
  <2>1. Session!TypeOK'
    BY <1>0, <1>00, <1>5 DEF Session!Rebuilds, Session!slot, Session!flags, Session!Goes,
                             Session!Takes, Session!TypeOK, Session!OpPhases, Session!Kinds,
                             Session!Nobody, SlotFollowed
  <2>2. SlotHeld'
    BY <1>0, <1>00, <1>5 DEF Session!Rebuilds, Session!slot, Session!flags, Session!Goes,
                             Session!Takes, SlotHeld
  <2>3. SlotFollowed'
    BY <1>0, <1>00, <1>5 DEF Session!Rebuilds, Session!slot, Session!flags, Session!Goes,
                             Session!Takes, SlotHeld, SlotFollowed
  <2>4. Session!LiveIsTruthful'
    BY <1>0, <1>00, <1>5 DEF Session!Rebuilds, Session!slot, Session!flags, Session!Goes,
                             Session!Takes, Session!LiveIsTruthful, Session!IsLive,
                             Session!Possible, SlotHeld
  <2>5. Session!NoLoginOnceRefused
    BY <1>00, <1>5 DEF Session!Rebuilds, Session!slot, Session!flags, Session!Goes, Session!Takes,
                       Session!NoLoginOnceRefused
  <2> QED BY <2>1, <2>2, <2>3, <2>4, <2>5 DEF SessionInv
<1>6. ASSUME NEW o \in Ops, Session!Rebuilt(o) PROVE SessionInv' /\ Session!NoLoginOnceRefused
  <2>1. Session!TypeOK'
    BY <1>0, <1>00, <1>6 DEF Session!Rebuilt, Session!slot, Session!flags, Session!Goes,
                             Session!TypeOK, Session!OpPhases, Session!Kinds, Session!Nobody,
                             SlotFollowed
  <2>2. SlotHeld'
    BY <1>0, <1>00, <1>6 DEF Session!Rebuilt, Session!slot, Session!flags, Session!Goes, SlotHeld
  <2>3. SlotFollowed'
    BY <1>0, <1>00, <1>6 DEF Session!Rebuilt, Session!slot, Session!flags, Session!Goes, SlotHeld,
                             SlotFollowed
  <2>4. Session!LiveIsTruthful'
    BY <1>0, <1>00, <1>6 DEF Session!Rebuilt, Session!slot, Session!flags, Session!Goes,
                             Session!LiveIsTruthful, Session!IsLive, Session!Possible, SlotHeld
  <2>5. Session!NoLoginOnceRefused
    BY <1>00, <1>6 DEF Session!Rebuilt, Session!slot, Session!flags, Session!Goes,
                       Session!NoLoginOnceRefused
  <2> QED BY <2>1, <2>2, <2>3, <2>4, <2>5 DEF SessionInv
<1>7. ASSUME NEW o \in Ops, Session!RebuildRefused(o) PROVE SessionInv' /\ Session!NoLoginOnceRefused
  <2>1. Session!TypeOK'
    <3>1. /\ Session!Leaves(o) /\ refused' = TRUE /\ needs' = TRUE /\ turnedAway' \in BOOLEAN
          /\ UNCHANGED <<kind, cur, made, dead, trees, hasSession, ended, adopting, trouble, known, dropped>>
      BY <1>0, <1>7 DEF Session!RebuildRefused, Session!slot, Session!TypeOK
    <3>2. /\ phase' \in [Ops -> Session!OpPhases] /\ on' \in [Ops -> 0 .. made]
          /\ lock' \in Ops \cup {Session!Nobody}
      BY <1>0, <3>1, SessionLeaves
    <3> QED BY <1>0, <3>1, <3>2 DEF Session!TypeOK, Session!OpPhases, Session!Kinds, Session!Nobody
  <2>2. SlotHeld'
    BY <1>0, <1>00, <1>7 DEF Session!RebuildRefused, Session!slot, Session!flags, Session!Goes,
                             Session!Leaves, Session!Unlock, SlotHeld
  <2>3. SlotFollowed'
    BY <1>0, <1>00, <1>7 DEF Session!RebuildRefused, Session!slot, Session!flags, Session!Goes,
                             Session!Leaves, Session!Unlock, SlotHeld, SlotFollowed
  <2>4. Session!LiveIsTruthful'
    BY <1>0, <1>00, <1>7 DEF Session!RebuildRefused, Session!slot, Session!flags, Session!Goes,
                             Session!Leaves, Session!Unlock, Session!LiveIsTruthful,
                             Session!IsLive, Session!Possible, SlotHeld
  <2>5. Session!NoLoginOnceRefused
    BY <1>00, <1>7 DEF Session!RebuildRefused, Session!slot, Session!flags, Session!Goes,
                       Session!Leaves, Session!Unlock, Session!NoLoginOnceRefused
  <2> QED BY <2>1, <2>2, <2>3, <2>4, <2>5 DEF SessionInv
<1>8. ASSUME NEW o \in Ops, Session!RebuildFails(o) PROVE SessionInv' /\ Session!NoLoginOnceRefused
  <2>1. Session!TypeOK'
    BY <1>0, <1>00, <1>8 DEF Session!RebuildFails, Session!slot, Session!flags, Session!Goes,
                             Session!Leaves, Session!Unlock, Session!TypeOK, Session!OpPhases,
                             Session!Kinds, Session!Nobody, SlotFollowed
  <2>2. SlotHeld'
    BY <1>0, <1>00, <1>8 DEF Session!RebuildFails, Session!slot, Session!flags, Session!Goes,
                             Session!Leaves, Session!Unlock, SlotHeld
  <2>3. SlotFollowed'
    BY <1>0, <1>00, <1>8 DEF Session!RebuildFails, Session!slot, Session!flags, Session!Goes,
                             Session!Leaves, Session!Unlock, SlotHeld, SlotFollowed
  <2>4. Session!LiveIsTruthful'
    BY <1>0, <1>00, <1>8 DEF Session!RebuildFails, Session!slot, Session!flags, Session!Goes,
                             Session!Leaves, Session!Unlock, Session!LiveIsTruthful,
                             Session!IsLive, Session!Possible, SlotHeld
  <2>5. Session!NoLoginOnceRefused
    BY <1>00, <1>8 DEF Session!RebuildFails, Session!slot, Session!flags, Session!Goes,
                       Session!Leaves, Session!Unlock, Session!NoLoginOnceRefused
  <2> QED BY <2>1, <2>2, <2>3, <2>4, <2>5 DEF SessionInv
<1>9. ASSUME NEW o \in Ops, Session!Attached(o) PROVE SessionInv' /\ Session!NoLoginOnceRefused
  <2>1. Session!TypeOK'
    BY <1>0, <1>00, <1>9 DEF Session!Attached, Session!slot, Session!flags, Session!Goes,
                             Session!Unlock, Session!TypeOK, Session!OpPhases, Session!Kinds,
                             Session!Nobody, SlotFollowed
  <2>2. SlotHeld'
    BY <1>0, <1>00, <1>9 DEF Session!Attached, Session!slot, Session!flags, Session!Goes,
                             Session!Unlock, SlotHeld
  <2>3. SlotFollowed'
    BY <1>0, <1>00, <1>9 DEF Session!Attached, Session!slot, Session!flags, Session!Goes,
                             Session!Unlock, SlotHeld, SlotFollowed
  <2>4. Session!LiveIsTruthful'
    BY <1>0, <1>00, <1>9 DEF Session!Attached, Session!slot, Session!flags, Session!Goes,
                             Session!Unlock, Session!LiveIsTruthful, Session!IsLive,
                             Session!Possible, SlotHeld
  <2>5. Session!NoLoginOnceRefused
    BY <1>00, <1>9 DEF Session!Attached, Session!slot, Session!flags, Session!Goes, Session!Unlock,
                       Session!NoLoginOnceRefused
  <2> QED BY <2>1, <2>2, <2>3, <2>4, <2>5 DEF SessionInv
<1>10. ASSUME NEW o \in Ops, Session!Answered(o) PROVE SessionInv' /\ Session!NoLoginOnceRefused
  <2>1. Session!TypeOK'
    BY <1>0, <1>00, <1>10 DEF Session!Answered, Session!slot, Session!flags, Session!Goes,
                              Session!Leaves, Session!Unlock, Session!TypeOK, Session!OpPhases,
                              Session!Kinds, Session!Nobody, SlotFollowed
  <2>2. SlotHeld'
    BY <1>0, <1>00, <1>10 DEF Session!Answered, Session!slot, Session!flags, Session!Goes,
                              Session!Leaves, Session!Unlock, SlotHeld
  <2>3. SlotFollowed'
    BY <1>0, <1>00, <1>10 DEF Session!Answered, Session!slot, Session!flags, Session!Goes,
                              Session!Leaves, Session!Unlock, SlotHeld, SlotFollowed
  <2>4. Session!LiveIsTruthful'
    BY <1>0, <1>00, <1>10 DEF Session!Answered, Session!slot, Session!flags, Session!Goes,
                              Session!Leaves, Session!Unlock, Session!LiveIsTruthful,
                              Session!IsLive, Session!Possible, SlotHeld
  <2>5. Session!NoLoginOnceRefused
    BY <1>00, <1>10 DEF Session!Answered, Session!slot, Session!flags, Session!Goes,
                        Session!Leaves, Session!Unlock, Session!NoLoginOnceRefused
  <2> QED BY <2>1, <2>2, <2>3, <2>4, <2>5 DEF SessionInv
<1>11. ASSUME NEW o \in Ops, Session!FindsDead(o) PROVE SessionInv' /\ Session!NoLoginOnceRefused
  <2>1. Session!TypeOK'
    <3>1. /\ Session!Leaves(o) /\ needs' \in BOOLEAN /\ ended' \in BOOLEAN /\ known' \subseteq 1 .. made
          /\ UNCHANGED <<kind, cur, made, dead, trees, refused, turnedAway, hasSession, adopting, trouble, dropped>>
      BY <1>0, <1>00, <1>11 DEF Session!FindsDead, Session!FlagIfLost, Session!slot, Session!TypeOK
    <3>2. /\ phase' \in [Ops -> Session!OpPhases] /\ on' \in [Ops -> 0 .. made]
          /\ lock' \in Ops \cup {Session!Nobody}
      BY <1>0, <3>1, SessionLeaves
    <3> QED BY <1>0, <3>1, <3>2 DEF Session!TypeOK, Session!OpPhases, Session!Kinds, Session!Nobody
  <2>2. SlotHeld'
    BY <1>0, <1>00, <1>11 DEF Session!FindsDead, Session!slot, Session!flags, Session!Goes,
                              Session!Leaves, Session!Unlock, Session!FlagIfLost, SlotHeld
  <2>3. SlotFollowed'
    BY <1>0, <1>00, <1>11 DEF Session!FindsDead, Session!slot, Session!flags, Session!Goes,
                              Session!Leaves, Session!Unlock, Session!FlagIfLost, SlotHeld,
                              SlotFollowed
  <2>4. Session!LiveIsTruthful'
    BY <1>0, <1>00, <1>11 DEF Session!FindsDead, Session!slot, Session!flags, Session!Goes,
                              Session!Leaves, Session!Unlock, Session!FlagIfLost,
                              Session!LiveIsTruthful, Session!IsLive, Session!Possible, SlotHeld
  <2>5. Session!NoLoginOnceRefused
    BY <1>00, <1>11 DEF Session!FindsDead, Session!slot, Session!flags, Session!Goes,
                        Session!Leaves, Session!Unlock, Session!FlagIfLost,
                        Session!NoLoginOnceRefused
  <2> QED BY <2>1, <2>2, <2>3, <2>4, <2>5 DEF SessionInv
<1>12. ASSUME NEW o \in Ops, Session!TimesOut(o) PROVE SessionInv' /\ Session!NoLoginOnceRefused
  <2>1. Session!TypeOK'
    <3>1. /\ Session!Leaves(o) /\ needs' \in BOOLEAN /\ ended' \in BOOLEAN
          /\ trouble < MaxTrouble /\ trouble' = trouble + 1
          /\ UNCHANGED <<kind, cur, made, dead, trees, refused, turnedAway, hasSession, adopting, dropped>>
      BY <1>0, <1>00, <1>12 DEF Session!TimesOut, Session!FlagIfLost, Session!slot, Session!TypeOK
    <3>2. /\ phase' \in [Ops -> Session!OpPhases] /\ on' \in [Ops -> 0 .. made]
          /\ lock' \in Ops \cup {Session!Nobody}
      BY <1>0, <3>1, SessionLeaves
    <3>3. on[o] \in 1 .. made
      BY <1>0, <1>00, <1>12 DEF Session!TimesOut, SlotFollowed
    <3>4. known' \subseteq 1 .. made
      BY <1>00, <1>12, <3>3 DEF Session!TimesOut
    <3>5. trouble' \in 0 .. MaxTrouble
      BY <1>00, <3>1
    <3> QED BY <1>0, <3>1, <3>2, <3>4, <3>5 DEF Session!TypeOK, Session!OpPhases, Session!Kinds,
        Session!Nobody
  <2>2. SlotHeld'
    BY <1>0, <1>00, <1>12 DEF Session!TimesOut, Session!slot, Session!flags, Session!Goes,
                              Session!Leaves, Session!Unlock, Session!FlagIfLost, SlotHeld
  <2>3. SlotFollowed'
    BY <1>0, <1>00, <1>12 DEF Session!TimesOut, Session!slot, Session!flags, Session!Goes,
                              Session!Leaves, Session!Unlock, Session!FlagIfLost, SlotHeld,
                              SlotFollowed
  <2>4. Session!LiveIsTruthful'
    BY <1>0, <1>00, <1>12 DEF Session!TimesOut, Session!slot, Session!flags, Session!Goes,
                              Session!Leaves, Session!Unlock, Session!FlagIfLost,
                              Session!LiveIsTruthful, Session!IsLive, Session!Possible, SlotHeld
  <2>5. Session!NoLoginOnceRefused
    BY <1>00, <1>12 DEF Session!TimesOut, Session!slot, Session!flags, Session!Goes,
                        Session!Leaves, Session!Unlock, Session!FlagIfLost,
                        Session!NoLoginOnceRefused
  <2> QED BY <2>1, <2>2, <2>3, <2>4, <2>5 DEF SessionInv
<1>13. ASSUME NEW o \in Ops, Session!Dropped(o) PROVE SessionInv' /\ Session!NoLoginOnceRefused
  <2>1. Session!TypeOK'
    BY <1>0, <1>00, <1>13 DEF Session!Dropped, Session!slot, Session!flags, Session!Goes,
                              Session!Leaves, Session!Unlock, Session!TypeOK, Session!OpPhases,
                              Session!Kinds, Session!Nobody, SlotFollowed
  <2>2. SlotHeld'
    BY <1>0, <1>00, <1>13 DEF Session!Dropped, Session!slot, Session!flags, Session!Goes,
                              Session!Leaves, Session!Unlock, SlotHeld
  <2>3. SlotFollowed'
    BY <1>0, <1>00, <1>13 DEF Session!Dropped, Session!slot, Session!flags, Session!Goes,
                              Session!Leaves, Session!Unlock, SlotHeld, SlotFollowed
  <2>4. Session!LiveIsTruthful'
    BY <1>0, <1>00, <1>13 DEF Session!Dropped, Session!slot, Session!flags, Session!Goes,
                              Session!Leaves, Session!Unlock, Session!LiveIsTruthful,
                              Session!IsLive, Session!Possible, SlotHeld
  <2>5. Session!NoLoginOnceRefused
    BY <1>00, <1>13 DEF Session!Dropped, Session!slot, Session!flags, Session!Goes, Session!Leaves,
                        Session!Unlock, Session!NoLoginOnceRefused
  <2> QED BY <2>1, <2>2, <2>3, <2>4, <2>5 DEF SessionInv
<1>14. ASSUME NEW a \in Adopters, Session!AdoptBegins(a) PROVE SessionInv' /\ Session!NoLoginOnceRefused
  <2>1. Session!TypeOK'
    BY <1>0, <1>00, <1>14 DEF Session!AdoptBegins, Session!slot, Session!flags, Session!TypeOK,
                              Session!OpPhases, Session!Kinds, Session!Nobody, SlotFollowed
  <2>2. SlotHeld'
    BY <1>0, <1>00, <1>14 DEF Session!AdoptBegins, Session!slot, Session!flags, SlotHeld
  <2>3. SlotFollowed'
    BY <1>0, <1>00, <1>14 DEF Session!AdoptBegins, Session!slot, Session!flags, SlotHeld,
                              SlotFollowed
  <2>4. Session!LiveIsTruthful'
    BY <1>0, <1>00, <1>14 DEF Session!AdoptBegins, Session!slot, Session!flags,
                              Session!LiveIsTruthful, Session!IsLive, Session!Possible, SlotHeld
  <2>5. Session!NoLoginOnceRefused
    BY <1>00, <1>14 DEF Session!AdoptBegins, Session!slot, Session!flags, Session!NoLoginOnceRefused
  <2> QED BY <2>1, <2>2, <2>3, <2>4, <2>5 DEF SessionInv
<1>15. ASSUME NEW a \in Adopters, Session!AdoptRefused(a) PROVE SessionInv' /\ Session!NoLoginOnceRefused
  <2>1. Session!TypeOK'
    BY <1>0, <1>00, <1>15 DEF Session!AdoptRefused, Session!slot, Session!flags, Session!TypeOK,
                              Session!OpPhases, Session!Kinds, Session!Nobody, SlotFollowed
  <2>2. SlotHeld'
    BY <1>0, <1>00, <1>15 DEF Session!AdoptRefused, Session!slot, Session!flags, SlotHeld
  <2>3. SlotFollowed'
    BY <1>0, <1>00, <1>15 DEF Session!AdoptRefused, Session!slot, Session!flags, SlotHeld,
                              SlotFollowed
  <2>4. Session!LiveIsTruthful'
    BY <1>0, <1>00, <1>15 DEF Session!AdoptRefused, Session!slot, Session!flags,
                              Session!LiveIsTruthful, Session!IsLive, Session!Possible, SlotHeld
  <2>5. Session!NoLoginOnceRefused
    BY <1>00, <1>15 DEF Session!AdoptRefused, Session!slot, Session!flags,
                        Session!NoLoginOnceRefused
  <2> QED BY <2>1, <2>2, <2>3, <2>4, <2>5 DEF SessionInv
<1>16. ASSUME NEW a \in Adopters, Session!AdoptFails(a) PROVE SessionInv' /\ Session!NoLoginOnceRefused
  <2>1. Session!TypeOK'
    BY <1>0, <1>00, <1>16 DEF Session!AdoptFails, Session!slot, Session!flags, Session!TypeOK,
                              Session!OpPhases, Session!Kinds, Session!Nobody, SlotFollowed
  <2>2. SlotHeld'
    BY <1>0, <1>00, <1>16 DEF Session!AdoptFails, Session!slot, Session!flags, SlotHeld
  <2>3. SlotFollowed'
    BY <1>0, <1>00, <1>16 DEF Session!AdoptFails, Session!slot, Session!flags, SlotHeld,
                              SlotFollowed
  <2>4. Session!LiveIsTruthful'
    BY <1>0, <1>00, <1>16 DEF Session!AdoptFails, Session!slot, Session!flags,
                              Session!LiveIsTruthful, Session!IsLive, Session!Possible, SlotHeld
  <2>5. Session!NoLoginOnceRefused
    BY <1>00, <1>16 DEF Session!AdoptFails, Session!slot, Session!flags, Session!NoLoginOnceRefused
  <2> QED BY <2>1, <2>2, <2>3, <2>4, <2>5 DEF SessionInv
<1>17. ASSUME NEW a \in Adopters, Session!AdoptDialed(a) PROVE SessionInv' /\ Session!NoLoginOnceRefused
  <2>1. Session!TypeOK'
    BY <1>0, <1>00, <1>17 DEF Session!AdoptDialed, Session!slot, Session!flags, Session!TypeOK,
                              Session!OpPhases, Session!Kinds, Session!Nobody, SlotFollowed
  <2>2. SlotHeld'
    BY <1>0, <1>00, <1>17 DEF Session!AdoptDialed, Session!slot, Session!flags, SlotHeld
  <2>3. SlotFollowed'
    BY <1>0, <1>00, <1>17 DEF Session!AdoptDialed, Session!slot, Session!flags, SlotHeld,
                              SlotFollowed
  <2>4. Session!LiveIsTruthful'
    BY <1>0, <1>00, <1>17 DEF Session!AdoptDialed, Session!slot, Session!flags,
                              Session!LiveIsTruthful, Session!IsLive, Session!Possible, SlotHeld
  <2>5. Session!NoLoginOnceRefused
    BY <1>00, <1>17 DEF Session!AdoptDialed, Session!slot, Session!flags, Session!NoLoginOnceRefused
  <2> QED BY <2>1, <2>2, <2>3, <2>4, <2>5 DEF SessionInv
<1>18. ASSUME NEW a \in Adopters, Session!Swap(a) PROVE SessionInv' /\ Session!NoLoginOnceRefused
  <2>1. Session!TypeOK'
    <3>1. /\ made' = made + 1 /\ cur' = made + 1 /\ trees' = 0
          /\ hasSession' = TRUE /\ needs' = FALSE /\ ended' = FALSE
          /\ adopting' = [adopting EXCEPT ![a] = "done"]
          /\ UNCHANGED <<kind, dead, lock, refused, turnedAway, phase, on, trouble, known, dropped>>
      BY <1>18 DEF Session!Swap
    <3>2. /\ made' \in Nat /\ cur' \in 0 .. made' /\ trees' \in 0 .. made'
          /\ dead' \subseteq 1 .. made' /\ known' \subseteq 1 .. made' /\ on' \in [Ops -> 0 .. made']
      BY <1>00, <3>1
    <3>3. adopting' \in [Adopters -> {"idle", "dialing", "swapping", "done"}]
      BY <1>00, <3>1
    <3> QED BY <1>0, <3>1, <3>2, <3>3 DEF Session!TypeOK, Session!OpPhases, Session!Kinds,
                                        Session!Nobody
  <2>2. SlotHeld'
    BY <1>0, <1>00, <1>18 DEF Session!Swap, Session!slot, Session!flags, SlotHeld
  <2>3. SlotFollowed'
    BY <1>0, <1>00, <1>18 DEF Session!Swap, Session!slot, Session!flags, SlotHeld, SlotFollowed
  <2>4. Session!LiveIsTruthful'
    BY <1>0, <1>00, <1>18 DEF Session!Swap, Session!slot, Session!flags, Session!LiveIsTruthful,
                              Session!IsLive, Session!Possible, SlotHeld
  <2>5. Session!NoLoginOnceRefused
    BY <1>00, <1>18 DEF Session!Swap, Session!slot, Session!flags, Session!NoLoginOnceRefused
  <2> QED BY <2>1, <2>2, <2>3, <2>4, <2>5 DEF SessionInv
<1>19. ASSUME Session!LaneRefused PROVE SessionInv' /\ Session!NoLoginOnceRefused
  <2>1. Session!TypeOK'
    BY <1>0, <1>00, <1>19 DEF Session!LaneRefused, Session!slot, Session!flags, Session!TypeOK,
                              Session!OpPhases, Session!Kinds, Session!Nobody, SlotFollowed
  <2>2. SlotHeld'
    BY <1>0, <1>00, <1>19 DEF Session!LaneRefused, Session!slot, Session!flags, SlotHeld
  <2>3. SlotFollowed'
    BY <1>0, <1>00, <1>19 DEF Session!LaneRefused, Session!slot, Session!flags, SlotHeld,
                              SlotFollowed
  <2>4. Session!LiveIsTruthful'
    BY <1>0, <1>00, <1>19 DEF Session!LaneRefused, Session!slot, Session!flags,
                              Session!LiveIsTruthful, Session!IsLive, Session!Possible, SlotHeld
  <2>5. Session!NoLoginOnceRefused
    BY <1>00, <1>19 DEF Session!LaneRefused, Session!slot, Session!flags, Session!NoLoginOnceRefused
  <2> QED BY <2>1, <2>2, <2>3, <2>4, <2>5 DEF SessionInv
<1>20. ASSUME NEW s \in 1 .. made, Session!LinkDies(s) PROVE SessionInv' /\ Session!NoLoginOnceRefused
  <2>1. Session!TypeOK'
    BY <1>0, <1>00, <1>20 DEF Session!LinkDies, Session!slot, Session!flags, Session!TypeOK,
                              Session!OpPhases, Session!Kinds, Session!Nobody, SlotFollowed
  <2>2. SlotHeld'
    BY <1>0, <1>00, <1>20 DEF Session!LinkDies, Session!slot, Session!flags, SlotHeld
  <2>3. SlotFollowed'
    BY <1>0, <1>00, <1>20 DEF Session!LinkDies, Session!slot, Session!flags, SlotHeld, SlotFollowed
  <2>4. Session!LiveIsTruthful'
    BY <1>0, <1>00, <1>20 DEF Session!LinkDies, Session!slot, Session!flags,
                              Session!LiveIsTruthful, Session!IsLive, Session!Possible, SlotHeld
  <2>5. Session!NoLoginOnceRefused
    BY <1>00, <1>20 DEF Session!LinkDies, Session!slot, Session!flags, Session!NoLoginOnceRefused
  <2> QED BY <2>1, <2>2, <2>3, <2>4, <2>5 DEF SessionInv
<1> QED BY <1>1, <1>2, <1>3, <1>4, <1>5, <1>6, <1>7, <1>8, <1>9, <1>10, <1>11, <1>12, <1>13, <1>14,
   <1>15, <1>16, <1>17, <1>18, <1>19, <1>20
        DEF Session!Next, Session!Enters, Session!Dials, Session!Ends, Session!Adopts

\* A step of the run in this part is one of the module's, or none.
LEMMA SessionMoves ==
    ASSUME [SuiteNext]_suiteVars, part = "session" \/ part' = "session"
    PROVE  part' = part /\ [Session!Next]_(Session!vars)
<1>1. part' = part
  BY DEF SuiteNext, suiteVars, OnlyUpload, OnlyGate, OnlySession, OnlyLanes, OnlyWrites,
                OnlyDownloads, OnlyWinfs
<1> QED BY <1>1 DEF SuiteNext, suiteVars, OnlyUpload, OnlyGate, OnlySession, OnlyLanes, OnlyWrites,
                OnlyDownloads, OnlyWinfs, Session!vars, Session!slot, Session!flags

\* Trees and locked operations belong to the session in the slot, the badge does not call
\* live a session found dead, and once a login is refused no other is started.
THEOREM SessionSound == SuiteSpec => SessionHolds
<1> DEFINE Inv == part = "session" => SessionInv
           Kept == part = "session" => Session!TypeOK /\ Session!SlotIsCoherent /\ Session!LiveIsTruthful
           Final == part = "session" => Session!NoLoginOnceRefused
<1>1. SuiteInit => Inv
  <2>1. SUFFICES ASSUME SuiteInit, part = "session" PROVE SessionInv
    OBVIOUS
  <2>2. Session!Init
    BY <2>1 DEF SuiteInit
  <2> QED BY <2>2, SessionInit, SessionOk
<1>2. Inv /\ [SuiteNext]_suiteVars => Inv'
  <2>1. SUFFICES ASSUME Inv, [SuiteNext]_suiteVars, part' = "session" PROVE SessionInv'
    OBVIOUS
  <2>2. part' = part /\ [Session!Next]_(Session!vars)
    BY <2>1, SessionMoves
  <2> QED BY <2>1, <2>2, SessionStep, SessionOk
<1>3. Inv => Kept
  <2>1. SUFFICES ASSUME SessionInv PROVE Session!SlotIsCoherent
    BY DEF SessionInv
  <2>2. Locked \subseteq Ops
    BY SessionOk, SessionConstants
  <2>3. SlotFollowed
    BY <2>1 DEF SessionInv
  <2> QED BY <2>2, <2>3 DEF SlotFollowed, Session!SlotIsCoherent
<1>4. Inv /\ [SuiteNext]_suiteVars => Final
  <2>1. SUFFICES ASSUME Inv, [SuiteNext]_suiteVars, part = "session" PROVE Session!NoLoginOnceRefused
    OBVIOUS
  <2>2. part' = part /\ [Session!Next]_(Session!vars)
    BY <2>1, SessionMoves
  <2> QED BY <2>1, <2>2, SessionStep, SessionOk
<1>5. SuiteSpec => []Inv
  BY <1>1, <1>2, PTL DEF SuiteSpec
<1>6. SuiteSpec => []Kept
  BY <1>3, <1>5, PTL
<1>7. SuiteSpec => [][Final]_suiteVars
  BY <1>4, <1>5, PTL DEF SuiteSpec
<1> QED BY <1>6, <1>7 DEF SessionHolds

-----------------------------------------------------------------------------
(* ReadLanes. *)

\* The types the proof goes by: the pool and the task that opens lanes, the handles, and
\* the pieces of reads.
PoolTypes ==
    /\ generation \in 0 .. MaxMoves
    /\ moving \in BOOLEAN
    /\ laneOf \in [Lanes -> 0 .. MaxMoves]
    /\ live \subseteq Lanes /\ unopened \subseteq Lanes /\ leaving \subseteq Lanes
    /\ draining \subseteq Lanes /\ due \subseteq Lanes /\ ending \subseteq Lanes
    /\ opener \in {"off", "between", "dialing"}
    /\ openFor \in 0 .. MaxMoves
    /\ failures \in 0 .. MaxFailures /\ waiting \in BOOLEAN
HandleTypes ==
    /\ cached \in [Lanes -> Handles \cup {NoHandle}]
    /\ parked \in [Lanes -> SUBSET Handles]
    /\ closing \subseteq Handles /\ unused \subseteq Handles /\ lanesLate \subseteq Handles
    /\ on \in [Handles -> Lanes \cup {NoLane}]
PieceTypes ==
    /\ phase \in [Pieces -> Lane!PiecePhases]
    /\ lane \in [Pieces -> Lanes \cup {NoLane}]
    /\ hold \in [Pieces -> Handles \cup {NoHandle}]
    /\ lost \in [Pieces -> {"no", "failed", "gone"}]
    /\ reads \in 0 .. MaxReads

\* A lane is in one place at a time.
ListsApart ==
    /\ live \cap leaving = {} /\ live \cap draining = {} /\ live \cap unopened = {}
    /\ leaving \cap draining = {} /\ leaving \cap unopened = {}
    /\ draining \cap unopened = {} /\ ending \subseteq draining

\* There are finitely many live lanes, and the background task has an attempt left.
PoolKept ==
    /\ PoolTypes /\ Lane!LanesAreCurrent
    /\ IsFiniteSet(live) /\ ListsApart
    /\ opener # "off" => failures < MaxFailures

\* A handle a cache has, in use or parked, is its own lane's and is neither on its way to
\* be closed nor still to be opened; it is cached or parked, not both.  One that is still
\* to be opened is nobody's.
HandlesApart ==
    /\ \A l \in Lanes : \A h \in Lane!Entry(l) \cup parked[l] :
          on[h] = l /\ h \notin closing /\ h \notin unused
    /\ \A l \in Lanes : cached[l] \notin parked[l]
    /\ \A h \in unused : h \notin closing /\ ~ Lane!UsedBy(h, hold)

HandlesOnce == HandleTypes /\ HandlesApart /\ Lane!NoneClosedInUse

\* A piece that is on a lane names it.
PiecesPlaced ==
    /\ PieceTypes
    /\ \A p \in Pieces : phase[p] \in {"looking", "opening", "reading"} => lane[p] \in Lanes

\* What a cache has open is on a lane that a list has, or is about to have.
Found ==
    \A l \in Lanes : \A h \in Lane!Entry(l) \cup parked[l] : Lane!Findable(l) \/ h \in lanesLate

\* The handle a forget is followed for is in its lane's cache yet.
Owing == owed \in Lane!Entry(on[owed])

\* While it is, the first look saw its lane, or the second will if the lane is on the
\* draining list by then; and what both looks saw is still to be taken.
SweepKept ==
    /\ sweep \in {"off", "looked", "taking"} /\ owed \in Handles \cup {NoHandle}
    /\ seen \in BOOLEAN /\ straddled \in BOOLEAN
    /\ sweep # "off" => owed \in Handles /\ owed \notin unused /\ on[owed] \in Lanes
    /\ sweep = "looked" /\ Owing =>
          \/ seen \/ (straddled /\ on[owed] \in leaving)
          \/ on[owed] \in draining \ ending \/ owed \in lanesLate
    /\ sweep = "taking" /\ Owing => seen \/ straddled \/ owed \in lanesLate

LaneInv == PoolKept /\ HandlesOnce /\ PiecesPlaced /\ Found /\ SweepKept

\* What the assumption says, constant by constant.
LEMMA LaneConstants ==
    ASSUME Lane!LanesAssumption
    PROVE  /\ Wanted \in Nat /\ MaxFailures \in Nat /\ MaxFailures > 0 /\ MaxMoves \in Nat
           /\ MaxReads \in Nat /\ NoHandle \notin Handles /\ NoLane \notin Lanes
  BY DEF Lane!LanesAssumption

\* ReadLanes counts with the library's Cardinality.
LEMMA LaneCounts == \A S : Lane!Cardinality(S) = Cardinality(S)
  BY Zenon DEF Lane!Cardinality, Cardinality

\* It holds before the first read.
LEMMA LaneInit == ASSUME Lane!LanesAssumption, Lane!Init PROVE LaneInv
<1> USE LaneConstants
<1>1. IsFiniteSet(live) /\ Cardinality(live) = 0
  BY FS_EmptySet DEF Lane!Init
<1>2. PoolKept
  <2>1. PoolTypes
    <3>1. 0 \in 0 .. MaxMoves /\ 0 \in 0 .. MaxFailures
      OBVIOUS
    <3> QED BY <3>1 DEF Lane!Init, PoolTypes
  <2>2. Lane!LanesAreCurrent
    <3>1. 0 <= Wanted
      OBVIOUS
    <3>2. live = {} /\ Lane!Cardinality(live) <= Wanted
      BY <1>1, <3>1, LaneCounts DEF Lane!Init
    <3> QED BY <3>2 DEF Lane!LanesAreCurrent
  <2> QED BY <1>1, <2>1, <2>2 DEF Lane!Init, PoolKept, ListsApart
<1>3. HandlesOnce
  <2>1. HandleTypes
    BY DEF Lane!Init, HandleTypes
  <2>2. \A l \in Lanes : Lane!Entry(l) = {} /\ parked[l] = {} /\ cached[l] = NoHandle
    BY DEF Lane!Init, Lane!Entry
  <2>3. \A h \in Handles : ~ Lane!UsedBy(h, hold)
    BY DEF Lane!Init, Lane!UsedBy
  <2> QED BY <2>1, <2>2, <2>3 DEF Lane!Init, HandlesOnce, HandlesApart, Lane!NoneClosedInUse
<1>4. PiecesPlaced
  <2>1. PieceTypes
    BY DEF Lane!Init, PieceTypes, Lane!PiecePhases
  <2> QED BY <2>1 DEF Lane!Init, PiecesPlaced
<1>5. Found /\ SweepKept
  BY DEF Lane!Init, Found, SweepKept, Lane!Entry
<1> QED BY <1>2, <1>3, <1>4, <1>5 DEF LaneInv

\* What the invariant says is what the run checks.
LEMMA LaneTyped ==
    ASSUME LaneInv
    PROVE  /\ Lane!TypeOK /\ Lane!LanesAreCurrent
           /\ Lane!NoneClosedInUse /\ Lane!InvalidationReaches
<1>1. Lane!TypeOK
  BY DEF LaneInv, PoolKept, PoolTypes, HandlesOnce, HandleTypes, PiecesPlaced, PieceTypes,
         SweepKept, Lane!TypeOK
<1>2. Lane!InvalidationReaches
  BY DEF LaneInv, Found, SweepKept, Owing, Lane!InvalidationReaches
<1> QED BY <1>1, <1>2 DEF LaneInv, PoolKept, HandlesOnce

\* What the caches have after a step is what they had: nothing comes to be cached, and what
\* is parked was there.
HeldKept ==
    \A l \in Lanes : /\ Lane!Entry(l)' \subseteq Lane!Entry(l)
                     /\ Lane!Entry(l)' \cup parked'[l] \subseteq Lane!Entry(l) \cup parked[l]

\* The lanes go from list to list, and one whose draining ends keeps nothing.
PlacesKept ==
    \A l \in Lanes :
        /\ l \in live => l \in live' \cup leaving'
        /\ l \in leaving => l \in leaving' \cup (draining' \ ending')
        /\ l \in draining \ ending =>
               l \in draining' \ ending' \/ (Lane!Entry(l)' = {} /\ parked'[l] = {})

\* close_in: whatever the caches let go of, nothing in use is closed and nothing is in two
\* places, as long as what is let go of leaves the cache it was in.
LEMMA LaneCloses ==
    ASSUME Lane!LanesAssumption, HandlesOnce, PieceTypes,
           NEW drop \in [Lanes -> SUBSET Handles], NEW stay \in [Lanes -> SUBSET Handles], NEW held,
           \A l \in Lanes : /\ drop[l] \subseteq Lane!Entry(l) \cup parked[l]
                            /\ stay[l] \subseteq parked[l] /\ stay[l] \cap drop[l] = {},
           Lane!CloseOrPark(drop, stay, held),
           cached' \in [Lanes -> Handles \cup {NoHandle}],
           \A l \in Lanes : \/ cached'[l] = NoHandle
                            \/ cached'[l] = cached[l] /\ cached[l] \notin drop[l],
           UNCHANGED <<unused, on, lanesLate>>,
           \A h \in Handles : Lane!UsedBy(h, held) => Lane!UsedBy(h, hold),
           \A h \in Handles : Lane!UsedBy(h, hold') =>
                Lane!UsedBy(h, held) \/ \E l \in Lanes : h = cached[l] /\ cached'[l] = cached[l]
    PROVE  /\ HandlesOnce'
           /\ HeldKept
<1> USE LaneConstants
<1>1. /\ parked' = [l \in Lanes |-> stay[l] \cup {h \in drop[l] : Lane!UsedBy(h, held)}]
      /\ closing' = closing \cup {h \in UNION {drop[l] : l \in Lanes} : ~ Lane!UsedBy(h, held)}
  BY DEF Lane!CloseOrPark
<1>2. \A l \in Lanes : Lane!Entry(l) \subseteq Handles /\ parked[l] \subseteq Handles
  BY DEF HandlesOnce, HandleTypes, Lane!Entry
<1>3. HandleTypes'
  BY <1>1, <1>2 DEF HandlesOnce, HandleTypes
<1>4. \A l \in Lanes : \A h \in parked'[l] :
          h \in stay[l] \/ (h \in drop[l] /\ Lane!UsedBy(h, held))
  BY <1>1
<1>5. \A h \in closing' : h \in closing \/ (~ Lane!UsedBy(h, held) /\ \E l \in Lanes : h \in drop[l])
  BY <1>1
<1>6. \A l \in Lanes : /\ Lane!Entry(l)' \subseteq Lane!Entry(l) \ drop[l]
                       /\ parked'[l] \subseteq Lane!Entry(l) \cup parked[l]
  BY <1>4 DEF Lane!Entry
<1>7. \A l \in Lanes : \A h \in Lane!Entry(l) \cup parked[l] :
          on[h] = l /\ h \notin closing /\ h \notin unused
  BY DEF HandlesOnce, HandlesApart
<1>8. ASSUME NEW l \in Lanes, NEW h \in Lane!Entry(l)' \cup parked'[l]
      PROVE  on'[h] = l /\ h \notin closing' /\ h \notin unused'
  <2>1. on[h] = l /\ h \notin closing /\ h \notin unused
    BY <1>6, <1>7, <1>8
  <2>2. h \notin closing'
    <3>1. SUFFICES ASSUME h \in closing' PROVE FALSE
      OBVIOUS
    <3>2. PICK m \in Lanes : h \in drop[m] /\ ~ Lane!UsedBy(h, held)
      BY <1>5, <2>1, <3>1
    <3>3. m = l
      BY <1>7, <2>1, <3>2
    <3> QED BY <1>4, <1>6, <1>8, <3>2, <3>3
  <2> QED BY <2>1, <2>2
<1>9. ASSUME NEW l \in Lanes PROVE cached'[l] \notin parked'[l]
  <2>1. CASE cached'[l] = NoHandle
    BY <1>2, <1>6, <2>1
  <2>2. CASE cached'[l] = cached[l] /\ cached[l] \notin drop[l]
    BY <1>4, <2>2 DEF HandlesOnce, HandlesApart
  <2> QED BY <2>1, <2>2
<1>10. ASSUME NEW h \in unused' PROVE h \notin closing' /\ ~ Lane!UsedBy(h, hold')
  <2>1. h \in Handles /\ h \in unused /\ h \notin closing /\ ~ Lane!UsedBy(h, hold)
    BY <1>10 DEF HandlesOnce, HandlesApart, HandleTypes
  <2>2. \A l \in Lanes : h \notin Lane!Entry(l) /\ h \notin parked[l]
    BY <1>7, <2>1
  <2>3. h \notin closing'
    BY <1>5, <2>1, <2>2
  <2>4. \A l \in Lanes : h # cached[l]
    BY <2>1, <2>2 DEF Lane!Entry
  <2> QED BY <2>1, <2>3, <2>4
<1>11. ASSUME NEW h \in closing' PROVE ~ Lane!UsedBy(h, hold')
  <2>1. SUFFICES ASSUME Lane!UsedBy(h, hold') PROVE FALSE
    OBVIOUS
  <2>2. h \in Handles
    BY <1>3, <1>11 DEF HandleTypes
  <2>3. CASE h \in closing
    <3>1. ~ Lane!UsedBy(h, hold)
      BY <2>3 DEF HandlesOnce, Lane!NoneClosedInUse
    <3>2. PICK l \in Lanes : h = cached[l]
      BY <2>1, <2>2, <3>1
    <3>3. h \in Lane!Entry(l)
      BY <2>2, <3>2 DEF Lane!Entry
    <3> QED BY <1>7, <2>3, <3>3
  <2>4. CASE h \notin closing
    <3>1. PICK m \in Lanes : h \in drop[m] /\ ~ Lane!UsedBy(h, held)
      BY <1>5, <1>11, <2>4
    <3>2. PICK l \in Lanes : h = cached[l] /\ cached'[l] = cached[l]
      BY <2>1, <2>2, <3>1
    <3>3. h \in Lane!Entry(l) /\ h \notin drop[l]
      BY <2>2, <3>2 DEF Lane!Entry
    <3>4. m = l
      BY <1>7, <3>1, <3>3
    <3> QED BY <3>1, <3>3, <3>4
  <2> QED BY <2>3, <2>4
<1>12. Lane!UsedBy(NoHandle, hold)' = Lane!UsedBy(NoHandle, hold')
  BY DEF Lane!UsedBy
<1> QED BY <1>3, <1>6, <1>8, <1>9, <1>10, <1>11
        DEF HandlesOnce, HandlesApart, Lane!NoneClosedInUse, Lane!UsedBy, HeldKept

\* A step that closes nothing and opens nothing keeps the handles if no piece takes one up.
LEMMA LaneHandlesSame ==
    ASSUME HandlesOnce, UNCHANGED <<cached, parked, closing, unused, on, lanesLate>>,
           \A h \in Handles : Lane!UsedBy(h, hold') => Lane!UsedBy(h, hold)
    PROVE  HandlesOnce'
<1>1. HandleTypes'
  BY DEF HandlesOnce, HandleTypes
<1>2. unused \subseteq Handles /\ closing \subseteq Handles
  BY DEF HandlesOnce, HandleTypes
<1> QED BY <1>1, <1>2 DEF HandlesOnce, HandlesApart, Lane!NoneClosedInUse, Lane!UsedBy, Lane!Entry

\* What a step has to leave alone for a forget to come to every handle it should.
LEMMA LaneReaches ==
    ASSUME Found, SweepKept, HeldKept, PlacesKept, HandleTypes,
           UNCHANGED <<lanesLate, unused, on, sweep, owed, seen, straddled>>
    PROVE  Found' /\ SweepKept'
<1>1. Found'
  BY DEF Found, HeldKept, PlacesKept, Lane!Findable
<1>2. sweep # "off" /\ Owing' => Owing
  BY DEF SweepKept, HeldKept, Owing, Lane!Entry
<1>3. sweep = "looked" /\ Owing' =>
          \/ seen \/ (straddled /\ on[owed] \in leaving')
          \/ on[owed] \in draining' \ ending' \/ owed \in lanesLate
  BY <1>2 DEF SweepKept, PlacesKept, Owing, Lane!Entry
<1>4. sweep = "taking" /\ Owing' => seen \/ straddled \/ owed \in lanesLate
  BY <1>2 DEF SweepKept
<1>5. SweepKept'
  BY <1>3, <1>4 DEF SweepKept, Owing, Lane!Entry
<1> QED BY <1>1, <1>5

\* The pool where only lanes are let go of.
LEMMA LanePoolShrinks ==
    ASSUME Lane!LanesAssumption, PoolKept, live' \subseteq live, ListsApart',
           leaving' \subseteq Lanes, draining' \subseteq Lanes, due' \subseteq Lanes,
           UNCHANGED <<laneOf, unopened, opener, openFor, failures>>,
           generation' = generation, moving' \in BOOLEAN, moving = moving' \/ live' = {},
           waiting' \in BOOLEAN
    PROVE  PoolKept'
<1>1. PoolTypes /\ Lane!LanesAreCurrent /\ IsFiniteSet(live)
  BY DEF PoolKept
<1>2. IsFiniteSet(live') /\ Cardinality(live') <= Cardinality(live)
  BY <1>1, FS_Subset
<1>3. Cardinality(live) \in Nat /\ Cardinality(live') \in Nat /\ Wanted \in Nat
  BY <1>1, <1>2, FS_CardinalityType, LaneConstants
<1>4. PoolTypes'
  BY <1>1 DEF PoolTypes, ListsApart
<1>5. Cardinality(live') <= Wanted
  BY <1>1, <1>2, <1>3, LaneCounts DEF Lane!LanesAreCurrent
<1>6. Lane!LanesAreCurrent'
  BY <1>1, <1>5, LaneCounts DEF Lane!LanesAreCurrent
<1> QED BY <1>1, <1>2, <1>4, <1>6 DEF PoolKept

\* The cache of a lane that is cleared.
LEMMA LaneClears ==
    ASSUME Lane!LanesAssumption, HandlesOnce, PieceTypes, NEW l \in Lanes,
           Lane!ClearAndClose(l), UNCHANGED <<unused, on, lanesLate, hold>>
    PROVE  HandlesOnce' /\ HeldKept
<1> DEFINE drop == [Lane!Nothing EXCEPT ![l] = Lane!Entry(l) \cup parked[l]]
           stay == [parked EXCEPT ![l] = {}]
<1>1. HandleTypes
  BY DEF HandlesOnce
<1>2. \A m \in Lanes : Lane!Entry(m) \in SUBSET Handles /\ parked[m] \in SUBSET Handles
  BY <1>1 DEF HandleTypes, Lane!Entry
<1>3. /\ drop = [m \in Lanes |-> IF m = l THEN Lane!Entry(l) \cup parked[l] ELSE {}]
      /\ stay = [m \in Lanes |-> IF m = l THEN {} ELSE parked[m]]
  BY <1>1 DEF Lane!Nothing, HandleTypes
<1>4. drop \in [Lanes -> SUBSET Handles] /\ stay \in [Lanes -> SUBSET Handles]
  BY <1>2, <1>3
<1>5. \A m \in Lanes : /\ drop[m] \subseteq Lane!Entry(m) \cup parked[m]
                       /\ stay[m] \subseteq parked[m] /\ stay[m] \cap drop[m] = {}
                       /\ m # l => drop[m] = {}
  BY <1>3
<1>6. Lane!CloseOrPark(drop, stay, hold) /\ cached' = [cached EXCEPT ![l] = NoHandle]
  BY DEF Lane!ClearAndClose
<1> HIDE DEF drop, stay
<1>7. /\ cached' \in [Lanes -> Handles \cup {NoHandle}]
      /\ \A m \in Lanes : cached'[m] = NoHandle \/ (cached'[m] = cached[m] /\ cached[m] \notin drop[m])
  BY <1>1, <1>5, <1>6 DEF HandleTypes
<1> QED BY <1>4, <1>5, <1>6, <1>7, LaneCloses

\* The same where what is in use stays parked.
LEMMA LaneInvalidates ==
    ASSUME Lane!LanesAssumption, HandlesOnce, PieceTypes, NEW here \in SUBSET Lanes,
           Lane!Invalidate(here, hold'), UNCHANGED <<unused, on, lanesLate>>,
           \A h \in Handles : Lane!UsedBy(h, hold') => Lane!UsedBy(h, hold)
    PROVE  /\ HandlesOnce'
           /\ HeldKept
<1> DEFINE drop == [l \in Lanes |-> IF l \in here THEN Lane!Entry(l) \cup Lane!Free(l, hold') ELSE {}]
           stay == [l \in Lanes |-> IF l \in here THEN parked[l] \ Lane!Free(l, hold') ELSE parked[l]]
<1>1. HandleTypes
  BY DEF HandlesOnce
<1>2. \A l \in Lanes : /\ Lane!Entry(l) \in SUBSET Handles /\ parked[l] \in SUBSET Handles
                       /\ Lane!Entry(l) \cap parked[l] = {}
  BY <1>1 DEF HandleTypes, Lane!Entry, HandlesOnce, HandlesApart
<1>3. \A l \in Lanes : Lane!Free(l, hold') \subseteq parked[l]
  BY DEF Lane!Free
<1>4. drop \in [Lanes -> SUBSET Handles] /\ stay \in [Lanes -> SUBSET Handles]
  BY <1>2, <1>3
<1>5. \A l \in Lanes : /\ drop[l] \subseteq Lane!Entry(l) \cup parked[l]
                       /\ stay[l] \subseteq parked[l] /\ stay[l] \cap drop[l] = {}
  BY <1>2, <1>3
<1>6. \A l \in Lanes : l \notin here => drop[l] = {}
  OBVIOUS
<1>7. Lane!CloseOrPark(drop, stay, hold')
      /\ cached' = [l \in Lanes |-> IF l \in here THEN NoHandle ELSE cached[l]]
  BY DEF Lane!Invalidate
<1> HIDE DEF drop, stay
<1>8. /\ cached' \in [Lanes -> Handles \cup {NoHandle}]
      /\ \A l \in Lanes : cached'[l] = NoHandle \/ (cached'[l] = cached[l] /\ cached[l] \notin drop[l])
  BY <1>1, <1>6, <1>7 DEF HandleTypes
<1> QED BY <1>4, <1>5, <1>7, <1>8, LaneCloses

\* What came free on one lane is closed; a piece that looks there may take its handle up.
LEMMA LaneFrees ==
    ASSUME Lane!LanesAssumption, HandlesOnce, PieceTypes, NEW l \in Lanes,
           Lane!CloseOrPark([Lane!Nothing EXCEPT ![l] = Lane!Free(l, hold)],
                            [parked EXCEPT ![l] = @ \ Lane!Free(l, hold)], hold),
           UNCHANGED <<cached, unused, on, lanesLate>>,
           \A h \in Handles : Lane!UsedBy(h, hold') => Lane!UsedBy(h, hold) \/ h = cached[l]
    PROVE  /\ HandlesOnce'
           /\ HeldKept
<1> DEFINE drop == [Lane!Nothing EXCEPT ![l] = Lane!Free(l, hold)]
           stay == [parked EXCEPT ![l] = @ \ Lane!Free(l, hold)]
<1>1. HandleTypes /\ HandlesApart
  BY DEF HandlesOnce
<1>2. Lane!Free(l, hold) \subseteq parked[l] /\ \A m \in Lanes : parked[m] \in SUBSET Handles
  BY <1>1 DEF HandleTypes, Lane!Free
<1>3. drop = [m \in Lanes |-> IF m = l THEN Lane!Free(l, hold) ELSE {}]
      /\ stay = [m \in Lanes |-> IF m = l THEN parked[l] \ Lane!Free(l, hold) ELSE parked[m]]
  BY <1>1 DEF Lane!Nothing, HandleTypes
<1>4. drop \in [Lanes -> SUBSET Handles] /\ stay \in [Lanes -> SUBSET Handles]
  BY <1>2, <1>3
<1>5. \A m \in Lanes : /\ drop[m] \subseteq Lane!Entry(m) \cup parked[m] /\ drop[m] \subseteq parked[m]
                       /\ stay[m] \subseteq parked[m] /\ stay[m] \cap drop[m] = {}
  BY <1>2, <1>3
<1> HIDE DEF drop, stay
<1>6. Lane!CloseOrPark(drop, stay, hold)
  BY DEF drop, stay
<1>7. \A m \in Lanes : cached[m] \notin drop[m]
  BY <1>1, <1>5 DEF HandlesApart
<1>8. cached' \in [Lanes -> Handles \cup {NoHandle}]
  BY <1>1 DEF HandleTypes
<1> QED BY <1>4, <1>5, <1>6, <1>7, <1>8, LaneCloses

\* A step that moves lanes from list to list alone.
LEMMA LaneListed ==
    ASSUME Lane!LanesAssumption, LaneInv, PlacesKept, ListsApart', live' \subseteq live,
           leaving' \subseteq Lanes, draining' \subseteq Lanes, due' \subseteq Lanes,
           moving' \in BOOLEAN, moving = moving' \/ live' = {},
           UNCHANGED <<generation, laneOf, unopened, opener, openFor, failures, waiting,
                       cached, parked, closing, unused, on, lanesLate, sweep, owed, seen,
                       straddled, hold>>
    PROVE  PoolKept' /\ HandlesOnce' /\ Found' /\ SweepKept'
<1>1. PoolKept /\ PoolTypes /\ HandlesOnce /\ HandleTypes /\ Found /\ SweepKept
  BY DEF LaneInv, PoolKept, HandlesOnce
<1>2. PoolKept'
  BY <1>1, LanePoolShrinks DEF PoolTypes
<1>3. HandlesOnce'
  BY <1>1, LaneHandlesSame
<1>4. HeldKept
  BY DEF HeldKept, Lane!Entry
<1>5. Found' /\ SweepKept'
  BY <1>1, <1>4, LaneReaches
<1> QED BY <1>2, <1>3, <1>5

\* A lane is let go of while it is live.
LEMMA LaneRetires ==
    ASSUME Lane!LanesAssumption, LaneInv, NEW l \in live, Lane!Retire(l),
           UNCHANGED <<opener, openFor, failures, waiting, cached, parked, closing, unused, on,
                       lanesLate, sweep, owed, seen, straddled, hold>>
    PROVE  PoolKept' /\ HandlesOnce' /\ Found' /\ SweepKept'
<1>1. PoolTypes /\ ListsApart
  BY DEF LaneInv, PoolKept
<1>2. /\ live' = live \ {l} /\ leaving' = leaving \cup {l}
      /\ UNCHANGED <<generation, moving, laneOf, draining, due, ending, unopened>>
  BY DEF Lane!Retire
<1>3. ListsApart' /\ PlacesKept
  BY <1>1, <1>2 DEF ListsApart, PlacesKept
<1> QED BY <1>1, <1>2, <1>3, LaneListed DEF PoolTypes

\* What a step does that lets lanes, the opening task and handles be.
LEMMA LaneAlone ==
    ASSUME Lane!LanesAssumption, LaneInv
    PROVE  /\ UNCHANGED <<generation, moving, laneOf, live, leaving, draining, due, ending, unopened, opener,
                          openFor, failures, waiting>> => PoolKept'
           /\ UNCHANGED <<cached, parked, closing, unused, on, lanesLate, hold>> => HandlesOnce'
           /\ UNCHANGED <<cached, parked, live, leaving, draining, ending, unused, on, lanesLate,
                          sweep, owed, seen, straddled>> => Found' /\ SweepKept'
           /\ UNCHANGED <<phase, lane, hold, lost, reads>> => PiecesPlaced'
<1>1. PoolKept /\ HandlesOnce /\ PiecesPlaced /\ Found /\ SweepKept
  BY DEF LaneInv
<1>2. ASSUME UNCHANGED <<generation, moving, laneOf, live, leaving, draining, due, ending, unopened, opener,
                         openFor, failures, waiting>>
      PROVE  PoolKept'
  BY <1>1, <1>2 DEF PoolKept, PoolTypes, Lane!LanesAreCurrent, ListsApart
<1>3. ASSUME UNCHANGED <<cached, parked, closing, unused, on, lanesLate, hold>> PROVE HandlesOnce'
  BY <1>1, <1>3, LaneHandlesSame
<1>4. ASSUME UNCHANGED <<cached, parked, live, leaving, draining, ending, unused, on, lanesLate,
                         sweep, owed, seen, straddled>>
      PROVE  Found' /\ SweepKept'
  BY <1>1, <1>4 DEF Found, SweepKept, Owing, Lane!Findable, Lane!Entry
<1>5. ASSUME UNCHANGED <<phase, lane, hold, lost, reads>> PROVE PiecesPlaced'
  BY <1>1, <1>5 DEF PiecesPlaced, PieceTypes, Lane!PiecePhases
<1> QED BY <1>2, <1>3, <1>4, <1>5

\* The background task and the main session move nothing but the pool.
LEMMA LanePoolMoves ==
    ASSUME Lane!LanesAssumption, LaneInv,
           Lane!Opening \/ Lane!BackoffElapses \/ Lane!MoveBegins
    PROVE  LaneInv'
<1> USE LaneConstants
<1>1. PoolKept /\ PoolTypes /\ Lane!LanesAreCurrent /\ IsFiniteSet(live)
  BY DEF LaneInv, PoolKept
<1>2. 0 \in 0 .. MaxFailures /\ 0 < MaxFailures
  OBVIOUS
<1>3. CASE Lane!OpenerLoops
  <2>1. PoolKept'
    BY <1>1, <1>2, <1>3 DEF Lane!OpenerLoops, Lane!Opened, Lane!pool, Lane!lists, PoolKept, PoolTypes,
                            Lane!LanesAreCurrent, ListsApart
  <2> QED BY <1>3, <2>1, LaneAlone DEF Lane!OpenerLoops, Lane!pool, Lane!lists, Lane!handles, Lane!sweeping, Lane!piece,
                                       LaneInv
<1>4. CASE Lane!LaneUp
  <2>1. PICK l \in unopened :
            /\ unopened' = unopened \ {l}
            /\ laneOf' = [laneOf EXCEPT ![l] = openFor]
            /\ IF openFor = generation /\ Cardinality(live) < Wanted
               THEN /\ live' = live \cup {l}
                    /\ opener' = "between" /\ UNCHANGED <<failures, waiting>>
               ELSE UNCHANGED live /\ Lane!Opened(FALSE)
    BY <1>4, LaneCounts DEF Lane!LaneUp
  <2>2. /\ opener = "dialing"
        /\ UNCHANGED <<generation, moving, leaving, draining, due, ending, openFor, cached, parked,
                       closing, unused, on, lanesLate, sweep, owed, seen, straddled, phase, lane,
                       hold, lost, reads>>
    BY <1>4 DEF Lane!LaneUp, Lane!lists, Lane!handles, Lane!sweeping, Lane!piece
  <2>3. l \in Lanes /\ l \notin live /\ openFor \in 0 .. MaxMoves
    BY <1>1 DEF PoolKept, PoolTypes, ListsApart
  <2>4. /\ live \subseteq live' /\ live' \subseteq live \cup {l} /\ ListsApart'
        /\ \A m \in live : laneOf'[m] = laneOf[m]
        /\ laneOf' \in [Lanes -> 0 .. MaxMoves] /\ laneOf'[l] = openFor
    BY <1>1, <2>1, <2>2, <2>3 DEF PoolKept, PoolTypes, ListsApart
  <2>5. PoolTypes'
    <3>1. CASE live' = live \cup {l} /\ opener' = "between" /\ UNCHANGED <<failures, waiting>>
      BY <1>1, <2>1, <2>2, <2>3, <2>4, <3>1 DEF PoolTypes
    <3>2. CASE UNCHANGED live /\ Lane!Opened(FALSE)
      BY <1>1, <1>2, <2>1, <2>2, <2>3, <2>4, <3>2 DEF PoolTypes, Lane!Opened
    <3> QED BY <2>1, <3>1, <3>2
  <2>6. IsFiniteSet(live') /\ Cardinality(live') <= Wanted
    <3>1. Cardinality(live) \in Nat /\ Cardinality(live) <= Wanted
      BY <1>1, FS_CardinalityType, LaneCounts DEF Lane!LanesAreCurrent
    <3>2. CASE Cardinality(live) < Wanted /\ live' = live \cup {l}
      <4>1. IsFiniteSet(live \cup {l}) /\ Cardinality(live \cup {l}) = Cardinality(live) + 1
        BY <1>1, <2>3, FS_AddElement
      <4> QED BY <3>1, <3>2, <4>1
    <3>3. CASE UNCHANGED live
      BY <1>1, <3>1, <3>3
    <3> QED BY <2>1, <3>2, <3>3
  <2>7. ~ moving' => \A m \in live' : laneOf'[m] = generation'
    BY <1>1, <2>1, <2>2, <2>4 DEF Lane!LanesAreCurrent
  <2>8. opener' # "off" => failures' < MaxFailures
    BY <1>1, <1>2, <2>1, <2>2 DEF PoolKept, Lane!Opened
  <2>9. PoolKept'
    BY <2>4, <2>5, <2>6, <2>7, <2>8, LaneCounts DEF PoolKept, Lane!LanesAreCurrent
  <2>10. HeldKept /\ PlacesKept /\ HandleTypes
    BY <2>2, <2>4 DEF LaneInv, HandlesOnce, HeldKept, PlacesKept, Lane!Entry
  <2>11. Found' /\ SweepKept'
    BY <2>2, <2>10, LaneReaches DEF LaneInv
  <2> QED BY <2>2, <2>9, <2>11, LaneAlone DEF LaneInv
<1>5. CASE Lane!LaneDown
  <2>1. failures < MaxFailures /\ failures \in Nat
    BY <1>1, <1>5 DEF Lane!LaneDown, PoolKept, PoolTypes
  <2>2. failures + 1 \in 0 .. MaxFailures
    BY <2>1
  <2>3. PoolKept'
    BY <1>1, <1>5, <2>2 DEF Lane!LaneDown, Lane!Opened, Lane!pool, Lane!lists, PoolKept, PoolTypes,
                            Lane!LanesAreCurrent, ListsApart
  <2> QED BY <1>5, <2>3, LaneAlone DEF Lane!LaneDown, Lane!pool, Lane!lists, Lane!handles, Lane!sweeping, Lane!piece, LaneInv
<1>6. CASE Lane!BackoffElapses
  <2>1. PoolKept'
    BY <1>1, <1>6 DEF Lane!BackoffElapses, Lane!pool, Lane!lists, PoolKept, PoolTypes, Lane!LanesAreCurrent, ListsApart
  <2> QED BY <1>6, <2>1, LaneAlone DEF Lane!BackoffElapses, Lane!pool, Lane!lists, Lane!handles, Lane!sweeping, Lane!piece,
                                       LaneInv
<1>8. CASE Lane!MoveBegins
  <2>1. generation + 1 \in 0 .. MaxMoves
    BY <1>1, <1>8 DEF Lane!MoveBegins, PoolTypes
  <2>2. /\ UNCHANGED <<laneOf, live, leaving, draining, due, ending, unopened, opener, openFor,
                       cached, parked, closing, unused, on, lanesLate, sweep, owed, seen, straddled,
                       phase, lane, hold, lost, reads>>
        /\ generation' = generation + 1 /\ moving' = TRUE /\ failures' = 0 /\ waiting' = FALSE
    BY <1>8 DEF Lane!MoveBegins, Lane!lists, Lane!handles, Lane!sweeping, Lane!piece
  <2>3. PoolKept'
    <3>1. PoolTypes'
      BY <1>1, <1>2, <2>1, <2>2 DEF PoolTypes
    <3>2. Lane!LanesAreCurrent'
      BY <1>1, <2>2, LaneCounts DEF Lane!LanesAreCurrent
    <3> QED BY <1>1, <1>2, <2>2, <3>1, <3>2 DEF PoolKept, ListsApart
  <2> QED BY <2>2, <2>3, LaneAlone DEF LaneInv
<1> QED BY <1>3, <1>4, <1>5, <1>6, <1>8 DEF Lane!Opening

\* Letting lanes go, draining them, and closing what nobody uses.
LEMMA LaneLetsGo ==
    ASSUME Lane!LanesAssumption, LaneInv,
           \/ Lane!MoveEnds
           \/ \E l \in Lanes : Lane!RetireSlow(l) \/ Lane!Draining(l) \/ Lane!DrainRound(l)
           \/ \E h \in Handles : Lane!CloseEnds(h)
    PROVE  LaneInv'
<1>1. /\ PoolKept /\ PoolTypes /\ ListsApart /\ HandlesOnce /\ HandleTypes /\ PieceTypes
      /\ PiecesPlaced /\ Found /\ SweepKept
  BY DEF LaneInv, PoolKept, PiecesPlaced, HandlesOnce
<1>2. CASE Lane!MoveEnds
  <2>1. /\ moving /\ moving' = FALSE /\ live' = {} /\ leaving' = leaving \cup live
        /\ UNCHANGED <<generation, laneOf, draining, due, ending, unopened, opener, openFor,
                       failures, waiting, cached, parked, closing, unused, on, lanesLate, sweep,
                       owed, seen, straddled, phase, lane, hold, lost, reads>>
    BY <1>2 DEF Lane!MoveEnds, Lane!opens, Lane!handles, Lane!sweeping, Lane!piece
  <2>2. ListsApart' /\ PlacesKept
    BY <1>1, <2>1 DEF ListsApart, PlacesKept
  <2>3. PoolKept' /\ HandlesOnce' /\ Found' /\ SweepKept'
    BY <1>1, <2>1, <2>2, LaneListed DEF PoolTypes
  <2> QED BY <2>1, <2>3, LaneAlone DEF LaneInv
<1>3. ASSUME NEW l \in Lanes, Lane!Joins(l) \/ Lane!Leaves(l) PROVE LaneInv'
  <2>1. /\ \/ /\ l \in leaving /\ leaving' = leaving \ {l} /\ draining' = draining \cup {l}
              /\ due' = due \cup {l} /\ ending' = ending
           \/ /\ l \in ending /\ ending' = ending \ {l} /\ draining' = draining \ {l}
              /\ leaving' = leaving /\ due' = due
        /\ UNCHANGED <<generation, moving, laneOf, live, unopened, opener, openFor, failures,
                       waiting, cached, parked, closing, unused, on, lanesLate, sweep, owed,
                       seen, straddled, phase, lane, hold, lost, reads>>
    BY <1>3 DEF Lane!Joins, Lane!Leaves, Lane!opens, Lane!handles, Lane!sweeping, Lane!piece
  <2>2. ListsApart'
    BY <1>1, <2>1 DEF ListsApart
  <2>3. PlacesKept
    BY <1>1, <2>1 DEF ListsApart, PlacesKept
  <2>4. PoolKept' /\ HandlesOnce' /\ Found' /\ SweepKept'
    BY <1>1, <2>1, <2>2, <2>3, LaneListed DEF PoolTypes
  <2> QED BY <2>1, <2>4, LaneAlone DEF LaneInv
<1>4. ASSUME NEW l \in Lanes, Lane!RetireSlow(l) PROVE LaneInv'
  <2>1. /\ l \in live /\ Lane!Retire(l)
        /\ UNCHANGED <<opener, openFor, failures, waiting, cached, parked, closing, unused, on,
                       lanesLate, sweep, owed, seen, straddled, phase, lane, hold, lost, reads>>
    BY <1>4 DEF Lane!RetireSlow, Lane!opens, Lane!handles, Lane!sweeping, Lane!piece
  <2>2. PoolKept' /\ HandlesOnce' /\ Found' /\ SweepKept'
    BY <2>1, LaneRetires
  <2> QED BY <2>1, <2>2, LaneAlone DEF LaneInv
<1>5. ASSUME NEW l \in Lanes, Lane!DrainBegins(l) PROVE LaneInv'
  <2>1. /\ due' = due \ {l} /\ Lane!ClearAndClose(l)
        /\ UNCHANGED <<generation, moving, laneOf, live, leaving, draining, ending, unopened,
                       opener, openFor, failures, waiting, unused, on, lanesLate, sweep, owed,
                       seen, straddled, phase, lane, hold, lost, reads>>
    BY <1>5 DEF Lane!DrainBegins, Lane!opens, Lane!sweeping, Lane!piece
  <2>2. HandlesOnce' /\ HeldKept
    BY <1>1, <2>1, LaneClears
  <2>3. Found' /\ SweepKept'
    BY <1>1, <2>1, <2>2, LaneReaches DEF PlacesKept
  <2>4. PoolKept'
    BY <1>1, <2>1, LanePoolShrinks DEF PoolTypes, ListsApart
  <2> QED BY <2>1, <2>2, <2>3, <2>4, LaneAlone DEF LaneInv
<1>6. ASSUME NEW l \in Lanes, Lane!DrainRound(l) PROVE LaneInv'
  <2>1. /\ Lane!CloseOrPark([Lane!Nothing EXCEPT ![l] = Lane!Free(l, hold)],
                            [parked EXCEPT ![l] = @ \ Lane!Free(l, hold)], hold)
        /\ UNCHANGED <<generation, moving, laneOf, live, leaving, draining, due, ending, unopened,
                       opener, openFor, failures, waiting, cached, unused, on, lanesLate, sweep,
                       owed, seen, straddled, phase, lane, hold, lost, reads>>
    BY <1>6 DEF Lane!DrainRound, Lane!pool, Lane!lists, Lane!opens, Lane!sweeping, Lane!piece
  <2>2. HandlesOnce' /\ HeldKept
    BY <1>1, <2>1, LaneFrees
  <2>3. Found' /\ SweepKept'
    BY <1>1, <2>1, <2>2, LaneReaches DEF PlacesKept
  <2> QED BY <2>1, <2>2, <2>3, LaneAlone DEF LaneInv
<1>7. ASSUME NEW l \in Lanes, Lane!LastClear(l) PROVE LaneInv'
  <2>1. /\ UNCHANGED <<generation, moving, laneOf, live, leaving, draining, due, unopened, opener,
                       openFor, failures, waiting, closing, unused, on, lanesLate, sweep, owed,
                       seen, straddled, phase, lane, hold, lost, reads>>
        /\ l \in draining /\ ending' = ending \cup {l}
        /\ cached' = [cached EXCEPT ![l] = NoHandle] /\ parked' = [parked EXCEPT ![l] = {}]
    BY <1>7 DEF Lane!LastClear, Lane!Rounds, Lane!opens, Lane!sweeping, Lane!piece
  <2>2. HandleTypes' /\ cached'[l] = NoHandle /\ parked'[l] = {}
        /\ \A m \in Lanes : m # l => cached'[m] = cached[m] /\ parked'[m] = parked[m]
    BY <1>1, <2>1 DEF HandlesOnce, HandleTypes
  <2>3. HandlesOnce'
    BY <1>1, <2>1, <2>2 DEF HandlesOnce, HandlesApart, Lane!NoneClosedInUse, Lane!Entry, Lane!UsedBy
  <2>4. HeldKept /\ PlacesKept
    BY <2>1, <2>2 DEF HeldKept, PlacesKept, Lane!Entry
  <2>5. Found' /\ SweepKept'
    BY <1>1, <2>1, <2>4, LaneReaches
  <2>6. PoolKept'
    BY <1>1, <2>1, LanePoolShrinks DEF PoolTypes, ListsApart
  <2> QED BY <2>1, <2>3, <2>5, <2>6, LaneAlone DEF LaneInv
<1>8. ASSUME NEW h \in Handles, Lane!CloseEnds(h) PROVE LaneInv'
  <2>1. /\ UNCHANGED <<generation, moving, laneOf, live, leaving, draining, due, ending, unopened,
                       opener, openFor, failures, waiting, cached, parked, unused, on, lanesLate,
                       sweep, owed, seen, straddled, phase, lane, hold, lost, reads>>
        /\ closing' = closing \ {h}
    BY <1>8 DEF Lane!CloseEnds, Lane!pool, Lane!lists, Lane!opens, Lane!sweeping, Lane!piece
  <2>2. HandlesOnce'
    BY <1>1, <2>1 DEF HandlesOnce, HandleTypes, HandlesApart, Lane!NoneClosedInUse, Lane!Entry,
                      Lane!UsedBy
  <2> QED BY <2>1, <2>2, LaneAlone DEF LaneInv
<1> QED BY <1>2, <1>3, <1>4, <1>5, <1>6, <1>7, <1>8 DEF Lane!Draining

\* What is taken from the cache of a lane, by an eviction or by a write that forgets.
LEMMA LaneTaken ==
    ASSUME Lane!LanesAssumption, LaneInv, NEW l \in Lanes, Lane!Invalidate({l}, hold'),
           UNCHANGED <<unused, on, lanesLate, hold>>
    PROVE  HandlesOnce' /\ HeldKept /\ Lane!Entry(l)' = {}
<1>1. HandlesOnce /\ HandleTypes /\ PieceTypes
  BY DEF LaneInv, HandlesOnce, PiecesPlaced
<1>2. HandlesOnce' /\ HeldKept
  <2>1. {l} \in SUBSET Lanes
    OBVIOUS
  <2> QED BY <1>1, <2>1, LaneInvalidates
<1>3. cached'[l] = NoHandle
  BY DEF Lane!Invalidate
<1> QED BY <1>2, <1>3 DEF Lane!Entry

\* A write or a rename goes through the lists.
LEMMA LaneForgets ==
    ASSUME Lane!LanesAssumption, LaneInv,
           Lane!Forgetting \/ \E l \in Lanes : Lane!Evict(l) \/ Lane!ForgetLooks(l)
    PROVE  LaneInv'
<1>1. /\ PoolKept /\ PoolTypes /\ ListsApart /\ HandlesOnce /\ HandleTypes /\ HandlesApart
      /\ PieceTypes /\ PiecesPlaced /\ Found /\ SweepKept
  BY DEF LaneInv, PoolKept, PiecesPlaced, HandlesOnce
<1>2. UNCHANGED <<generation, moving, laneOf, live, leaving, draining, due, ending, unopened, opener,
                  openFor, failures, waiting, unused, on, lanesLate, phase, lane, hold, lost, reads>>
  BY DEF Lane!Forgetting, Lane!ForgetLooks, Lane!ForgetLooksOn, Lane!ForgetTakes, Lane!ForgetEnds,
         Lane!Evict, Lane!pool, Lane!lists, Lane!opens, Lane!piece
<1>3. PoolKept' /\ PiecesPlaced'
  BY <1>2, LaneAlone
<1>4. ASSUME NEW l \in Lanes, Lane!Evict(l) PROVE LaneInv'
  <2>1. Lane!Invalidate({l}, hold') /\ UNCHANGED <<sweep, owed, seen, straddled>>
    BY <1>2, <1>4 DEF Lane!Evict, Lane!sweeping
  <2>2. HandlesOnce' /\ HeldKept
    BY <1>2, <2>1, LaneTaken
  <2>3. Found' /\ SweepKept'
    BY <1>1, <1>2, <2>1, <2>2, LaneReaches DEF PlacesKept
  <2> QED BY <1>3, <2>2, <2>3 DEF LaneInv
<1>5. ASSUME NEW l \in Lanes, Lane!ForgetTakes(l) PROVE LaneInv'
  <2>1. /\ Lane!Invalidate({l}, hold') /\ sweep = "taking" /\ on[owed] = l /\ seen' = FALSE
        /\ UNCHANGED <<sweep, owed, straddled>>
    BY <1>2, <1>5 DEF Lane!ForgetTakes
  <2>2. HandlesOnce' /\ HeldKept /\ Lane!Entry(l)' = {}
    BY <1>2, <2>1, LaneTaken
  <2>3. Found'
    BY <1>1, <1>2, <2>2 DEF Found, HeldKept, Lane!Findable
  <2>4. SweepKept'
    BY <1>1, <1>2, <2>1, <2>2 DEF SweepKept, Owing, Lane!Entry
  <2> QED BY <1>3, <2>2, <2>3, <2>4 DEF LaneInv
<1>6. ASSUME UNCHANGED <<cached, parked, closing>> PROVE HandlesOnce' /\ Found'
  <2>1. HandlesOnce'
    BY <1>2, <1>6, LaneAlone
  <2>2. Found'
    BY <1>1, <1>2, <1>6 DEF Found, Lane!Findable, Lane!Entry
  <2> QED BY <2>1, <2>2
<1>7. ASSUME NEW l \in Lanes, Lane!ForgetLooks(l) PROVE LaneInv'
  <2>1. /\ UNCHANGED <<cached, parked, closing>> /\ cached[l] # NoHandle
        /\ sweep' = "looked" /\ owed' = cached[l]
        /\ seen' = (l \in live) /\ straddled' = (l \in leaving)
    BY <1>7 DEF Lane!ForgetLooks
  <2>2. cached[l] \in Lane!Entry(l) /\ cached[l] \in Handles
    BY <1>1, <2>1 DEF Lane!Entry, HandleTypes
  <2>3. on[cached[l]] = l /\ cached[l] \notin unused
    BY <1>1, <2>2 DEF HandlesApart
  <2>4. Lane!Findable(l) \/ cached[l] \in lanesLate
    BY <1>1, <2>2 DEF Found
  <2>5. /\ owed' \in Handles /\ owed' \notin unused' /\ on'[owed'] = l
        /\ seen' \in BOOLEAN /\ straddled' \in BOOLEAN
        /\ \/ seen' \/ (straddled' /\ l \in leaving') \/ l \in draining' \ ending'
           \/ owed' \in lanesLate'
    <3>1. owed' \in Handles /\ owed' \notin unused' /\ on'[owed'] = l
      BY <1>2, <2>1, <2>2, <2>3
    <3>2. seen' \in BOOLEAN /\ straddled' \in BOOLEAN
      BY <2>1
    <3>3. CASE l \in live
      BY <2>1, <3>1, <3>2, <3>3
    <3>4. CASE l \in leaving
      <4>1. straddled' /\ l \in leaving'
        BY <1>2, <2>1, <3>4
      <4> QED BY <3>1, <3>2, <4>1
    <3>5. CASE l \in draining \ ending
      <4>1. l \in draining' \ ending'
        BY <1>2, <3>5
      <4> QED BY <3>1, <3>2, <4>1
    <3>6. CASE cached[l] \in lanesLate
      <4>1. owed' \in lanesLate'
        BY <1>2, <2>1, <3>6
      <4> QED BY <3>1, <3>2, <4>1
    <3> QED BY <2>4, <3>3, <3>4, <3>5, <3>6 DEF Lane!Findable
  <2>6. SweepKept'
    BY <2>1, <2>5 DEF SweepKept
  <2> QED BY <1>3, <1>6, <2>1, <2>6 DEF LaneInv
<1>8. ASSUME NEW l \in Lanes, Lane!ForgetLooksOn(l) PROVE LaneInv'
  <2>1. /\ UNCHANGED <<cached, parked, closing, owed>> /\ sweep = "looked" /\ on[owed] = l
        /\ sweep' = "taking" /\ seen' = (seen \/ l \in draining)
        /\ straddled' = (straddled /\ l \in leaving)
    BY <1>8 DEF Lane!ForgetLooksOn
  <2>2. Owing' = Owing
    BY <1>2, <2>1 DEF Owing, Lane!Entry
  <2>3. Owing => seen \/ (straddled /\ l \in leaving) \/ l \in draining \/ owed \in lanesLate
    BY <1>1, <2>1 DEF SweepKept
  <2>4. seen' \in BOOLEAN /\ straddled' \in BOOLEAN /\ (Owing' => seen' \/ straddled' \/ owed \in lanesLate)
    BY <1>1, <2>1, <2>2, <2>3 DEF SweepKept
  <2>5. SweepKept'
    BY <1>1, <1>2, <2>1, <2>4 DEF SweepKept
  <2> QED BY <1>3, <1>6, <2>1, <2>5 DEF LaneInv
<1>9. CASE Lane!ForgetEnds
  <2>1. /\ UNCHANGED <<cached, parked, closing>> /\ seen' = seen
        /\ sweep' = "off" /\ owed' = NoHandle /\ straddled' = FALSE
    BY <1>9 DEF Lane!ForgetEnds
  <2>2. SweepKept'
    BY <1>1, <2>1 DEF SweepKept
  <2> QED BY <1>3, <1>6, <2>1, <2>2 DEF LaneInv
<1> QED BY <1>4, <1>5, <1>7, <1>8, <1>9 DEF Lane!Forgetting

\* Reading.
LEMMA LaneReads ==
    ASSUME Lane!LanesAssumption, LaneInv, NEW p \in Pieces, Lane!Start(p) \/ Lane!Ends(p)
    PROVE  LaneInv'
<1> USE LaneConstants
<1>1. /\ PoolKept /\ PoolTypes /\ HandlesOnce /\ PieceTypes /\ PiecesPlaced
      /\ Found /\ SweepKept /\ HandleTypes
  BY DEF LaneInv, PoolKept, PiecesPlaced, HandlesOnce
<1>2. CASE Lane!Start(p)
  <2>1. PICK l \in Lanes \cup {NoLane} :
            /\ lane' = [lane EXCEPT ![p] = l]
            /\ phase' = [phase EXCEPT ![p] = IF l = NoLane THEN "main" ELSE "looking"]
    BY <1>1, <1>2 DEF Lane!Start, PoolTypes
  <2>2. /\ UNCHANGED <<generation, moving, laneOf, live, leaving, draining, due, ending, unopened, failures, waiting,
                       cached, parked, closing, unused, on, lanesLate, sweep, owed, seen, straddled, hold, lost>>
        /\ reads < MaxReads /\ reads' = reads + 1
        /\ \/ opener' = "between" /\ openFor' = generation /\ failures < MaxFailures
           \/ UNCHANGED <<opener, openFor>>
    BY <1>2 DEF Lane!Start, Lane!pool, Lane!lists, Lane!handles, Lane!sweeping, Lane!ShouldOpen
  <2>3. PoolKept'
    BY <1>1, <2>2 DEF PoolKept, PoolTypes, Lane!LanesAreCurrent, ListsApart
  <2>4. reads' \in 0 .. MaxReads
    BY <1>1, <2>2 DEF PieceTypes
  <2>5. PieceTypes'
    BY <1>1, <2>1, <2>2, <2>4 DEF PieceTypes, Lane!PiecePhases
  <2>6. PiecesPlaced'
    BY <1>1, <2>1, <2>5 DEF PiecesPlaced, PieceTypes
  <2> QED BY <2>2, <2>3, <2>6, LaneAlone DEF LaneInv
<1>3. CASE Lane!Look(p)
  <2> DEFINE l == lane[p]
  <2>1. /\ phase[p] = "looking"
        /\ Lane!CloseOrPark([Lane!Nothing EXCEPT ![l] = Lane!Free(l, hold)],
                            [parked EXCEPT ![l] = @ \ Lane!Free(l, hold)], hold)
        /\ hold' = [hold EXCEPT ![p] = cached[l]]
        /\ phase' = [phase EXCEPT ![p] = IF cached[l] = NoHandle THEN "opening" ELSE "reading"]
        /\ UNCHANGED <<generation, moving, laneOf, live, leaving, draining, due, ending, unopened, opener, openFor,
                       failures, waiting, cached, unused, on, lanesLate, sweep, owed, seen, straddled, lane, lost, reads>>
    BY <1>3 DEF Lane!Look, Lane!pool, Lane!lists, Lane!opens, Lane!sweeping
  <2>2. l \in Lanes /\ cached[l] \in Handles \cup {NoHandle}
    BY <1>1, <2>1 DEF PiecesPlaced, HandleTypes
  <2> HIDE DEF l
  <2>3. \A h \in Handles : Lane!UsedBy(h, hold') => Lane!UsedBy(h, hold) \/ h = cached[l]
    BY <1>1, <2>1 DEF PieceTypes, Lane!UsedBy
  <2>4. /\ HandlesOnce'
        /\ HeldKept
    BY <1>1, <2>1, <2>2, <2>3, LaneFrees
  <2>5. Found' /\ SweepKept'
    BY <1>1, <2>1, <2>4, LaneReaches DEF PlacesKept
  <2>6. PieceTypes'
    BY <1>1, <2>1, <2>2 DEF PieceTypes, Lane!PiecePhases
  <2>7. PiecesPlaced'
    BY <1>1, <2>1, <2>2, <2>6 DEF PiecesPlaced, PieceTypes, l
  <2> QED BY <2>1, <2>4, <2>5, <2>7, LaneAlone DEF LaneInv
<1>4. CASE Lane!Insert(p)
  <2> DEFINE l == lane[p]
  <2>1. PICK h \in unused :
            /\ unused' = unused \ {h}
            /\ on' = [on EXCEPT ![h] = l]
            /\ \/ /\ cached[l] = NoHandle
                  /\ cached' = [cached EXCEPT ![l] = h] /\ hold' = [hold EXCEPT ![p] = h]
                  /\ lanesLate' = IF Lane!Findable(l) THEN lanesLate ELSE lanesLate \cup {h}
                  /\ UNCHANGED closing
               \/ /\ cached[l] # NoHandle
                  /\ hold' = [hold EXCEPT ![p] = cached[l]] /\ closing' = closing \cup {h}
                  /\ UNCHANGED <<cached, lanesLate>>
    BY <1>4 DEF Lane!Insert
  <2>2. /\ phase[p] = "opening" /\ phase' = [phase EXCEPT ![p] = "reading"]
        /\ UNCHANGED <<generation, moving, laneOf, live, leaving, draining, due, ending, unopened, opener, openFor,
                       failures, waiting, parked, sweep, owed, seen, straddled, lane, lost, reads>>
    BY <1>4 DEF Lane!Insert, Lane!pool, Lane!lists, Lane!opens, Lane!sweeping
  <2>3. /\ l \in Lanes /\ h \in Handles /\ h # NoHandle /\ cached[l] \in Handles \cup {NoHandle}
        /\ h \notin closing /\ ~ Lane!UsedBy(h, hold)
        /\ \A m \in Lanes : h # cached[m] /\ h \notin parked[m]
    BY <1>1, <2>1, <2>2 DEF PiecesPlaced, HandleTypes, HandlesOnce, HandlesApart, Lane!Entry
  <2>4. PieceTypes'
    BY <1>1, <2>1, <2>2, <2>3 DEF PieceTypes, Lane!PiecePhases
  <2>5. PiecesPlaced'
    BY <1>1, <2>2, <2>3, <2>4 DEF PiecesPlaced, PieceTypes, l
  <2> HIDE DEF l
  <2>6. /\ on'[h] = l /\ on' \in [Handles -> Lanes \cup {NoLane}]
        /\ \A g \in Handles : g # h => on'[g] = on[g]
    BY <1>1, <2>1, <2>3 DEF HandleTypes
  <2>7. hold'[p] = h \/ hold'[p] = cached[l]
    BY <1>1, <2>1 DEF PieceTypes
  <2>8. \A g \in Handles : Lane!UsedBy(g, hold') => Lane!UsedBy(g, hold) \/ g = hold'[p]
    BY <1>1, <2>1 DEF PieceTypes, Lane!UsedBy
  <2>9. CASE /\ cached[l] = NoHandle
             /\ cached' = [cached EXCEPT ![l] = h] /\ hold' = [hold EXCEPT ![p] = h]
             /\ lanesLate' = IF Lane!Findable(l) THEN lanesLate ELSE lanesLate \cup {h}
             /\ UNCHANGED closing
    <3>1. /\ cached' \in [Lanes -> Handles \cup {NoHandle}] /\ cached'[l] = h
          /\ \A m \in Lanes : m # l => cached'[m] = cached[m]
          /\ lanesLate \subseteq lanesLate' /\ lanesLate' \subseteq Handles
          /\ ~ Lane!Findable(l) => h \in lanesLate'
      BY <1>1, <2>3, <2>9 DEF HandleTypes
    <3>2. HandleTypes'
      BY <1>1, <2>1, <2>2, <2>6, <2>9, <3>1 DEF HandleTypes
    <3>3. hold'[p] = h
      BY <1>1, <2>9 DEF PieceTypes
    <3>4. \A m \in Lanes : \A g \in Lane!Entry(m)' \cup parked'[m] :
              (g \in Lane!Entry(m) \cup parked[m] /\ g # h) \/ (g = h /\ m = l)
      BY <2>2, <2>3, <3>1 DEF Lane!Entry
    <3>5. HandlesApart'
      <4>1. \A m \in Lanes : \A g \in Lane!Entry(m) \cup parked[m] : g \in Handles
        BY <1>1 DEF HandleTypes, Lane!Entry
      <4>2. \A m \in Lanes : \A g \in Lane!Entry(m)' \cup parked'[m] :
                on'[g] = m /\ g \notin closing' /\ g \notin unused'
        BY <1>1, <2>1, <2>3, <2>6, <2>9, <3>4, <4>1 DEF HandlesOnce, HandlesApart
      <4>3. \A m \in Lanes : cached'[m] \notin parked'[m]
        BY <1>1, <2>2, <2>3, <3>1 DEF HandlesOnce, HandlesApart
      <4>4. \A g \in unused' : g \notin closing' /\ ~ Lane!UsedBy(g, hold')
        BY <1>1, <2>1, <2>8, <2>9, <3>3 DEF HandlesOnce, HandlesApart, HandleTypes
      <4> QED BY <4>2, <4>3, <4>4 DEF HandlesApart, Lane!UsedBy
    <3>6. \A g \in closing' : ~ Lane!UsedBy(g, hold')
      BY <1>1, <2>3, <2>8, <2>9, <3>3 DEF HandlesOnce, Lane!NoneClosedInUse, HandleTypes
    <3>7. Found'
      BY <1>1, <2>2, <3>1, <3>4 DEF Found, Lane!Findable
    <3>8. sweep # "off" => owed # h /\ (Owing' => Owing) /\ on'[owed] = on[owed]
      <4>1. sweep # "off" => owed \in Handles /\ owed # h /\ on'[owed] = on[owed] /\ on[owed] \in Lanes
        BY <1>1, <2>1, <2>6 DEF SweepKept
      <4> QED BY <2>2, <3>1, <4>1 DEF Owing, Lane!Entry
    <3>9. SweepKept'
      BY <1>1, <2>1, <2>2, <3>1, <3>8 DEF SweepKept
    <3> QED BY <2>2, <2>5, <3>2, <3>5, <3>6, <3>7, <3>9, LaneAlone
            DEF LaneInv, HandlesOnce, Lane!NoneClosedInUse, Lane!UsedBy
  <2>10. CASE /\ cached[l] # NoHandle
              /\ hold' = [hold EXCEPT ![p] = cached[l]] /\ closing' = closing \cup {h}
              /\ UNCHANGED <<cached, lanesLate>>
    <3>1. HandleTypes'
      BY <1>1, <2>1, <2>2, <2>3, <2>6, <2>10 DEF HandleTypes
    <3>2. hold'[p] = cached[l] /\ cached[l] \in Lane!Entry(l) /\ cached[l] \notin closing /\ cached[l] \notin unused
      BY <1>1, <2>3, <2>10 DEF PieceTypes, HandlesOnce, HandlesApart, Lane!Entry
    <3>3. \A m \in Lanes : Lane!Entry(m)' = Lane!Entry(m) /\ parked'[m] = parked[m]
                           /\ h \notin Lane!Entry(m) \cup parked[m]
      BY <2>2, <2>3, <2>10 DEF Lane!Entry
    <3>4. HandlesApart'
      <4>1. \A m \in Lanes : \A g \in Lane!Entry(m) \cup parked[m] : g \in Handles
        BY <1>1 DEF HandleTypes, Lane!Entry
      <4>2. \A m \in Lanes : \A g \in Lane!Entry(m)' \cup parked'[m] :
                on'[g] = m /\ g \notin closing' /\ g \notin unused'
        BY <1>1, <2>1, <2>6, <2>10, <3>3, <4>1 DEF HandlesOnce, HandlesApart
      <4>3. \A m \in Lanes : cached'[m] \notin parked'[m]
        BY <1>1, <2>2, <2>10 DEF HandlesOnce, HandlesApart
      <4>4. \A g \in unused' : g \notin closing' /\ ~ Lane!UsedBy(g, hold')
        <5>1. ASSUME NEW g \in unused'
              PROVE  g \in Handles /\ g \in unused /\ g # h /\ g \notin closing /\ ~ Lane!UsedBy(g, hold)
          BY <1>1, <2>1, <5>1 DEF HandlesOnce, HandlesApart, HandleTypes
        <5> QED BY <2>8, <2>10, <3>2, <5>1
      <4> QED BY <4>2, <4>3, <4>4 DEF HandlesApart, Lane!UsedBy
    <3>5. \A g \in closing' : ~ Lane!UsedBy(g, hold')
      BY <1>1, <2>3, <2>8, <2>10, <3>2 DEF HandlesOnce, Lane!NoneClosedInUse, HandleTypes
    <3>6. Found'
      BY <1>1, <2>2, <2>10, <3>3 DEF Found, Lane!Findable
    <3>7. sweep # "off" => (Owing' => Owing) /\ on'[owed] = on[owed]
      <4>1. sweep # "off" => owed \in Handles /\ owed # h /\ on'[owed] = on[owed] /\ on[owed] \in Lanes
        BY <1>1, <2>1, <2>6 DEF SweepKept
      <4> QED BY <2>2, <3>3, <4>1 DEF Owing
    <3>8. SweepKept'
      BY <1>1, <2>1, <2>2, <2>10, <3>7 DEF SweepKept
    <3> QED BY <2>2, <2>5, <3>1, <3>4, <3>5, <3>6, <3>8, LaneAlone
            DEF LaneInv, HandlesOnce, Lane!NoneClosedInUse, Lane!UsedBy
  <2> QED BY <2>1, <2>9, <2>10
<1>5. CASE Lane!Served(p)
  <2>1. /\ phase' = [phase EXCEPT ![p] = "idle"] /\ lane' = [lane EXCEPT ![p] = NoLane]
        /\ lost' = [lost EXCEPT ![p] = "no"] /\ hold' = [hold EXCEPT ![p] = NoHandle]
        /\ UNCHANGED <<generation, moving, laneOf, live, leaving, draining, due, ending, unopened, opener, openFor,
                       failures, waiting, cached, parked, closing, unused, on, lanesLate, sweep, owed, seen, straddled, reads>>
    BY <1>5 DEF Lane!Served, Lane!Done, Lane!pool, Lane!lists, Lane!opens, Lane!handles, Lane!sweeping
  <2>2. PieceTypes'
    BY <1>1, <2>1 DEF PieceTypes, Lane!PiecePhases
  <2>3. PiecesPlaced'
    BY <1>1, <2>1, <2>2 DEF PiecesPlaced, PieceTypes
  <2>4. \A h \in Handles : Lane!UsedBy(h, hold') => Lane!UsedBy(h, hold)
    BY <1>1, <2>1 DEF PieceTypes, Lane!UsedBy
  <2>5. HandlesOnce'
    BY <1>1, <2>1, <2>4, LaneHandlesSame
  <2> QED BY <2>1, <2>3, <2>5, LaneAlone DEF LaneInv
<1>6. CASE Lane!Short(p) \/ Lane!Fails(p)
  <2>1. /\ hold' = [hold EXCEPT ![p] = NoHandle] /\ Lane!Invalidate({lane[p]}, hold')
        /\ phase' = [phase EXCEPT ![p] = "main"] /\ phase[p] \in {"opening", "reading"}
        /\ UNCHANGED <<generation, moving, laneOf, live, leaving, draining, due, ending, unopened, opener, openFor,
                       failures, waiting, unused, on, lanesLate, sweep, owed, seen, straddled, lane, reads>>
    BY <1>6 DEF Lane!Short, Lane!Fails, Lane!pool, Lane!lists, Lane!opens, Lane!sweeping
  <2>2. lost' \in [Pieces -> {"no", "failed", "gone"}]
    BY <1>1, <1>6 DEF Lane!Short, Lane!Fails, PieceTypes
  <2>3. {lane[p]} \in SUBSET Lanes
    BY <1>1, <2>1 DEF PiecesPlaced
  <2>4. \A h \in Handles : Lane!UsedBy(h, hold') => Lane!UsedBy(h, hold)
    BY <1>1, <2>1 DEF PieceTypes, Lane!UsedBy
  <2>5. /\ HandlesOnce'
        /\ HeldKept
    BY <1>1, <2>1, <2>3, <2>4, LaneInvalidates
  <2>6. Found' /\ SweepKept'
    BY <1>1, <2>1, <2>5, LaneReaches DEF PlacesKept
  <2>7. PieceTypes'
    BY <1>1, <2>1, <2>2 DEF PieceTypes, Lane!PiecePhases
  <2>8. PiecesPlaced'
    BY <1>1, <2>1, <2>7 DEF PiecesPlaced, PieceTypes
  <2> QED BY <2>1, <2>5, <2>6, <2>8, LaneAlone DEF LaneInv
<1>7. ASSUME NEW ok \in BOOLEAN, Lane!MainAnswers(p, ok) PROVE LaneInv'
  <2>1. /\ phase' = [phase EXCEPT ![p] = "idle"] /\ lane' = [lane EXCEPT ![p] = NoLane]
        /\ lost' = [lost EXCEPT ![p] = "no"]
        /\ UNCHANGED <<opener, openFor, failures, waiting, cached, parked, closing, unused, on,
                       lanesLate, sweep, owed, seen, straddled, hold, reads>>
    BY <1>7 DEF Lane!MainAnswers, Lane!Done, Lane!opens, Lane!handles, Lane!sweeping
  <2>2. PieceTypes'
    BY <1>1, <2>1 DEF PieceTypes, Lane!PiecePhases
  <2>3. PiecesPlaced'
    BY <1>1, <2>1, <2>2 DEF PiecesPlaced, PieceTypes
  <2>4. CASE lane[p] \in live /\ Lane!Retire(lane[p])
    <3>1. PoolKept' /\ HandlesOnce' /\ Found' /\ SweepKept'
      BY <2>1, <2>4, LaneRetires
    <3> QED BY <2>3, <3>1 DEF LaneInv
  <2>5. CASE UNCHANGED <<generation, moving, laneOf, live, leaving, draining, due, ending, unopened>>
    BY <2>1, <2>3, <2>5, LaneAlone DEF LaneInv
  <2> QED BY <1>7, <2>4, <2>5 DEF Lane!MainAnswers, Lane!pool, Lane!lists
<1> QED BY <1>2, <1>3, <1>4, <1>5, <1>6, <1>7 DEF Lane!Ends

\* Every action keeps the invariant.
LEMMA LaneStep ==
    ASSUME Lane!LanesAssumption, LaneInv, [Lane!Next]_(Lane!vars) PROVE LaneInv'
<1>1. CASE UNCHANGED Lane!vars
  BY <1>1, LaneAlone DEF Lane!vars, Lane!pool, Lane!lists, Lane!opens, Lane!handles, Lane!sweeping, Lane!piece, LaneInv
<1> QED BY <1>1, LanePoolMoves, LaneLetsGo, LaneForgets, LaneReads DEF Lane!Next

\* A step of the run in this part is one of the module's, or none.
LEMMA LaneMoves ==
    ASSUME [SuiteNext]_suiteVars, part = "lanes" \/ part' = "lanes"
    PROVE  part' = part /\ [Lane!Next]_(Lane!vars)
<1>1. part' = part
  BY DEF SuiteNext, suiteVars, OnlyUpload, OnlyGate, OnlySession, OnlyLanes, OnlyWrites,
                OnlyDownloads, OnlyWinfs
<1> QED BY <1>1 DEF SuiteNext, suiteVars, OnlyUpload, OnlyGate, OnlySession, OnlyLanes, OnlyWrites,
                OnlyDownloads, OnlyWinfs, Lane!vars, Lane!pool, Lane!lists, Lane!opens, Lane!handles, Lane!sweeping, Lane!piece

\* Reads go over lanes of the present session only, no handle is closed under a read, and
\* a write that has been through the pool's two lists has taken every handle cached when it
\* began, but where its lane was between the lists at both looks (pool.rs, all).
THEOREM LaneSound == SuiteSpec => []LaneHandlesKept
<1>1. SuiteInit => (part = "lanes" => LaneInv)
  <2>1. SUFFICES ASSUME SuiteInit, part = "lanes" PROVE LaneInv
    OBVIOUS
  <2>2. Lane!Init
    BY <2>1 DEF SuiteInit
  <2> QED BY <2>2, LaneInit, LaneOk
<1>2. (part = "lanes" => LaneInv) /\ [SuiteNext]_suiteVars => (part = "lanes" => LaneInv)'
  <2>1. SUFFICES ASSUME part = "lanes" => LaneInv, [SuiteNext]_suiteVars, part' = "lanes"
                 PROVE  LaneInv'
    OBVIOUS
  <2>2. part' = part /\ [Lane!Next]_(Lane!vars)
    BY <2>1, LaneMoves
  <2> QED BY <2>1, <2>2, LaneStep, LaneOk
<1>3. (part = "lanes" => LaneInv) => LaneHandlesKept
  BY LaneTyped DEF LaneHandlesKept
<1> QED BY <1>1, <1>2, <1>3, PTL DEF SuiteSpec

==============================================================================
