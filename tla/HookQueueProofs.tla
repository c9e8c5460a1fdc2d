---------------------------- MODULE HookQueueProofs ----------------------------
(* Proofs about HookQueue for any events and any nesting of conversations. *)
EXTENDS HookQueue, SequenceTheorems, TLAPS

LEMMA TicketForms ==
  /\ \A e \in Events : Own(e) \in Tickets /\ Second(e) \in Tickets /\ Own(e) # Second(e)
  /\ \A t \in Tickets : \E e \in Events : t = Own(e) \/ t = Second(e)
BY DEF Tickets, Own, Second

(***************************************************************************)
(* Types.  That a subagent's event is routed to a parent is part of the    *)
(* induction: the parent is what the event reserves a ticket of.  So is    *)
(* that a conversation is taken over by an event of another one.           *)
(***************************************************************************)
Early == {"new", "wait", "join", "waitParent", "read"}
Taking(e) == /\ pc[e] \in Early => other[e] = NoKey
             /\ pc[e] = "take" => other[e] # NoKey
             /\ other[e] # NoKey => ~HasParent(e) /\ other[e] # key[e]
Typed == TypeOK /\ \A e \in Events : Routed(e) /\ Taking(e)

LEMMA InitTyped == Init => Typed
BY KeyAssumption DEF Init, Typed, TypeOK, Routed, Taking

LEMMA ReserveTyping ==
  ASSUME TypeOK, NEW t \in Tickets, NEW k \in Keys, Reserve(t, k)
  PROVE  /\ prev' \in [Tickets -> Tickets \cup {NoTicket}]
         /\ tail' \in [Keys -> Tickets \cup {NoTicket}]
         /\ arrived' \in [Keys -> Seq(Tickets)]
<1>1. prev' \in [Tickets -> Tickets \cup {NoTicket}] /\ tail' \in [Keys -> Tickets \cup {NoTicket}]
  BY DEF TypeOK, Reserve
<1>2. Append(arrived[k], t) \in Seq(Tickets)
  BY AppendProperties DEF TypeOK
<1> QED BY <1>1, <1>2 DEF TypeOK, Reserve

LEMMA ReleaseTyping ==
  ASSUME TypeOK, NEW t \in Tickets, NEW k \in Keys, Release(t, k)
  PROVE  closed' \in SUBSET Tickets /\ gone' \in [Keys -> Nat]
BY DEF TypeOK, Release

\* The conversation whose row an event changes is one of the conversations.
LEMMA TargetType ==
  ASSUME Typed, NEW e \in Events, pc[e] # "new"
  PROVE  key[e] \in Keys /\ Target(e) \in Keys /\ (HasParent(e) => ParentOf[key[e]] \in Keys)
BY ParentAssumption DEF Typed, Routed, Target, HasParent

LEMMA ReceiveTyped ==
  ASSUME Typed, NEW e \in Events, NEW k \in Keys, Receive(e, k)
  PROVE  Typed'
<1> USE DEF rows
<1>1. Own(e) \in Tickets
  BY TicketForms
<1>2. TypeOK'
  BY <1>1, ReserveTyping DEF Typed, TypeOK, Receive, Goto
<1>3. \A f \in Events : Routed(f)' /\ Taking(f)'
  BY DEF Typed, TypeOK, Receive, Goto, Routed, Taking, Early, HasParent
<1> QED BY <1>2, <1>3 DEF Typed

LEMMA ProcessTyped ==
  ASSUME Typed, NEW e \in Events, Process(e)
  PROVE  Typed'
<1> USE DEF Goto, rows
<1>1. CASE TakeTurn(e)
  BY <1>1 DEF TakeTurn, Typed, TypeOK, Routed, Taking, Early, HasParent
<1>2. CASE JoinParent(e)
  <2>1. Second(e) \in Tickets /\ ParentOf[key[e]] \in Keys
    BY <1>2, TicketForms, TargetType DEF JoinParent, Typed, Routed
  <2>2. TypeOK'
    BY <1>2, <2>1, ReserveTyping DEF Typed, TypeOK, JoinParent
  <2>3. \A f \in Events : Routed(f)' /\ Taking(f)'
    BY <1>2 DEF JoinParent, Typed, TypeOK, Routed, Taking, Early, HasParent
  <2> QED BY <2>2, <2>3 DEF Typed
<1>3. CASE TakeParent(e)
  BY <1>3 DEF TakeParent, Typed, TypeOK, Routed, Taking, Early, HasParent
<1>4. CASE Read(e)
  <2>1. Target(e) \in Keys /\ pc[e] = "read" /\ other[e] = NoKey
    BY <1>4, TargetType DEF Read, Typed, Taking, Early
  <2>2. PICK c \in Seq(Events), o \in Keys \cup {NoKey},
             phase \in {"take", "save", "leaveParent", "leave"} :
          /\ copy' = [copy EXCEPT ![e] = c]
          /\ other' = [other EXCEPT ![e] = o]
          /\ pc' = [pc EXCEPT ![e] = phase]
          /\ (phase = "take") <=> (o # NoKey)
          /\ phase = "take" => ~HasParent(e) /\ o # key[e]
          /\ phase = "leaveParent" => HasParent(e)
    <3>1. CASE copy' = [copy EXCEPT ![e] = row[Target(e)]] /\ Goto(e, "save") /\ UNCHANGED other
      <4>1. row[Target(e)] \in Seq(Events) /\ other' = [other EXCEPT ![e] = NoKey]
        BY <2>1, <3>1 DEF Typed, TypeOK
      <4> QED BY <3>1, <4>1
    <3>2. CASE /\ Goto(e, IF HasParent(e) THEN "leaveParent" ELSE "leave")
               /\ UNCHANGED <<copy, other>>
      <4>1. /\ copy[e] \in Seq(Events) /\ copy' = [copy EXCEPT ![e] = copy[e]]
            /\ other' = [other EXCEPT ![e] = NoKey]
        BY <2>1, <3>2 DEF Typed, TypeOK
      <4> QED BY <3>2, <4>1
    <3>3. ASSUME ~HasParent(e), NEW k \in Keys \ {key[e]}, Goto(e, "take"),
                 other' = [other EXCEPT ![e] = k], copy' = [copy EXCEPT ![e] = row[k]]
          PROVE  \E c \in Seq(Events), o \in Keys \cup {NoKey},
                    phase \in {"take", "save", "leaveParent", "leave"} :
                   /\ copy' = [copy EXCEPT ![e] = c]
                   /\ other' = [other EXCEPT ![e] = o]
                   /\ pc' = [pc EXCEPT ![e] = phase]
                   /\ (phase = "take") <=> (o # NoKey)
                   /\ phase = "take" => ~HasParent(e) /\ o # key[e]
                   /\ phase = "leaveParent" => HasParent(e)
      <4>1. row[k] \in Seq(Events) /\ k # NoKey
        BY KeyAssumption DEF Typed, TypeOK
      <4> QED BY <3>3, <4>1
    <3> QED BY <1>4, <3>1, <3>2, <3>3 DEF Read
  <2>3. TypeOK'
    BY <1>4, <2>2 DEF Read, Typed, TypeOK
  <2>4. \A f \in Events : Routed(f)' /\ Taking(f)'
    BY <1>4, <2>1, <2>2 DEF Read, Typed, TypeOK, Routed, Taking, Early, HasParent
  <2> QED BY <2>3, <2>4 DEF Typed
<1>5. CASE TakeOver(e)
  <2>1. copy[e] \in Seq(Events) /\ <<>> \in Seq(Events) /\ other[e] \in Keys
    BY <1>5 DEF TakeOver, Typed, TypeOK, Taking
  <2>0. PICK r \in Seq(Events) : row' = [row EXCEPT ![other[e]] = r]
    BY <1>5, <2>1 DEF TakeOver
  <2>2. row' \in [Keys -> Seq(Events)] /\ copy' \in [Events -> Seq(Events)]
    BY <1>5, <2>0, <2>1 DEF TakeOver, Typed, TypeOK
  <2>4. TypeOK'
    BY <1>5, <2>1, <2>2 DEF TakeOver, Typed, TypeOK
  <2>3. \A f \in Events : Routed(f)' /\ Taking(f)'
    BY <1>5 DEF TakeOver, Typed, TypeOK, Routed, Taking, Early, HasParent
  <2> QED BY <2>3, <2>4 DEF Typed
<1>8. CASE Save(e)
  <2>1. Target(e) \in Keys /\ Append(copy[e], e) \in Seq(Events)
    BY <1>8, TargetType, AppendProperties DEF Save, Typed, TypeOK
  <2>2. TypeOK'
    BY <1>8, <2>1 DEF Save, Typed, TypeOK
  <2>3. \A f \in Events : Routed(f)' /\ Taking(f)'
    BY <1>8 DEF Save, Typed, TypeOK, Routed, Taking, Early, HasParent
  <2> QED BY <2>2, <2>3 DEF Typed
<1>6. CASE LeaveParent(e)
  <2>1. Second(e) \in Tickets /\ ParentOf[key[e]] \in Keys
    BY <1>6, TicketForms, TargetType DEF LeaveParent, Typed, Routed
  <2>2. TypeOK'
    BY <1>6, <2>1, ReleaseTyping DEF Typed, TypeOK, LeaveParent
  <2>3. \A f \in Events : Routed(f)' /\ Taking(f)'
    BY <1>6 DEF LeaveParent, Typed, TypeOK, Routed, Taking, Early, HasParent
  <2> QED BY <2>2, <2>3 DEF Typed
<1>7. CASE Leave(e)
  <2>1. Own(e) \in Tickets /\ key[e] \in Keys
    BY <1>7, TicketForms, TargetType DEF Leave
  <2>2. TypeOK'
    BY <1>7, <2>1, ReleaseTyping DEF Typed, TypeOK, Leave
  <2>3. \A f \in Events : Routed(f)' /\ Taking(f)'
    BY <1>7 DEF Leave, Typed, TypeOK, Routed, Taking, Early, HasParent
  <2> QED BY <2>2, <2>3 DEF Typed
<1> QED BY <1>1, <1>2, <1>3, <1>4, <1>5, <1>6, <1>7, <1>8 DEF Process

LEMMA StutterTyped == Typed /\ UNCHANGED vars => Typed'
BY DEF vars, rows, Typed, TypeOK, Routed, Taking, Early, HasParent

LEMMA StepTyped == Typed /\ [Next]_vars => Typed'
BY ReceiveTyped, ProcessTyped, StutterTyped DEF Next

LEMMA AlwaysTyped == Spec => []Typed
BY InitTyped, StepTyped, PTL DEF Spec

\* The variables have their types in every reachable state.
THEOREM Typing == Spec => []TypeOK
<1>1. Typed => TypeOK
  BY DEF Typed
<1> QED BY <1>1, AlwaysTyped, PTL

\* A ticket that is appended to the reservations is appended to the line.
LEMMA SubSeqAppend ==
  ASSUME NEW S, NEW s \in Seq(S), NEW t \in S, NEW g \in 0..Len(s)
  PROVE  SubSeq(Append(s, t), g + 1, Len(s) + 1) = Append(SubSeq(s, g + 1, Len(s)), t)
<1> DEFINE a == Append(s, t)
           u == SubSeq(s, g + 1, Len(s))
           v == SubSeq(a, g + 1, Len(s) + 1)
           w == Append(u, t)
<1>1. a \in Seq(S) /\ Len(a) = Len(s) + 1 /\ a[Len(s) + 1] = t
      /\ \A i \in 1..Len(s) : a[i] = s[i]
  BY AppendProperties
<1>2. Len(s) \in Nat /\ \A i \in 1..Len(s) : s[i] \in S
  OBVIOUS
<1>3. /\ u \in Seq(S)
      /\ Len(u) = IF g + 1 <= Len(s) THEN Len(s) - (g + 1) + 1 ELSE 0
      /\ \A i \in 1..Len(s) - (g + 1) + 1 : u[i] = s[g + 1 + i - 1]
  <2>1. g + 1 \in Int /\ Len(s) \in Int /\ \A i \in g + 1..Len(s) : s[i] \in S
    BY <1>2
  <2> HIDE DEF u
  <2> QED BY <2>1, SubSeqProperties DEF u
<1>4. /\ v \in Seq(S)
      /\ Len(v) = IF g + 1 <= Len(s) + 1 THEN Len(s) + 1 - (g + 1) + 1 ELSE 0
      /\ \A i \in 1..Len(s) + 1 - (g + 1) + 1 : v[i] = a[g + 1 + i - 1]
  <2>1. g + 1 \in Int /\ Len(s) + 1 \in Int /\ \A i \in g + 1..Len(s) + 1 : a[i] \in S
    <3> HIDE DEF a
    <3> QED BY <1>1, <1>2
  <2> HIDE DEF a, v
  <2> QED BY <2>1, SubSeqProperties DEF v
<1> HIDE DEF a, u, v
<1>5. /\ w \in Seq(S) /\ Len(w) = Len(u) + 1 /\ w[Len(u) + 1] = t
      /\ \A i \in 1..Len(u) : w[i] = u[i]
  BY <1>3, AppendProperties
<1> HIDE DEF w
<1>6. Len(u) = Len(s) - g /\ Len(v) = Len(s) - g + 1 /\ Len(v) = Len(w)
  BY <1>2, <1>3, <1>4, <1>5
<1>7. ASSUME NEW i \in 1..Len(v) PROVE v[i] = w[i]
  <2>1. i \in 1..Len(s) + 1 - (g + 1) + 1 /\ g + 1 + i - 1 = g + i
    BY <1>2, <1>6
  <2>2. v[i] = a[g + i]
    BY <2>1, <1>4
  <2>3. CASE i = Len(u) + 1
    BY <2>2, <2>3, <1>1, <1>2, <1>5, <1>6
  <2>4. CASE i # Len(u) + 1
    <3>1. i \in 1..Len(u) /\ i \in 1..Len(s) - (g + 1) + 1 /\ g + i \in 1..Len(s)
      BY <2>4, <1>2, <1>6
    <3> QED BY <2>1, <2>2, <3>1, <1>1, <1>3, <1>5
  <2> QED BY <2>3, <2>4
<1>8. v = w
  BY <1>4, <1>5, <1>6, <1>7, SeqEqual
<1> QED BY <1>8 DEF v, w, u, a

(***************************************************************************)
(* The chain.  What happens to one ticket is one of three steps of the     *)
(* lock; the four lemmas below say, for each of them and for a step that   *)
(* moves no ticket, that the chain stays whole and that the FIFO lock      *)
(* takes the same step.                                                    *)
(***************************************************************************)
Line(k) == SubSeq(arrived[k], gone[k] + 1, Len(arrived[k]))

\* No ticket of the set S changes its place.
Untouched(S) == \A u \in S : /\ Status(u)' = Status(u)
                             /\ Status(u) # "none" => KeyOf(u)' = KeyOf(u)
Lined == /\ \A k \in Keys : Links(k) /\ Ends(k)
         /\ \A t \in Tickets : InLine(t)

LEMMA LineIs ==
  ASSUME TypeOK, NEW k \in Keys, Ends(k)
  PROVE  /\ Line(k) \in Seq(Tickets)
         /\ Len(Line(k)) = Len(arrived[k]) - gone[k]
         /\ \A i \in 1..Len(arrived[k]) - gone[k] : Line(k)[i] = arrived[k][gone[k] + i]
         /\ Len(arrived[k]) \in Nat /\ gone[k] \in Nat /\ arrived[k] \in Seq(Tickets)
         /\ gone[k] <= Len(arrived[k])
         /\ \A i \in 1..Len(arrived[k]) : arrived[k][i] \in Tickets
<1>1. /\ Len(arrived[k]) \in Nat /\ gone[k] \in Nat /\ arrived[k] \in Seq(Tickets)
      /\ gone[k] <= Len(arrived[k])
      /\ \A i \in 1..Len(arrived[k]) : arrived[k][i] \in Tickets
  BY DEF TypeOK, Ends
<1>2. gone[k] + 1 \in Int /\ Len(arrived[k]) \in Int
      /\ \A i \in gone[k] + 1..Len(arrived[k]) : arrived[k][i] \in Tickets
  BY <1>1
<1>3. /\ Line(k) \in Seq(Tickets)
      /\ Len(Line(k)) = IF gone[k] + 1 <= Len(arrived[k])
                          THEN Len(arrived[k]) - (gone[k] + 1) + 1 ELSE 0
      /\ \A i \in 1..Len(arrived[k]) - (gone[k] + 1) + 1 :
           Line(k)[i] = arrived[k][gone[k] + 1 + i - 1]
  BY <1>2, SubSeqProperties DEF Line
<1>4. Len(Line(k)) = Len(arrived[k]) - gone[k]
  BY <1>1, <1>3
<1>5. ASSUME NEW i \in 1..Len(arrived[k]) - gone[k]
      PROVE  Line(k)[i] = arrived[k][gone[k] + i]
  <2>1. i \in 1..Len(arrived[k]) - (gone[k] + 1) + 1 /\ gone[k] + 1 + i - 1 = gone[k] + i
    BY <1>1
  <2> QED BY <1>3, <2>1
<1> QED BY <1>1, <1>3, <1>4, <1>5

\* A ticket that is let in is the first that is not released.
LEMMA FirstInLine ==
  ASSUME TypeOK, Lined, NEW t \in Tickets, NEW k \in Keys, KeyOf(t) = k,
         \/ Status(t) = "waiting" /\ MayEnter(t)
         \/ Status(t) = "inside"
  PROVE  gone[k] + 1 \in 1..Len(arrived[k]) /\ arrived[k][gone[k] + 1] = t
<1>1. PICK i \in 1..Len(arrived[k]) : arrived[k][i] = t
  BY DEF Lined, InLine
<1>2. /\ prev[t] = IF i = 1 THEN NoTicket ELSE arrived[k][i-1]
      /\ Status(t) = "released" <=> i <= gone[k]
      /\ Status(t) = "inside" => i = gone[k] + 1
  BY <1>1 DEF Lined, Links
<1>3. Len(arrived[k]) \in Nat /\ gone[k] \in Nat /\ arrived[k] \in Seq(Tickets)
  BY DEF TypeOK
<1>4. CASE Status(t) = "inside"
  BY <1>1, <1>2, <1>4
<1>5. CASE Status(t) = "waiting" /\ MayEnter(t)
  <2>1. i > gone[k]
    BY <1>2, <1>3, <1>5
  <2>2. CASE i = 1
    BY <2>1, <2>2, <1>1, <1>3
  <2>3. CASE i # 1
    <3>1. i - 1 \in 1..Len(arrived[k]) /\ prev[t] = arrived[k][i-1]
      BY <2>3, <1>2, <1>3
    <3>2. arrived[k][i-1] \in Tickets
      BY <3>1, <1>3
    <3>3. arrived[k][i-1] \in closed
      BY <1>5, <3>1, <3>2, TicketAssumption DEF MayEnter
    <3>4. Status(arrived[k][i-1]) = "released"
      BY <3>2, <3>3 DEF Lined, InLine
    <3>5. i - 1 <= gone[k]
      BY <3>1, <3>4 DEF Lined, Links
    <3> QED BY <2>1, <3>5, <1>1, <1>3
  <2> QED BY <2>2, <2>3
<1> QED BY <1>4, <1>5

LEMMA StayStep ==
  ASSUME TypeOK, Lined, Untouched(Tickets), UNCHANGED <<tail, prev, closed, arrived, gone>>
  PROVE  Lined' /\ UNCHANGED Lock!vars
<1>1. ASSUME NEW k \in Keys PROVE Links(k)'
  <2> SUFFICES ASSUME NEW i \in 1..Len(arrived[k])
               PROVE  /\ Status(arrived[k][i])' # "none" /\ KeyOf(arrived[k][i])' = k
                      /\ prev[arrived[k][i]] = IF i = 1 THEN NoTicket ELSE arrived[k][i-1]
                      /\ Status(arrived[k][i])' = "released" <=> i <= gone[k]
                      /\ Status(arrived[k][i])' = "inside" => i = gone[k] + 1
    BY DEF Links
  <2>1. arrived[k][i] \in Tickets
    BY DEF TypeOK
  <2> QED BY <2>1 DEF Untouched, Lined, Links
<1>2. \A k \in Keys : Ends(k)'
  BY DEF Lined, Ends
<1>3. \A t \in Tickets : InLine(t)'
  BY DEF Lined, InLine, Untouched
<1>4. UNCHANGED Lock!vars
  BY DEF Lock!vars, Untouched
<1> QED BY <1>1, <1>2, <1>3, <1>4 DEF Lined

LEMMA JoinStep ==
  ASSUME TypeOK, Lined, NEW t \in Tickets, NEW k \in Keys, Reserve(t, k),
         UNCHANGED <<closed, gone>>,
         Status(t) = "none", Status(t)' = "waiting", KeyOf(t)' = k, Untouched(Tickets \ {t})
  PROVE  Lined' /\ Lock!Join(t, k)
<1> DEFINE a == arrived[k]  g == gone[k]
<1>1. /\ a \in Seq(Tickets) /\ Len(a) \in Nat /\ g \in Nat /\ g <= Len(a)
      /\ \A q \in Keys : \A i \in 1..Len(arrived[q]) : arrived[q][i] \in Tickets
  BY DEF TypeOK, Lined, Ends
<1>2. \A q \in Keys : \A i \in 1..Len(arrived[q]) : arrived[q][i] \in Tickets \ {t}
  BY <1>1 DEF Lined, Links
<1>3. /\ arrived' = [arrived EXCEPT ![k] = Append(a, t)]
      /\ arrived'[k] = Append(a, t) /\ tail'[k] = t /\ prev'[t] = tail[k]
      /\ \A u \in Tickets \ {t} : prev'[u] = prev[u]
      /\ \A q \in Keys \ {k} : arrived'[q] = arrived[q] /\ tail'[q] = tail[q]
  BY DEF Reserve, TypeOK
<1>4. /\ Append(a, t) \in Seq(Tickets) /\ Len(Append(a, t)) = Len(a) + 1
      /\ \A i \in 1..Len(a) : Append(a, t)[i] = a[i]
      /\ Append(a, t)[Len(a) + 1] = t
  BY <1>1, AppendProperties
<1>5. ASSUME NEW q \in Keys \ {k} PROVE Links(q)' /\ Ends(q)'
  <2>1. ASSUME NEW i \in 1..Len(arrived[q])
        PROVE  /\ Status(arrived[q][i])' # "none" /\ KeyOf(arrived[q][i])' = q
               /\ prev'[arrived[q][i]] = IF i = 1 THEN NoTicket ELSE arrived[q][i-1]
               /\ Status(arrived[q][i])' = "released" <=> i <= gone[q]
               /\ Status(arrived[q][i])' = "inside" => i = gone[q] + 1
    <3>1. arrived[q][i] \in Tickets \ {t}
      BY <1>2
    <3>2. prev'[arrived[q][i]] = prev[arrived[q][i]]
      BY <1>3, <3>1
    <3>3. arrived'[q][i] = arrived[q][i]
      BY <1>3
    <3> QED BY <3>1, <3>2, <3>3 DEF Lined, Links, Untouched
  <2>2. Links(q)'
    BY <1>3, <2>1 DEF Links
  <2> QED BY <1>3, <2>2 DEF Lined, Ends
<1>6. Links(k)'
  <2>1. ASSUME NEW i \in 1..Len(a) + 1, NEW u \in Tickets, u = Append(a, t)[i]
        PROVE  /\ Status(u)' # "none" /\ KeyOf(u)' = k
               /\ prev'[u] = IF i = 1 THEN NoTicket ELSE Append(a, t)[i-1]
               /\ Status(u)' = "released" <=> i <= g
               /\ Status(u)' = "inside" => i = g + 1
    <3>1. CASE i = Len(a) + 1
      <4>1. u = t /\ (i = 1 <=> a = <<>>)
        BY <1>1, <1>4, <2>1, <3>1, EmptySeq
      <4>2. i # 1 => Append(a, t)[i-1] = a[Len(a)]
        BY <1>1, <1>4, <3>1
      <4>3. prev'[t] = IF i = 1 THEN NoTicket ELSE Append(a, t)[i-1]
        BY <1>3, <4>1, <4>2 DEF Lined, Ends
      <4>4. ~(i <= g)
        BY <1>1, <3>1
      <4> QED BY <4>1, <4>3, <4>4
    <3>2. CASE i # Len(a) + 1
      <4>1. i \in 1..Len(a)
        BY <1>1, <3>2
      <4>2. u = a[i] /\ u \in Tickets \ {t} /\ prev'[u] = prev[u]
        BY <2>1, <4>1, <1>2, <1>3, <1>4
      <4>3. i # 1 => Append(a, t)[i-1] = a[i-1]
        BY <4>1, <1>1, <1>4
      <4>4. /\ Status(u) # "none" /\ KeyOf(u) = k
            /\ prev[u] = IF i = 1 THEN NoTicket ELSE a[i-1]
            /\ Status(u) = "released" <=> i <= g
            /\ Status(u) = "inside" => i = g + 1
        BY <4>1, <4>2 DEF Lined, Links
      <4>5. Status(u)' = Status(u) /\ KeyOf(u)' = KeyOf(u)
        BY <4>2, <4>4 DEF Untouched
      <4> QED BY <4>2, <4>3, <4>4, <4>5
    <3> QED BY <3>1, <3>2
  <2>2. \A i \in 1..Len(a) + 1 : Append(a, t)[i] \in Tickets
    BY <1>1, <1>4
  <2>3. ASSUME NEW i \in 1..Len(arrived'[k])
        PROVE  /\ Status(arrived[k][i])' # "none" /\ KeyOf(arrived[k][i])' = k
               /\ prev'[arrived'[k][i]] = IF i = 1 THEN NoTicket ELSE arrived'[k][i-1]
               /\ Status(arrived[k][i])' = "released" <=> i <= gone'[k]
               /\ Status(arrived[k][i])' = "inside" => i = gone'[k] + 1
    <3>1. i \in 1..Len(a) + 1 /\ arrived'[k][i] \in Tickets /\ arrived'[k][i] = Append(a, t)[i]
      BY <1>3, <1>4, <2>2
    <3> QED BY <1>3, <2>1, <3>1
  <2> QED BY <2>3 DEF Links
<1>7. Ends(k)'
  <2>1. Append(a, t) # <<>>
    BY <1>1, AppendProperties
  <2>2. \A i \in 1..Len(a) : a[i] # t
    BY <1>2
  <2>3. \A i, j \in 1..Len(a) : a[i] = a[j] => i = j
    BY DEF Lined, Ends
  <2>4. \A i, j \in 1..Len(a) + 1 : Append(a, t)[i] = Append(a, t)[j] => i = j
    <3> SUFFICES ASSUME NEW i \in 1..Len(a) + 1, NEW j \in 1..Len(a) + 1,
                        Append(a, t)[i] = Append(a, t)[j]
                 PROVE  i = j
      OBVIOUS
    <3>1. i \in 1..Len(a) \/ i = Len(a) + 1
      BY <1>1
    <3>2. j \in 1..Len(a) \/ j = Len(a) + 1
      BY <1>1
    <3> QED BY <3>1, <3>2, <1>4, <2>2, <2>3
  <2>5. g <= Len(a) + 1
    BY <1>1
  <2> QED BY <1>3, <1>4, <2>1, <2>4, <2>5 DEF Ends
<1>8. ASSUME NEW u \in Tickets PROVE InLine(u)'
  <2>1. CASE u = t
    <3>1. Len(a) + 1 \in 1..Len(arrived'[k]) /\ arrived'[k][Len(a) + 1] = t
      BY <1>1, <1>3, <1>4
    <3>2. t \notin closed'
      BY DEF Lined, InLine
    <3> QED BY <2>1, <3>1, <3>2 DEF InLine
  <2>2. CASE u # t
    <3>1. Status(u)' = Status(u) /\ (Status(u) # "none" => KeyOf(u)' = KeyOf(u))
      BY <2>2 DEF Untouched
    <3>2. ASSUME Status(u) # "none"
          PROVE  \E i \in 1..Len(arrived'[KeyOf(u)]) : arrived'[KeyOf(u)][i] = u
      <4>1. PICK i \in 1..Len(arrived[KeyOf(u)]) : arrived[KeyOf(u)][i] = u
        BY <3>2 DEF Lined, InLine
      <4>2. KeyOf(u) \in Keys
        BY <3>2 DEF Lined, InLine
      <4>3. i \in 1..Len(arrived'[KeyOf(u)]) /\ arrived'[KeyOf(u)][i] = u
        <5>1. CASE KeyOf(u) = k
          BY <5>1, <4>1, <1>1, <1>3, <1>4
        <5>2. CASE KeyOf(u) # k
          BY <5>2, <4>1, <4>2, <1>3
        <5> QED BY <5>1, <5>2
      <4> QED BY <4>3
    <3> QED BY <3>1, <3>2 DEF Lined, InLine
  <2> QED BY <2>1, <2>2
<1>9. Lock!Join(t, k)
  <2>1. /\ Line(k)' = SubSeq(Append(a, t), g + 1, Len(a) + 1)
        /\ \A q \in Keys \ {k} : Line(q)' = Line(q)
    BY <1>3, <1>4 DEF Line
  <2>2. Line(k)' = Append(Line(k), t)
    <3> HIDE DEF a, g
    <3>1. g \in 0..Len(a)
      BY <1>1
    <3>2. SubSeq(Append(a, t), g + 1, Len(a) + 1) = Append(SubSeq(a, g + 1, Len(a)), t)
      BY <1>1, <3>1, SubSeqAppend
    <3> QED BY <2>1, <3>2 DEF Line, a, g
  <2>3. [q \in Keys |-> Line(q)]' = [[q \in Keys |-> Line(q)] EXCEPT ![k] = Append(@, t)]
    BY <2>1, <2>2
  <2>4. ASSUME NEW q \in Keys PROVE \A i \in DOMAIN Line(q) : Line(q)[i] # t
    <3>1. /\ Line(q) \in Seq(Tickets) /\ Len(Line(q)) = Len(arrived[q]) - gone[q]
          /\ \A i \in 1..Len(arrived[q]) - gone[q] : Line(q)[i] = arrived[q][gone[q] + i]
          /\ gone[q] \in Nat /\ Len(arrived[q]) \in Nat
      BY LineIs DEF Lined
    <3>2. ASSUME NEW i \in 1..Len(Line(q)) PROVE Line(q)[i] # t
      <4>1. gone[q] + i \in 1..Len(arrived[q]) /\ Line(q)[i] = arrived[q][gone[q] + i]
        BY <3>1
      <4> QED BY <4>1, <1>2
    <3> QED BY <3>1, <3>2
  <2>5. UNCHANGED {u \in Tickets : Status(u) = "inside"}
    BY DEF Untouched
  <2> QED BY <2>3, <2>4, <2>5 DEF Lock!Join, Line
<1> QED BY <1>5, <1>6, <1>7, <1>8, <1>9 DEF Lined

LEMMA HeadOfLine ==
  ASSUME TypeOK, Lined, NEW t \in Tickets, NEW k \in Keys, KeyOf(t) = k,
         (Status(t) = "waiting" /\ MayEnter(t)) \/ Status(t) = "inside"
  PROVE  /\ Line(k) # <<>> /\ Head(Line(k)) = t
         /\ Tail(Line(k)) = SubSeq(arrived[k], gone[k] + 2, Len(arrived[k]))
<1>1. gone[k] + 1 \in 1..Len(arrived[k]) /\ arrived[k][gone[k] + 1] = t
  BY FirstInLine
<1>2. arrived[k] \in Seq(Tickets) /\ gone[k] \in Nat /\ Len(arrived[k]) \in Nat
  BY DEF TypeOK
<1>3. Len(arrived[k]) \in gone[k] + 1..Len(arrived[k])
  BY <1>1, <1>2
<1>4. /\ Head(Line(k)) = arrived[k][gone[k] + 1]
      /\ Tail(Line(k)) = SubSeq(arrived[k], gone[k] + 1 + 1, Len(arrived[k]))
  BY <1>1, <1>2, <1>3, HeadTailOfSubSeq DEF Line
<1>5. Line(k) \in Seq(Tickets) /\ Len(Line(k)) = Len(arrived[k]) - gone[k]
  BY LineIs DEF Lined
<1>6. Line(k) # <<>>
  BY <1>1, <1>2, <1>5, EmptySeq
<1>7. gone[k] + 1 + 1 = gone[k] + 2
  BY <1>2
<1> QED BY <1>1, <1>4, <1>6, <1>7

LEMMA EnterStep ==
  ASSUME TypeOK, Lined, NEW t \in Tickets, NEW k \in Keys, MayEnter(t),
         UNCHANGED <<tail, prev, closed, arrived, gone>>,
         Status(t) = "waiting", Status(t)' = "inside", KeyOf(t) = k, KeyOf(t)' = k,
         Untouched(Tickets \ {t})
  PROVE  Lined' /\ Lock!Enter(t, k)
<1>1. gone[k] + 1 \in 1..Len(arrived[k]) /\ arrived[k][gone[k] + 1] = t
  BY FirstInLine
<1>2. \A q \in Keys : \A i \in 1..Len(arrived[q]) : arrived[q][i] \in Tickets
  BY DEF TypeOK
<1>3. \A u \in Tickets : KeyOf(u)' = KeyOf(u) \/ Status(u) = "none"
  BY DEF Untouched
<1>4. ASSUME NEW q \in Keys, NEW i \in 1..Len(arrived[q]), NEW u \in Tickets, u = arrived[q][i]
      PROVE  /\ Status(u)' # "none" /\ KeyOf(u)' = q
             /\ Status(u)' = "released" <=> i <= gone[q]
             /\ Status(u)' = "inside" => i = gone[q] + 1
  <2>1. /\ Status(u) # "none" /\ KeyOf(u) = q
        /\ Status(u) = "released" <=> i <= gone[q]
        /\ Status(u) = "inside" => i = gone[q] + 1
    BY <1>4 DEF Lined, Links
  <2>2. CASE u = t
    <3>1. q = k
      BY <2>1, <2>2
    <3>2. i = gone[k] + 1
      <4>1. \A m, n \in 1..Len(arrived[k]) : arrived[k][m] = arrived[k][n] => m = n
        BY DEF Lined, Ends
      <4>2. i \in 1..Len(arrived[k]) /\ arrived[k][i] = t
        BY <1>4, <2>2, <3>1
      <4> HIDE DEF MayEnter
      <4> QED BY <1>1, <4>1, <4>2
    <3> QED BY <2>1, <2>2, <3>1, <3>2
  <2>3. CASE u # t
    BY <2>1, <2>3 DEF Untouched
  <2> QED BY <2>2, <2>3
<1>5. ASSUME NEW q \in Keys PROVE Links(q)'
  <2>1. ASSUME NEW i \in 1..Len(arrived'[q])
        PROVE  /\ Status(arrived[q][i])' # "none" /\ KeyOf(arrived[q][i])' = q
               /\ prev'[arrived'[q][i]] = IF i = 1 THEN NoTicket ELSE arrived'[q][i-1]
               /\ Status(arrived[q][i])' = "released" <=> i <= gone'[q]
               /\ Status(arrived[q][i])' = "inside" => i = gone'[q] + 1
    <3>1. i \in 1..Len(arrived[q]) /\ arrived'[q][i] \in Tickets
          /\ arrived'[q][i] = arrived[q][i]
      BY <1>2
    <3>2. prev[arrived[q][i]] = IF i = 1 THEN NoTicket ELSE arrived[q][i-1]
      BY <3>1 DEF Lined, Links
    <3> QED BY <1>4, <3>1, <3>2
  <2> QED BY <2>1 DEF Links
<1>6. \A q \in Keys : Ends(q)'
  BY DEF Lined, Ends
<1>7. ASSUME NEW u \in Tickets PROVE InLine(u)'
  BY <1>3 DEF Lined, InLine, Untouched
<1>8. Lock!Enter(t, k)
  <2>1. Line(k) # <<>> /\ Head(Line(k)) = t
    BY HeadOfLine
  <2>2. {u \in Tickets : Status(u) = "inside"}'
          = {u \in Tickets : Status(u) = "inside"} \cup {t}
    BY DEF Untouched
  <2> QED BY <2>1, <2>2 DEF Lock!Enter, Line
<1> QED BY <1>5, <1>6, <1>7, <1>8 DEF Lined

LEMMA LeaveStep ==
  ASSUME TypeOK, Lined, NEW t \in Tickets, NEW k \in Keys, Release(t, k),
         UNCHANGED <<tail, prev, arrived>>,
         Status(t) = "inside", Status(t)' = "released", KeyOf(t) = k, KeyOf(t)' = k,
         Untouched(Tickets \ {t})
  PROVE  Lined' /\ Lock!Leave(t, k)
<1>1. gone[k] + 1 \in 1..Len(arrived[k]) /\ arrived[k][gone[k] + 1] = t
  BY FirstInLine
<1>2. /\ \A q \in Keys : \A i \in 1..Len(arrived[q]) : arrived[q][i] \in Tickets
      /\ \A q \in Keys : Len(arrived[q]) \in Nat /\ gone[q] \in Nat
  BY DEF TypeOK
<1>3. /\ gone'[k] = gone[k] + 1 /\ \A q \in Keys \ {k} : gone'[q] = gone[q]
      /\ closed' = closed \cup {t}
  BY DEF Release, TypeOK
<1>4. ASSUME NEW q \in Keys, NEW i \in 1..Len(arrived[q]), NEW u \in Tickets, u = arrived[q][i]
      PROVE  /\ Status(u)' # "none" /\ KeyOf(u)' = q
             /\ Status(u)' = "released" <=> i <= gone'[q]
             /\ Status(u)' = "inside" => i = gone'[q] + 1
  <2>1. /\ Status(u) # "none" /\ KeyOf(u) = q
        /\ Status(u) = "released" <=> i <= gone[q]
        /\ Status(u) = "inside" => i = gone[q] + 1
    BY <1>4 DEF Lined, Links
  <2>2. CASE u = t
    <3>1. q = k
      BY <2>1, <2>2
    <3>2. i = gone[k] + 1
      <4>1. \A m, n \in 1..Len(arrived[k]) : arrived[k][m] = arrived[k][n] => m = n
        BY DEF Lined, Ends
      <4>2. i \in 1..Len(arrived[k]) /\ arrived[k][i] = t
        BY <1>4, <2>2, <3>1
      <4> HIDE DEF MayEnter
      <4> QED BY <1>1, <4>1, <4>2
    <3> QED BY <1>2, <1>3, <2>2, <3>1, <3>2
  <2>3. CASE u # t
    <3>1. Status(u)' = Status(u) /\ KeyOf(u)' = q
      BY <2>1, <2>3 DEF Untouched
    <3>2. CASE q = k
      <4>1. i # gone[k] + 1
        BY <1>1, <1>4, <2>3, <3>2
      <4>2. i <= gone[k] <=> i <= gone[k] + 1
        BY <1>2, <3>2, <4>1
      <4> QED BY <1>3, <2>1, <3>1, <3>2, <4>1, <4>2
    <3>3. CASE q # k
      BY <1>3, <2>1, <3>1, <3>3
    <3> QED BY <3>2, <3>3
  <2> QED BY <2>2, <2>3
<1>5. ASSUME NEW q \in Keys PROVE Links(q)'
  <2>1. ASSUME NEW i \in 1..Len(arrived'[q])
        PROVE  /\ Status(arrived[q][i])' # "none" /\ KeyOf(arrived[q][i])' = q
               /\ prev'[arrived'[q][i]] = IF i = 1 THEN NoTicket ELSE arrived'[q][i-1]
               /\ Status(arrived[q][i])' = "released" <=> i <= gone'[q]
               /\ Status(arrived[q][i])' = "inside" => i = gone'[q] + 1
    <3>1. i \in 1..Len(arrived[q]) /\ arrived'[q][i] \in Tickets
          /\ arrived'[q][i] = arrived[q][i]
      BY <1>2
    <3>2. prev[arrived[q][i]] = IF i = 1 THEN NoTicket ELSE arrived[q][i-1]
      BY <3>1 DEF Lined, Links
    <3> QED BY <1>4, <3>1, <3>2
  <2> QED BY <2>1 DEF Links
<1>6. ASSUME NEW q \in Keys PROVE Ends(q)'
  <2>1. gone'[q] <= Len(arrived[q])
    BY <1>1, <1>2, <1>3 DEF Lined, Ends
  <2> QED BY <2>1 DEF Lined, Ends
<1>7. ASSUME NEW u \in Tickets PROVE InLine(u)'
  BY <1>3 DEF Lined, InLine, Untouched
<1>8. Lock!Leave(t, k)
  <2>1. /\ Line(k) # <<>> /\ Head(Line(k)) = t
        /\ Tail(Line(k)) = SubSeq(arrived[k], gone[k] + 2, Len(arrived[k]))
    BY HeadOfLine
  <2>2. gone'[k] + 1 = gone[k] + 2
    BY <1>2, <1>3
  <2>3. Line(k)' = Tail(Line(k)) /\ \A q \in Keys \ {k} : Line(q)' = Line(q)
    BY <1>3, <2>1, <2>2 DEF Line
  <2>4. [q \in Keys |-> Line(q)]' = [[q \in Keys |-> Line(q)] EXCEPT ![k] = Tail(@)]
    BY <2>3
  <2>5. {u \in Tickets : Status(u) = "inside"}'
          = {u \in Tickets : Status(u) = "inside"} \ {t}
    BY DEF Untouched
  <2> QED BY <2>1, <2>4, <2>5 DEF Lock!Leave, Line
<1> QED BY <1>5, <1>6, <1>7, <1>8 DEF Lined

(***************************************************************************)
(* Each action of an event moves at most one of its two tickets.           *)
(***************************************************************************)
Whole == Typed /\ Lined

LEMMA InitLined == Init => Lined /\ Lock!Init
<1> SUFFICES ASSUME Init PROVE Lined /\ Lock!Init
  OBVIOUS
<1>1. ASSUME NEW k \in Keys PROVE Links(k) /\ Ends(k)
  <2>1. Len(arrived[k]) = 0 /\ arrived[k] = <<>>
    BY DEF Init
  <2> QED BY <2>1 DEF Init, Links, Ends
<1>2. ASSUME NEW t \in Tickets PROVE Status(t) = "none" /\ InLine(t)
  <2>1. t[1] \in Events
    BY DEF Tickets
  <2>2. Status(t) = "none"
    BY <2>1 DEF Init, Status
  <2> QED BY <2>2 DEF Init, InLine
<1>3. ASSUME NEW k \in Keys PROVE Line(k) = <<>>
  <2>1. arrived[k] = <<>> /\ gone[k] + 1 = 1 /\ Len(arrived[k]) = 0
    BY DEF Init
  <2> QED BY <2>1, SubSeqEmpty DEF Line
<1>4. {t \in Tickets : Status(t) = "inside"} = {}
  BY <1>2
<1>5. Lock!Init
  BY <1>3, <1>4 DEF Lock!Init, Line
<1> QED BY <1>1, <1>2, <1>5 DEF Lined

\* A step of one event leaves the tickets of the others alone.
LEMMA OthersUntouched ==
  ASSUME NEW e \in Events, NEW f \in Events, pc'[f] = pc[f], key'[f] = key[f]
  PROVE  Untouched({Own(f), Second(f)})
BY DEF Untouched, Status, KeyOf, Target, HasParent, Own, Second

\* A step that leaves the other events alone, and one of the two tickets,
\* touches only the other ticket.
LEMMA OnlyTouches ==
  ASSUME NEW e \in Events, NEW t \in {Own(e), Second(e)},
         \A f \in Events \ {e} : pc'[f] = pc[f] /\ key'[f] = key[f],
         Untouched({Own(e), Second(e)} \ {t})
  PROVE  Untouched(Tickets \ {t})
<1>1. \A f \in Events \ {e} : Untouched({Own(f), Second(f)})
  BY OthersUntouched
<1>2. \A u \in Tickets \ {t} :
        u \in {Own(e), Second(e)} \ {t} \/ \E f \in Events \ {e} : u \in {Own(f), Second(f)}
  BY TicketForms
<1> QED BY <1>1, <1>2 DEF Untouched

LEMMA ReceiveLined ==
  ASSUME Whole, NEW e \in Events, NEW k \in Keys, Receive(e, k)
  PROVE  Lined' /\ Lock!Next
<1>1. /\ pc[e] = "new" /\ pc'[e] = "wait" /\ key'[e] = k
      /\ \A f \in Events \ {e} : pc'[f] = pc[f] /\ key'[f] = key[f]
  BY DEF Receive, Goto, Whole, Typed, TypeOK
<1>2. Own(e) \in Tickets /\ Own(e) # Second(e)
  BY TicketForms
<1>3. Status(Own(e)) = "none" /\ Status(Own(e))' = "waiting" /\ KeyOf(Own(e))' = k
  BY <1>1 DEF Status, KeyOf, Own
<1>4. Status(Second(e)) = "none" /\ Status(Second(e))' = "none"
  BY <1>1 DEF Status, Second
<1>5. Untouched({Own(e), Second(e)} \ {Own(e)})
  BY <1>4 DEF Untouched
<1>6. Untouched(Tickets \ {Own(e)})
  BY <1>1, <1>5, OnlyTouches
<1>7. Lined' /\ Lock!Join(Own(e), k)
  BY <1>2, <1>3, <1>6, JoinStep DEF Whole, Typed, Receive
<1> QED BY <1>2, <1>7 DEF Lock!Next

\* What every step of a goroutine leaves alone.
LEMMA OwnStep ==
  ASSUME Whole, NEW e \in Events, Process(e)
  PROVE  /\ key' = key /\ key[e] \in Keys /\ Target(e) \in Keys
         /\ HasParent(e)' = HasParent(e) /\ Target(e)' = Target(e)
         /\ \A f \in Events \ {e} : pc'[f] = pc[f] /\ key'[f] = key[f]
<1>1. key' = key /\ pc[e] # "new"
  BY DEF Process, TakeTurn, JoinParent, TakeParent, Read, TakeOver, Save, LeaveParent, Leave
<1>2. \A f \in Events \ {e} : pc'[f] = pc[f]
  BY DEF Whole, Typed, TypeOK, Process, TakeTurn, JoinParent, TakeParent, Read, TakeOver, Save,
         LeaveParent, Leave, Goto
<1>3. key[e] \in Keys /\ Target(e) \in Keys
  BY <1>1, TargetType DEF Whole
<1> QED BY <1>1, <1>2, <1>3 DEF HasParent, Target

LEMMA ProcessLined ==
  ASSUME Whole, NEW e \in Events, Process(e)
  PROVE  Lined' /\ [Lock!Next]_(Lock!vars)
<1>1. /\ Own(e) \in Tickets /\ Second(e) \in Tickets /\ Own(e) # Second(e)
      /\ {Own(e), Second(e)} \ {Own(e)} = {Second(e)}
      /\ {Own(e), Second(e)} \ {Second(e)} = {Own(e)}
  BY TicketForms
<1>2. /\ key' = key /\ key[e] \in Keys /\ Target(e) \in Keys
      /\ HasParent(e)' = HasParent(e) /\ Target(e)' = Target(e)
      /\ \A f \in Events \ {e} : pc'[f] = pc[f] /\ key'[f] = key[f]
  BY OwnStep
<1>3. TypeOK /\ Lined /\ pc \in [Events -> {"new", "wait", "join", "waitParent", "read", "take",
                                            "save", "leaveParent", "leave", "done"}]
  BY DEF Whole, Typed, TypeOK
<1>k. PICK k \in Keys : k = key[e]
  BY <1>2
<1>p. PICK p \in Keys : p = Target(e)
  BY <1>2
<1>4. /\ KeyOf(Own(e)) = k /\ KeyOf(Own(e))' = k
      /\ KeyOf(Second(e)) = p /\ KeyOf(Second(e))' = p
      /\ HasParent(e) => p = ParentOf[key[e]]
  <2>1. KeyOf(Own(e)) = key[e] /\ KeyOf(Own(e))' = key'[e]
    BY DEF KeyOf, Own
  <2>2. KeyOf(Second(e)) = Target(e) /\ KeyOf(Second(e))' = Target(e)'
    BY DEF KeyOf, Second
  <2> QED BY <1>2, <1>k, <1>p, <2>1, <2>2 DEF Target
<1>5. CASE TakeTurn(e)
  <2>1. pc[e] = "wait" /\ pc'[e] = (IF HasParent(e) THEN "join" ELSE "read")
    BY <1>3, <1>5 DEF TakeTurn, Goto
  <2>2. Status(Own(e)) = "waiting" /\ Status(Own(e))' = "inside"
    BY <2>1 DEF Status, Own
  <2>3. Status(Second(e))' = Status(Second(e))
    BY <1>2, <2>1 DEF Status, Second
  <2>4. Untouched(Tickets \ {Own(e)})
    BY <1>1, <1>2, <1>4, <2>3, OnlyTouches DEF Untouched
  <2>5. Lined' /\ Lock!Enter(Own(e), k)
    BY <1>1, <1>2, <1>3, <1>4, <1>5, <1>k, <2>2, <2>4, EnterStep DEF TakeTurn
  <2> QED BY <1>1, <2>5 DEF Lock!Next
<1>6. CASE JoinParent(e)
  <2>1. pc[e] = "join" /\ pc'[e] = "waitParent" /\ HasParent(e)
    BY <1>3, <1>6 DEF JoinParent, Goto, Whole, Typed, Routed
  <2>2. Status(Second(e)) = "none" /\ Status(Second(e))' = "waiting"
    BY <1>2, <2>1 DEF Status, Second
  <2>3. Status(Own(e))' = Status(Own(e))
    BY <2>1 DEF Status, Own
  <2>4. Untouched(Tickets \ {Second(e)})
    BY <1>1, <1>2, <1>4, <2>3, OnlyTouches DEF Untouched
  <2>5. Lined' /\ Lock!Join(Second(e), p)
    BY <1>1, <1>2, <1>3, <1>4, <1>6, <2>1, <2>2, <2>4, JoinStep DEF JoinParent
  <2> QED BY <1>1, <2>5 DEF Lock!Next
<1>7. CASE TakeParent(e)
  <2>1. pc[e] = "waitParent" /\ pc'[e] = "read" /\ HasParent(e)
    BY <1>3, <1>7 DEF TakeParent, Goto, Whole, Typed, Routed
  <2>2. Status(Second(e)) = "waiting" /\ Status(Second(e))' = "inside"
    BY <1>2, <2>1 DEF Status, Second
  <2>3. Status(Own(e))' = Status(Own(e))
    BY <2>1 DEF Status, Own
  <2>4. Untouched(Tickets \ {Second(e)})
    BY <1>1, <1>2, <1>4, <2>3, OnlyTouches DEF Untouched
  <2>5. Lined' /\ Lock!Enter(Second(e), p)
    BY <1>1, <1>2, <1>3, <1>4, <1>7, <2>2, <2>4, EnterStep DEF TakeParent
  <2> QED BY <1>1, <2>5 DEF Lock!Next
<1>8. CASE Read(e) \/ TakeOver(e) \/ Save(e)
  <2>1. /\ pc[e] \in {"read", "take", "save"}
        /\ \/ pc'[e] \in {"take", "save"}
           \/ pc'[e] = (IF HasParent(e) THEN "leaveParent" ELSE "leave")
        /\ UNCHANGED <<tail, prev, closed, arrived, gone>>
    BY <1>3, <1>8 DEF Read, TakeOver, Save, Goto
  <2>2. Status(Own(e))' = Status(Own(e))
    BY <2>1 DEF Status, Own
  <2>3. Status(Second(e))' = Status(Second(e))
    BY <1>2, <2>1 DEF Status, Second
  <2>4. Untouched({Own(e), Second(e)} \ {Own(e)})
    BY <1>1, <1>4, <2>3 DEF Untouched
  <2>5. Untouched(Tickets \ {Own(e)})
    BY <1>2, <2>4, OnlyTouches
  <2>6. Untouched(Tickets)
    BY <1>4, <2>2, <2>5 DEF Untouched
  <2> QED BY <1>3, <2>1, <2>6, StayStep
<1>9. CASE LeaveParent(e)
  <2>1. pc[e] = "leaveParent" /\ pc'[e] = "leave" /\ HasParent(e)
    BY <1>3, <1>9 DEF LeaveParent, Goto, Whole, Typed, Routed
  <2>2. Status(Second(e)) = "inside" /\ Status(Second(e))' = "released"
    BY <1>2, <2>1 DEF Status, Second
  <2>3. Status(Own(e))' = Status(Own(e))
    BY <2>1 DEF Status, Own
  <2>4. Untouched(Tickets \ {Second(e)})
    BY <1>1, <1>2, <1>4, <2>3, OnlyTouches DEF Untouched
  <2>5. Lined' /\ Lock!Leave(Second(e), p)
    BY <1>1, <1>2, <1>3, <1>4, <1>9, <2>1, <2>2, <2>4, LeaveStep DEF LeaveParent
  <2> QED BY <1>1, <2>5 DEF Lock!Next
<1>10. CASE Leave(e)
  <2>1. pc[e] = "leave" /\ pc'[e] = "done"
    BY <1>3, <1>10 DEF Leave, Goto
  <2>2. Status(Own(e)) = "inside" /\ Status(Own(e))' = "released"
    BY <2>1 DEF Status, Own
  <2>3. Status(Second(e))' = Status(Second(e))
    BY <1>2, <2>1 DEF Status, Second
  <2>4. Untouched(Tickets \ {Own(e)})
    BY <1>1, <1>2, <1>4, <2>3, OnlyTouches DEF Untouched
  <2>5. Lined' /\ Lock!Leave(Own(e), k)
    BY <1>1, <1>2, <1>3, <1>4, <1>10, <1>k, <2>2, <2>4, LeaveStep DEF Leave
  <2> QED BY <1>1, <2>5 DEF Lock!Next
<1> QED BY <1>5, <1>6, <1>7, <1>8, <1>9, <1>10 DEF Process

LEMMA StutterLined ==
  ASSUME Whole, UNCHANGED vars
  PROVE  Lined' /\ UNCHANGED Lock!vars
<1>1. Untouched(Tickets) /\ UNCHANGED <<tail, prev, closed, arrived, gone>>
  BY DEF vars, Untouched, Status, KeyOf, Target, HasParent
<1> QED BY <1>1, StayStep DEF Whole, Typed

LEMMA StepLined == Whole /\ [Next]_vars => Whole' /\ [Lock!Next]_(Lock!vars)
<1> SUFFICES ASSUME Whole, [Next]_vars PROVE Whole' /\ [Lock!Next]_(Lock!vars)
  OBVIOUS
<1>1. Typed'
  BY StepTyped DEF Whole
<1>2. CASE UNCHANGED vars
  BY <1>1, <1>2, StutterLined DEF Whole
<1>3. ASSUME NEW e \in Events, Process(e) PROVE Lined' /\ [Lock!Next]_(Lock!vars)
  BY <1>3, ProcessLined
<1>4. ASSUME NEW e \in Events, NEW k \in Keys, Receive(e, k)
      PROVE  Lined' /\ [Lock!Next]_(Lock!vars)
  BY <1>4, ReceiveLined
<1> QED BY <1>1, <1>2, <1>3, <1>4 DEF Next, Whole

LEMMA AlwaysWhole == Spec => []Whole
<1>1. Init => Whole
  BY InitTyped, InitLined DEF Whole
<1>2. Whole /\ [Next]_vars => Whole'
  BY StepLined
<1> QED BY <1>1, <1>2, PTL DEF Spec

\* The channels of each conversation form one chain, of which a prefix is
\* closed, and only the ticket behind that prefix works on the conversation.
THEOREM ChainHolds == Spec => []Chain
<1>1. Whole => Chain
  BY DEF Whole, Typed, Lined, Chain
<1> QED BY <1>1, AlwaysWhole, PTL

LEMMA AtMostOne == Whole => Exclusive
<1> SUFFICES ASSUME Whole, NEW e \in Events, NEW f \in Events, NEW k \in Keys,
                    NEW t \in Tickets, t[1] = e, Status(t) = "inside", KeyOf(t) = k,
                    NEW u \in Tickets, u[1] = f, Status(u) = "inside", KeyOf(u) = k
             PROVE  e = f
  BY DEF Exclusive, Holds
<1>1. arrived[k][gone[k] + 1] = t /\ arrived[k][gone[k] + 1] = u
  BY FirstInLine DEF Whole, Typed
<1> QED BY <1>1

\* However many events and subagents there are, one event at a time works on
\* a conversation.
THEOREM OneAtATime == Spec => []Exclusive
BY AtMostOne, AlwaysWhole, PTL

\* The channels implement a FIFO lock of each conversation: events are let in
\* in the order in which handleHook reserved their tickets.
THEOREM QueueImplementsLock == Spec => LockSpec
<1>1. Init => Lock!Init
  BY InitLined
<1>2. Whole /\ [Next]_vars => [Lock!Next]_(Lock!vars)
  BY StepLined
<1> QED BY <1>1, <1>2, AlwaysWhole, PTL DEF Spec, LockSpec, Lock!Spec

(***************************************************************************)
(* The rows.  An event holds the conversation whose row it changes from    *)
(* reading to saving, so that its copy is still the row unless another     *)
(* conversation has taken that row over (Current); and every version of a  *)
(* row, in the database or in a copy, shows events that have saved, in the *)
(* order of their arrival (Versions).                                      *)
(***************************************************************************)
Past == {"leaveParent", "leave", "done"}
Came(k, a, b) == \E i, j \in 1..Len(arrived[k]) :
                    i < j /\ arrived[k][i] = Own(a) /\ arrived[k][j] = Own(b)

Versions == [k \in Keys |-> {s \in Seq(Events) :
               /\ \A i \in 1..Len(s) : s[i] \in saved /\ Target(s[i]) = k
               /\ \A i, j \in 1..Len(s) :
                    i < j /\ key[s[i]] = k /\ key[s[j]] = k => Came(k, s[i], s[j])}]

Current == \A e \in Events : pc[e] = "save" =>
             Target(e) \in TakenOver \/ copy[e] = row[Target(e)]
Fresh   == \A e \in Events : pc[e] = "take" =>
             key[e] \in TakenOver \/ row[key[e]] = <<>>
Recorded ==
  /\ \A e \in saved : pc[e] \in Past
  /\ \A k \in Keys : row[k] \in Versions[k]
  /\ \A e \in Events : /\ pc[e] = "save" => copy[e] \in Versions[Target(e)]
                       /\ pc[e] = "take" => copy[e] \in Versions[other[e]]
Kept == Current /\ Fresh /\ Recorded /\ NoChangeLost

LEMMA InitKept == Init => Kept
<1> SUFFICES ASSUME Init PROVE Kept
  OBVIOUS
<1>1. \A k \in Keys : Len(row[k]) = 0
  BY DEF Init
<1> QED BY <1>1 DEF Init, Kept, Current, Fresh, Recorded, Versions, NoChangeLost

\* From reading to saving an event holds the conversation of the row, and one
\* of no subagent holds its own until it is done.
LEMMA Holding ==
  ASSUME Whole, NEW e \in Events
  PROVE  /\ pc[e] \in {"read", "take", "save"} => Holds(e, Target(e))
         /\ pc[e] = "leave" => Holds(e, key[e])
<1>1. Own(e) \in Tickets /\ Second(e) \in Tickets /\ Own(e)[1] = e /\ Second(e)[1] = e
  BY TicketForms DEF Own, Second
<1>2. KeyOf(Own(e)) = key[e] /\ KeyOf(Second(e)) = Target(e)
  BY DEF KeyOf, Own, Second
<1>3. ASSUME pc[e] \in {"read", "take", "save", "leave"} PROVE Status(Own(e)) = "inside"
  BY <1>3 DEF Status, Own
<1>4. ASSUME pc[e] \in {"read", "take", "save"}, HasParent(e) PROVE Status(Second(e)) = "inside"
  BY <1>4 DEF Status, Second
<1>5. ASSUME ~HasParent(e) PROVE Target(e) = key[e]
  BY <1>5 DEF Target
<1> QED BY <1>1, <1>2, <1>3, <1>4, <1>5 DEF Holds

\* An event that has saved stays where it is, and reservations are only added.
LEMMA PastStays ==
  ASSUME Whole, [Next]_vars, NEW e \in Events, pc[e] \in Past
  PROVE  pc'[e] \in Past /\ key'[e] = key[e] /\ Target(e)' = Target(e)
<1>1. ASSUME NEW f \in Events, Process(f) PROVE pc'[e] \in Past /\ key' = key
  <2>1. key' = key /\ (f # e => pc'[e] = pc[e])
    BY <1>1, OwnStep
  <2>2. CASE f = e
    BY <1>1, <2>2 DEF Past, Whole, Typed, TypeOK, Process, TakeTurn, JoinParent, TakeParent,
                      Read, TakeOver, Save, LeaveParent, Leave, Goto
  <2> QED BY <2>1, <2>2
<1>2. ASSUME NEW f \in Events, NEW k \in Keys, Receive(f, k)
      PROVE  pc'[e] = pc[e] /\ key'[e] = key[e]
  BY <1>2 DEF Past, Whole, Typed, TypeOK, Receive, Goto
<1>3. pc'[e] \in Past /\ key'[e] = key[e]
  BY <1>1, <1>2 DEF Next, vars
<1> QED BY <1>3 DEF Target, HasParent

LEMMA CameStays ==
  ASSUME Whole, [Next]_vars, NEW k \in Keys, NEW a, NEW b, Came(k, a, b)
  PROVE  Came(k, a, b)'
<1>1. arrived' = arrived \/ \E t \in Tickets, q \in Keys : Reserve(t, q)
  <2>1. ASSUME NEW e \in Events, Process(e)
        PROVE  arrived' = arrived \/ \E t \in Tickets, q \in Keys : Reserve(t, q)
    <3>1. Second(e) \in Tickets
      BY TicketForms
    <3>2. pc[e] # "new" => key[e] \in Keys /\ (HasParent(e) => ParentOf[key[e]] \in Keys)
      BY TargetType DEF Whole
    <3> QED BY <2>1, <3>1, <3>2 DEF Process, TakeTurn, JoinParent, TakeParent, Read, TakeOver,
                                    Save, LeaveParent, Leave, Release, Whole, Typed, Routed
  <2>2. ASSUME NEW e \in Events, NEW q \in Keys, Receive(e, q)
        PROVE  \E t \in Tickets, p \in Keys : Reserve(t, p)
    BY <2>2, TicketForms DEF Receive
  <2> QED BY <2>1, <2>2 DEF Next, vars
<1>2. arrived[k] \in Seq(Tickets) /\ Len(arrived[k]) \in Nat
  BY DEF Whole, Typed, TypeOK
<1>3. \A i \in 1..Len(arrived[k]) : i \in 1..Len(arrived'[k]) /\ arrived'[k][i] = arrived[k][i]
  <2>1. CASE arrived' = arrived
    BY <2>1
  <2>2. ASSUME NEW t \in Tickets, NEW q \in Keys, Reserve(t, q)
        PROVE  \A i \in 1..Len(arrived[k]) :
                 i \in 1..Len(arrived'[k]) /\ arrived'[k][i] = arrived[k][i]
    <3>1. arrived'[k] = arrived[k] \/ arrived'[k] = Append(arrived[k], t)
      BY <2>2 DEF Reserve, Whole, Typed, TypeOK
    <3> QED BY <1>2, <3>1, AppendProperties
  <2> QED BY <1>1, <2>1, <2>2
<1> QED BY <1>3 DEF Came

\* A conversation that was taken over remains so: whoever took it over is
\* past that.
LEMMA TakenOverStays ==
  ASSUME Whole, [Next]_vars, NEW k \in Keys, k \in TakenOver
  PROVE  k \in TakenOver'
<1>1. PICK f \in Events : other[f] = k /\ pc[f] # "take"
  BY DEF TakenOver
<1>2. pc[f] \notin Early
  BY <1>1, KeyAssumption DEF Whole, Typed, Taking
<1>3. other'[f] = k /\ pc'[f] # "take"
  <2>1. ASSUME NEW e \in Events, Process(e) PROVE other'[f] = k /\ pc'[f] # "take"
    BY <1>1, <1>2, <2>1 DEF Early, Whole, Typed, TypeOK, Process, TakeTurn, JoinParent,
       TakeParent, Read, TakeOver, Save, LeaveParent, Leave, Goto, rows
  <2>2. ASSUME NEW e \in Events, NEW q \in Keys, Receive(e, q)
        PROVE  other'[f] = k /\ pc'[f] # "take"
    BY <1>1, <1>2, <2>2 DEF Early, Whole, Typed, TypeOK, Receive, Goto, rows
  <2> QED BY <1>1, <2>1, <2>2 DEF Next, vars, rows
<1> QED BY <1>3 DEF TakenOver

\* A version stays one, whatever is saved.
LEMMA VersionStays ==
  ASSUME Whole, Kept, [Next]_vars, saved \subseteq saved', NEW k \in Keys,
         NEW s \in Seq(Events), s \in Versions[k]
  PROVE  s \in Versions'[k]
<1>1. \A i \in 1..Len(s) : s[i] \in saved /\ s[i] \in Events /\ pc[s[i]] \in Past
  BY DEF Versions, Kept, Recorded
<1>2. \A i \in 1..Len(s) : key'[s[i]] = key[s[i]] /\ Target(s[i])' = Target(s[i])
  BY <1>1, PastStays
<1>3. \A i \in 1..Len(s) : s[i] \in saved' /\ Target(s[i])' = k
  BY <1>1, <1>2 DEF Versions
<1>4. ASSUME NEW i \in 1..Len(s), NEW j \in 1..Len(s), i < j, key'[s[i]] = k, key'[s[j]] = k
      PROVE  Came(k, s[i], s[j])'
  <2>1. Came(k, s[i], s[j])
    BY <1>2, <1>4 DEF Versions
  <2> QED BY <2>1, CameStays
<1> QED BY <1>3, <1>4 DEF Versions

\* What one event saves, after all that its copy shows.
LEMMA SaveOrders ==
  ASSUME Whole, Kept, NEW e \in Events, pc[e] = "save", NEW k \in Keys, Target(e) = k,
         key[e] = k, NEW f \in saved, Target(f) = k, key[f] = k
  PROVE  Came(k, f, e)
<1>1. f \in Events /\ pc[f] \in Past
  BY DEF Kept, Recorded, Whole, Typed, TypeOK
<1>2. ~HasParent(f) /\ ~HasParent(e)
  BY NestingAssumption DEF HasParent, Target
<1>3. Holds(e, k) /\ (pc[f] = "leave" => Holds(f, k))
  BY <1>1, Holding
<1>4. pc[f] = "done"
  <2>1. pc[f] # "leave"
    BY <1>1, <1>3, AtMostOne DEF Exclusive
  <2>2. pc[f] # "leaveParent"
    BY <1>1, <1>2 DEF Whole, Typed, Routed
  <2> QED BY <1>1, <2>1, <2>2 DEF Past
<1>5. Own(f) \in Tickets /\ Status(Own(f)) = "released" /\ KeyOf(Own(f)) = k
  BY <1>1, <1>4, TicketForms DEF Status, KeyOf, Own
<1>6. Own(e) \in Tickets /\ Status(Own(e)) = "inside" /\ KeyOf(Own(e)) = k
  BY TicketForms DEF Status, KeyOf, Own
<1>7. PICK m \in 1..Len(arrived[k]) : arrived[k][m] = Own(f) /\ m <= gone[k]
  BY <1>5 DEF Whole, Lined, InLine, Links
<1>8. gone[k] + 1 \in 1..Len(arrived[k]) /\ arrived[k][gone[k] + 1] = Own(e)
  BY <1>6, FirstInLine DEF Whole, Typed
<1>9. gone[k] \in Nat /\ m < gone[k] + 1
  BY <1>7 DEF Whole, Typed, TypeOK
<1> QED BY <1>7, <1>8, <1>9 DEF Came

\* What every step keeps.
LEMMA Standing ==
  ASSUME Whole, Kept, [Next]_vars, saved \subseteq saved'
  PROVE  /\ \A e \in saved : /\ e \in Events /\ pc'[e] \in Past
                             /\ Target(e) \in Keys /\ Target(e)' = Target(e)
         /\ \A k \in Keys, s \in Seq(Events) : s \in Versions[k] => s \in Versions'[k]
         /\ \A k \in Keys : k \in TakenOver => k \in TakenOver'
<1>1. \A e \in saved : e \in Events /\ pc[e] \in Past
  BY DEF Kept, Recorded, Whole, Typed, TypeOK
<1>2. \A e \in saved : Target(e) \in Keys
  BY <1>1, TargetType DEF Past, Whole
<1> QED BY <1>1, <1>2, PastStays, VersionStays, TakenOverStays

\* A step that changes no row keeps what is said of the rows.
LEMMA QuietKept ==
  ASSUME Whole, Kept, [Next]_vars, UNCHANGED <<row, saved>>, Current', Fresh',
         \A e \in Events : /\ pc'[e] = "save" => copy'[e] \in Versions'[Target(e)']
                           /\ pc'[e] = "take" => copy'[e] \in Versions'[other'[e]]
  PROVE  Kept'
<1>1. \A k \in Keys : row[k] \in Versions'[k]
  BY Standing DEF Kept, Recorded, Whole, Typed, TypeOK
<1>2. Recorded'
  BY <1>1, Standing DEF Recorded
<1>3. NoChangeLost'
  BY Standing DEF Kept, NoChangeLost
<1> QED BY <1>2, <1>3 DEF Kept

\* No one else is working on the conversation of the row.
LEMMA Alone ==
  ASSUME Whole, NEW e \in Events, NEW f \in Events, e # f, pc[e] = "save"
  PROVE  /\ pc[f] = "save" => Target(f) # Target(e)
         /\ pc[f] = "take" => key[f] # Target(e)
<1>1. Target(e) \in Keys /\ (pc[f] \in {"save", "take"} => Target(f) \in Keys)
  BY TargetType DEF Whole
<1>2. pc[f] \in {"save", "take"} => Target(f) # Target(e)
  BY <1>1, Holding, AtMostOne DEF Exclusive
<1>3. pc[f] = "take" => Target(f) = key[f]
  BY DEF Whole, Typed, Taking, Target
<1> QED BY <1>2, <1>3

\* The copies of the events that a step leaves alone.
LEMMA OtherCopies ==
  ASSUME Whole, Kept, NEW e \in Events, Process(e), saved \subseteq saved',
         NEW f \in Events, f # e
  PROVE  /\ pc'[f] = pc[f] /\ key'[f] = key[f] /\ Target(f)' = Target(f)
         /\ copy'[f] = copy[f] /\ other'[f] = other[f]
         /\ pc'[f] = "save" => Target(f) \in Keys /\ copy'[f] \in Versions'[Target(f)']
         /\ pc'[f] = "take" => /\ key[f] \in Keys /\ other[f] \in Keys
                               /\ copy'[f] \in Versions'[other'[f]]
<1>1. pc'[f] = pc[f] /\ key'[f] = key[f] /\ Target(f)' = Target(f)
  BY OwnStep DEF Target, HasParent
<1>2. copy'[f] = copy[f] /\ other'[f] = other[f]
  BY DEF Whole, Typed, TypeOK, Process, TakeTurn, JoinParent, TakeParent, Read, TakeOver, Save,
         LeaveParent, Leave, rows
<1>3. copy[f] \in Seq(Events) /\ other[f] \in Keys \cup {NoKey}
  BY DEF Whole, Typed, TypeOK
<1>4. [Next]_vars
  BY DEF Next
<1>5. pc[f] = "save" => Target(f) \in Keys /\ copy[f] \in Versions[Target(f)]
  BY TargetType DEF Whole, Kept, Recorded
<1>6. pc[f] = "take" => key[f] \in Keys /\ other[f] \in Keys /\ copy[f] \in Versions[other[f]]
  BY <1>3, TargetType DEF Whole, Typed, Taking, Kept, Recorded
<1>7. pc[f] = "save" => copy[f] \in Versions'[Target(f)']
  BY <1>1, <1>2, <1>3, <1>4, <1>5, Standing
<1>8. pc[f] = "take" => copy[f] \in Versions'[other[f]]
  BY <1>2, <1>3, <1>4, <1>6, Standing
<1> QED BY <1>1, <1>2, <1>5, <1>6, <1>7, <1>8

LEMMA ReadKept ==
  ASSUME Whole, Kept, NEW e \in Events, Process(e), ~TakeOver(e), ~Save(e)
  PROVE  Kept'
<1>1. UNCHANGED <<row, saved>> /\ [Next]_vars
  BY DEF Process, TakeTurn, JoinParent, TakeParent, Read, LeaveParent, Leave, rows, Next
<1>2. \A f \in Events \ {e} :
        /\ pc'[f] = pc[f] /\ key'[f] = key[f] /\ Target(f)' = Target(f)
        /\ copy'[f] = copy[f] /\ other'[f] = other[f]
        /\ pc'[f] = "save" => Target(f) \in Keys /\ copy'[f] \in Versions'[Target(f)']
        /\ pc'[f] = "take" => /\ key[f] \in Keys /\ other[f] \in Keys
                              /\ copy'[f] \in Versions'[other'[f]]
  BY <1>1, OtherCopies
<1>3. Target(e)' = Target(e) /\ key'[e] = key[e] /\ Target(e) \in Keys
  BY OwnStep
<1>4. pc'[e] = "save" => copy'[e] = row[Target(e)]
  BY DEF Process, TakeTurn, JoinParent, TakeParent, Read, LeaveParent, Leave, Goto,
         Whole, Typed, TypeOK
<1>5. pc'[e] = "take" => row[key[e]] = <<>> /\ other'[e] \in Keys /\ copy'[e] = row[other'[e]]
  BY DEF Process, TakeTurn, JoinParent, TakeParent, Read, LeaveParent, Leave, Goto,
         Whole, Typed, TypeOK
<1>6. \A k \in Keys : row[k] \in Versions'[k]
  BY <1>1, Standing DEF Kept, Recorded, Whole, Typed, TypeOK
<1>7. \A k \in Keys : k \in TakenOver => k \in TakenOver'
  BY <1>1, Standing
<1>8. Current'
  BY <1>1, <1>2, <1>3, <1>4, <1>7 DEF Kept, Current
<1>9. Fresh'
  BY <1>1, <1>2, <1>3, <1>5, <1>7 DEF Kept, Fresh
<1>10. /\ pc'[e] = "save" => copy'[e] \in Versions'[Target(e)']
       /\ pc'[e] = "take" => copy'[e] \in Versions'[other'[e]]
  BY <1>1, <1>3, <1>4, <1>5, <1>6
<1> QED BY <1>1, <1>2, <1>8, <1>9, <1>10, QuietKept

LEMMA TakeOverKept ==
  ASSUME Whole, Kept, NEW e \in Events, TakeOver(e)
  PROVE  Kept'
<1>1. UNCHANGED saved /\ Process(e) /\ [Next]_vars
  BY DEF TakeOver, Process, Next
<1>2. \A f \in Events \ {e} :
        /\ pc'[f] = pc[f] /\ key'[f] = key[f] /\ Target(f)' = Target(f)
        /\ copy'[f] = copy[f] /\ other'[f] = other[f]
        /\ pc'[f] = "save" => Target(f) \in Keys /\ copy'[f] \in Versions'[Target(f)']
        /\ pc'[f] = "take" => /\ key[f] \in Keys /\ other[f] \in Keys
                              /\ copy'[f] \in Versions'[other'[f]]
  BY <1>1, OtherCopies
<1>3. /\ pc[e] = "take" /\ pc'[e] = "save" /\ copy'[e] = <<>> /\ other'[e] = other[e]
      /\ other[e] \in Keys /\ other[e] # key[e] /\ Target(e) = key[e] /\ key[e] \in Keys
      /\ Target(e)' = Target(e)
  BY <1>1, OwnStep DEF TakeOver, Goto, Whole, Typed, TypeOK, Taking, Target
<1>k. PICK k \in Keys : k = other[e]
  BY <1>3
<1>4. k \in TakenOver'
  BY <1>3, <1>k DEF TakenOver
<1>5. \A q \in Keys \ {k} : row'[q] = row[q]
  BY <1>3, <1>k DEF TakeOver, Whole, Typed, TypeOK
<1>6. row'[k] = <<>> \/ row'[k] = copy[e]
  BY <1>3, <1>k DEF TakeOver, Whole, Typed, TypeOK
<1>7. \A q \in Keys : q \in TakenOver => q \in TakenOver'
  BY <1>1, Standing
<1>8. Current'
  <2>1. Target(e)' \in TakenOver' \/ copy'[e] = row'[Target(e)']
    BY <1>3, <1>5, <1>7, <1>k DEF Kept, Fresh
  <2>2. ASSUME NEW f \in Events \ {e}, pc'[f] = "save"
        PROVE  Target(f)' \in TakenOver' \/ copy'[f] = row'[Target(f)']
    BY <1>2, <1>4, <1>5, <1>7, <2>2 DEF Kept, Current
  <2> QED BY <1>2, <1>3, <2>1, <2>2 DEF Current
<1>9. Fresh'
  <2>1. ASSUME NEW f \in Events \ {e}, pc'[f] = "take"
        PROVE  key'[f] \in TakenOver' \/ row'[key[f]] = <<>>
    BY <1>2, <1>4, <1>5, <1>7, <2>1 DEF Kept, Fresh
  <2> QED BY <1>2, <1>3, <2>1 DEF Fresh
<1>10. \A q \in Keys : <<>> \in Versions'[q]
  BY DEF Versions
<1>11. ASSUME NEW q \in Keys PROVE row'[q] \in Versions'[q]
  <2>1. row[q] \in Seq(Events) /\ copy[e] \in Seq(Events)
    BY DEF Whole, Typed, TypeOK
  <2>2. row[q] \in Versions'[q] /\ copy[e] \in Versions'[k]
    BY <1>1, <1>3, <1>k, <2>1, Standing DEF Kept, Recorded
  <2> QED BY <1>5, <1>6, <1>10, <2>2
<1>12. Recorded'
  <2>1. copy'[e] \in Versions'[Target(e)']
    BY <1>3, <1>10
  <2>2. \A f \in saved' : pc'[f] \in Past
    BY <1>1, Standing
  <2>3. \A f \in Events : /\ pc'[f] = "save" => copy'[f] \in Versions'[Target(f)']
                          /\ pc'[f] = "take" => copy'[f] \in Versions'[other'[f]]
    BY <1>2, <1>3, <2>1
  <2> QED BY <1>11, <2>2, <2>3 DEF Recorded
<1>13. NoChangeLost'
  <2> SUFFICES ASSUME NEW f \in saved
               PROVE  \/ Target(f) \in TakenOver'
                      \/ \E i \in 1..Len(row'[Target(f)]) : row'[Target(f)][i] = f
    BY <1>1, Standing DEF NoChangeLost
  <2>1. Target(f) \in Keys
    BY <1>1, Standing
  <2> QED BY <1>4, <1>5, <1>7, <2>1 DEF Kept, NoChangeLost
<1> QED BY <1>8, <1>9, <1>12, <1>13 DEF Kept

LEMMA SaveKept ==
  ASSUME Whole, Kept, NEW e \in Events, Save(e)
  PROVE  Kept'
<1>1. /\ pc[e] = "save" /\ key' = key /\ pc'[e] \in Past /\ saved' = saved \cup {e}
      /\ Process(e) /\ [Next]_vars /\ arrived' = arrived
  BY DEF Process, Save, Past, Goto, Whole, Typed, TypeOK, Next
<1>2. \A f \in Events \ {e} :
        /\ pc'[f] = pc[f] /\ key'[f] = key[f] /\ Target(f)' = Target(f)
        /\ copy'[f] = copy[f] /\ other'[f] = other[f]
        /\ pc'[f] = "save" => Target(f) \in Keys /\ copy'[f] \in Versions'[Target(f)']
        /\ pc'[f] = "take" => /\ key[f] \in Keys /\ other[f] \in Keys
                              /\ copy'[f] \in Versions'[other'[f]]
  BY <1>1, OtherCopies
<1>k. PICK k \in Keys : k = Target(e) /\ k = Target(e)'
  BY <1>1, OwnStep
<1>3. copy[e] \in Seq(Events) /\ saved \subseteq Events /\ \A q \in Keys : row[q] \in Seq(Events)
  BY DEF Whole, Typed, TypeOK
<1>4. row'[k] = Append(copy[e], e) /\ \A q \in Keys \ {k} : row'[q] = row[q]
  BY <1>k DEF Save, Whole, Typed, TypeOK
<1>5. /\ Len(copy[e]) \in Nat /\ Len(row'[k]) = Len(copy[e]) + 1
      /\ row'[k][Len(copy[e]) + 1] = e
      /\ \A i \in 1..Len(copy[e]) : row'[k][i] = copy[e][i]
  BY <1>3, <1>4, AppendProperties
<1>6. \A q \in Keys : q \in TakenOver => q \in TakenOver'
  BY <1>1, Standing
<1>7. Current'
  <2>1. ASSUME NEW f \in Events, pc'[f] = "save"
        PROVE  Target(f)' \in TakenOver' \/ copy'[f] = row'[Target(f)']
    <3>1. f # e /\ pc[f] = "save"
      BY <1>1, <1>2, <2>1 DEF Past
    <3>2. Target(f) \in Keys \ {k}
      BY <1>1, <1>2, <1>k, <3>1, Alone
    <3> QED BY <1>2, <1>4, <1>6, <3>1, <3>2 DEF Kept, Current
  <2> QED BY <2>1 DEF Current
<1>8. Fresh'
  <2>1. ASSUME NEW f \in Events, pc'[f] = "take"
        PROVE  key'[f] \in TakenOver' \/ row'[key'[f]] = <<>>
    <3>1. f # e /\ pc[f] = "take"
      BY <1>1, <1>2, <2>1 DEF Past
    <3>2. key[f] \in Keys \ {k}
      BY <1>1, <1>2, <1>k, <2>1, <3>1, Alone
    <3> QED BY <1>2, <1>4, <1>6, <3>1, <3>2 DEF Kept, Fresh
  <2> QED BY <2>1 DEF Fresh
<1>9. row'[k] \in Versions'[k]
  <2>1. PICK c \in Seq(Events), s \in Seq(Events) : c = copy[e] /\ s = Append(copy[e], e)
    BY <1>3, AppendProperties
  <2>2. c \in Versions[k] /\ c \in Versions'[k]
    BY <1>1, <1>3, <1>k, <2>1, Standing DEF Kept, Recorded
  <2>3. /\ Len(c) \in Nat /\ Len(s) = Len(c) + 1 /\ s[Len(c) + 1] = e
        /\ \A i \in 1..Len(c) : s[i] = c[i]
    BY <2>1, AppendProperties
  <2>4. /\ \A i \in 1..Len(c) : c[i] \in saved /\ Target(c[i]) = k
        /\ \A i \in 1..Len(c) : c[i] \in saved' /\ Target(c[i])' = k
        /\ \A i, j \in 1..Len(c) :
             i < j /\ key'[c[i]] = k /\ key'[c[j]] = k => Came(k, c[i], c[j])'
    BY <2>2 DEF Versions
  <2>5. \A i \in 1..Len(s) : s[i] \in saved' /\ Target(s[i])' = k
    BY <1>1, <1>k, <2>3, <2>4
  <2>6. ASSUME NEW i \in 1..Len(s), NEW j \in 1..Len(s), i < j, key'[s[i]] = k, key'[s[j]] = k
        PROVE  Came(k, s[i], s[j])'
    <3>1. i \in 1..Len(c) /\ s[i] = c[i]
      BY <2>3, <2>6
    <3>2. CASE j \in 1..Len(c)
      BY <2>3, <2>4, <2>6, <3>1, <3>2
    <3>3. CASE j = Len(c) + 1
      <4>1. s[j] = e /\ key[e] = k
        BY <1>1, <2>3, <2>6, <3>3
      <4>2. s[i] \in saved /\ Target(s[i]) = k /\ key[s[i]] = k
        BY <1>1, <2>4, <2>6, <3>1
      <4>3. Came(k, s[i], e)
        BY <1>1, <1>k, <4>1, <4>2, SaveOrders
      <4> QED BY <1>1, <4>1, <4>3, CameStays
    <3> QED BY <2>3, <3>2, <3>3
  <2>7. s \in Versions'[k]
    BY <2>5, <2>6 DEF Versions
  <2> QED BY <1>4, <2>1, <2>7
<1>10. Recorded'
  <2>1. \A q \in Keys : row'[q] \in Versions'[q]
    BY <1>1, <1>3, <1>4, <1>9, Standing DEF Kept, Recorded
  <2>2. \A f \in saved' : pc'[f] \in Past
    BY <1>1, Standing
  <2>3. \A f \in Events : /\ pc'[f] = "save" => copy'[f] \in Versions'[Target(f)']
                          /\ pc'[f] = "take" => copy'[f] \in Versions'[other'[f]]
    BY <1>1, <1>2 DEF Past
  <2> QED BY <2>1, <2>2, <2>3 DEF Recorded
<1>11. NoChangeLost'
  <2>1. ASSUME NEW f \in saved
        PROVE  \/ Target(f) \in TakenOver'
               \/ \E i \in 1..Len(row'[Target(f)]) : row'[Target(f)][i] = f
    <3>1. Target(f) \in Keys
      BY <1>1, Standing
    <3>2. CASE Target(f) # k
      BY <1>4, <1>6, <3>1, <3>2 DEF Kept, NoChangeLost
    <3>3. CASE Target(f) = k /\ ~k \in TakenOver
      <4>1. copy[e] = row[k] /\ \E i \in 1..Len(row[k]) : row[k][i] = f
        BY <1>1, <1>k, <3>3 DEF Kept, Current, NoChangeLost
      <4> QED BY <1>5, <3>3, <4>1
    <3> QED BY <1>6, <3>2, <3>3
  <2>2. \E i \in 1..Len(row'[k]) : row'[k][i] = e
    BY <1>5
  <2>3. \A f \in saved : Target(f)' = Target(f)
    BY <1>1, Standing
  <2> QED BY <1>1, <1>k, <2>1, <2>2, <2>3 DEF NoChangeLost
<1> QED BY <1>7, <1>8, <1>10, <1>11 DEF Kept

LEMMA StepKept == Whole /\ Kept /\ [Next]_vars => Kept'
<1> SUFFICES ASSUME Whole, Kept, [Next]_vars PROVE Kept'
  OBVIOUS
<1>1. ASSUME NEW e \in Events, Process(e) PROVE Kept'
  BY <1>1, ReadKept, TakeOverKept, SaveKept
<1>2. ASSUME UNCHANGED rows, \A f \in Events : pc'[f] \in {"save", "take"} =>
                               pc'[f] = pc[f] /\ key'[f] = key[f]
      PROVE  Kept'
  <2>1. UNCHANGED <<row, copy, other, saved>>
    BY <1>2 DEF rows
  <2>2. \A f \in Events : pc'[f] \in {"save", "take"} =>
          /\ pc'[f] = pc[f] /\ key'[f] = key[f] /\ Target(f)' = Target(f)
          /\ key[f] \in Keys /\ Target(f) \in Keys
    BY <1>2, TargetType DEF Whole, Target, HasParent
  <2>3. \A k \in Keys : k \in TakenOver => k \in TakenOver'
    BY <2>1, Standing
  <2>4. Current' /\ Fresh'
    BY <2>1, <2>2, <2>3 DEF Kept, Current, Fresh
  <2>5. ASSUME NEW f \in Events
        PROVE  /\ pc'[f] = "save" => copy'[f] \in Versions'[Target(f)']
               /\ pc'[f] = "take" => copy'[f] \in Versions'[other'[f]]
    <3>1. copy[f] \in Seq(Events) /\ (pc[f] = "take" => other[f] \in Keys)
      BY DEF Whole, Typed, TypeOK, Taking
    <3>2. pc'[f] = "save" => copy[f] \in Versions'[Target(f)']
      BY <2>1, <2>2, <3>1, Standing DEF Kept, Recorded
    <3>3. pc'[f] = "take" => copy[f] \in Versions'[other[f]]
      BY <2>1, <2>2, <3>1, Standing DEF Kept, Recorded
    <3> QED BY <2>1, <2>2, <3>2, <3>3
  <2> QED BY <2>1, <2>4, <2>5, QuietKept
<1>3. ASSUME NEW e \in Events, NEW k \in Keys, Receive(e, k) PROVE Kept'
  <2>1. UNCHANGED rows
    BY <1>3 DEF Receive
  <2>2. \A f \in Events : pc'[f] \in {"save", "take"} => pc'[f] = pc[f] /\ key'[f] = key[f]
    BY <1>3 DEF Receive, Goto, Whole, Typed, TypeOK
  <2> QED BY <1>2, <2>1, <2>2
<1>4. CASE UNCHANGED vars
  BY <1>2, <1>4 DEF vars
<1> QED BY <1>1, <1>3, <1>4 DEF Next

LEMMA AlwaysKept == Spec => []Kept
BY InitKept, StepKept, AlwaysWhole, PTL DEF Spec

\* However many events, subagents and levels of them there are, events that
\* hold the tickets of a conversation never overwrite each other's changes: a
\* change goes missing only where another conversation has taken the row over.
THEOREM NothingOverwritten == Spec => []NoChangeLost
<1>1. Kept => NoChangeLost
  BY DEF Kept
<1> QED BY <1>1, AlwaysKept, PTL

\* However the goroutines are scheduled, and whichever rows are taken over
\* meanwhile, a row shows the events of its own conversation in the order in
\* which handleHook received them.
THEOREM ShownAsArrived == Spec => []ArrivalOrder
<1>1. ASSUME Kept, NEW k \in Keys, NEW i \in 1..Len(row[k]), NEW j \in 1..Len(row[k]), i < j,
             key[row[k][i]] = k, key[row[k][j]] = k
      PROVE  Came(k, row[k][i], row[k][j])
  BY <1>1 DEF Kept, Recorded, Versions
<1>2. Kept => ArrivalOrder
  BY <1>1 DEF Came, ArrivalOrder
<1> QED BY <1>2, AlwaysKept, PTL
================================================================================
