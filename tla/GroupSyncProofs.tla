--------------------------- MODULE GroupSyncProofs ---------------------------
(***************************************************************************)
(* Proofs about GroupSync, for any people and number of changes: the       *)
(* types, and that a hole in the history is asked for (HoleAsked); and     *)
(* that a room misses nobody (NobodyMissing), has its subject              *)
(* (SubjectAgrees) and lists nobody whose leaving it could hear of         *)
(* (GhostsKnown): if no process logs in again, or however often one does   *)
(* as long as no event is handled between GetGroups and the fill of the    *)
(* room (Uncrossed) and, for the first two, whoever pairs anew has handled *)
(* the events of the earlier pairing (Afresh).                             *)
(*                                                                         *)
(* The last three go one way: a fact of the group is followed from where   *)
(* it is told to where it is applied, and the last that is told of it, in  *)
(* the mail, behind it the line, behind it what was fetched for the room,  *)
(* is true; where nothing is told of it the room is right already.         *)
(***************************************************************************)
EXTENDS GroupSync, TLAPS

(* What an event, or a place in the group, makes of a participant. *)
Target(act) ==
  CASE act = "remove" -> "none"
    [] act = "promote" -> "owner"
    [] OTHER -> "member"

Place(r) == IF r = "out" THEN "none" ELSE Affiliated(r)

(* The places of a sequence where an event of M is; and the last of these  *)
(* events, if there is one, is in N: from each of them one in N comes.     *)
Among(events, M) == {i \in 1..Len(events) : events[i] \in M}
EndsWith(events, M, N) ==
  \A i \in Among(events, M) : \E j \in Among(events, M) : j >= i /\ events[j] \in N

Concerns(e, p) == e.act \in Action /\ e.who = p
Concerning(p) == {e \in Event : Concerns(e, p)}
About(events, p) == Among(events, Concerning(p))

(* The last of the events that concern p, if there is one, leaves p as a. *)
LeavesAs(events, p, a) == EndsWith(events, Concerning(p), {e \in Event : Target(e.act) = a})

(* What the proofs ask of logins.  No event is handled between GetGroups    *)
(* and the fill of the room with what it returned, which knows nothing of  *)
(* the event or is told of it again; and no login that pairs anew finds    *)
(* events of an earlier pairing that are still to be handled.              *)
Uncrossed == HandleGroup => fill # "fetched"
Afresh == Login /\ linked # "linked" => \A i \in 1..Len(line) : line[i] \notin GroupEvent

Untouched(p) == About(mail, p) = {} /\ About(line, p) = {}

(* The invariant: while the device is linked, what is told last of each     *)
(* person, by mail, in line, by what was fetched or in the room, is true.  *)
NoMail == linked # "linked" => mail = <<>>
OwnerUntouched == \A p \in Person : role[p] = "owner" => Untouched(p)
MailIsTrue == linked = "linked" => \A p \in Person : LeavesAs(mail, p, Place(role[p]))

LineIsTrue ==
  linked = "linked" =>
    \A p \in Person : About(mail, p) = {} => LeavesAs(line, p, Place(role[p]))

FetchedIsTrue ==
  linked = "linked" /\ fill = "fetched" =>
    \A p \in Person : Untouched(p) => groups.role[p] = role[p]

RoomIsTrue ==
  linked = "linked" /\ connected /\ gate /\ fill = "none" =>
    \A p \in Person : Untouched(p) /\ role[p] # "out" =>
      /\ aff[p] = Affiliated(role[p])
      /\ role[p] = "owner" => p \in hats

GroupInv ==
  /\ TypeOK
  /\ NoMail /\ OwnerUntouched
  /\ MailIsTrue /\ LineIsTrue /\ FetchedIsTrue /\ RoomIsTrue
-----------------------------------------------------------------------------
LEMMA EventShape ==
  ASSUME NEW e \in Event
  PROVE  /\ e.who \in Person \cup {Nobody}
         /\ e \in GroupEvent => e.act \in Action \cup {"topic"}
         /\ e.act \in Action => e.who \in Person
<1>1. CASE e \in [act : Action, who : Person]
  BY <1>1 DEF Action
<1>2. CASE e \in [act : {"topic"}, who : Person \cup {Nobody}]
  BY <1>2 DEF Action
<1>3. CASE e \in {Connect, LoggedOut}
  <2>1. e.who = Nobody /\ e.act \in {"connect", "logged out"}
    <3>1. e = Connect \/ e = LoggedOut
      BY <1>3
    <3>2. /\ Connect.who = Nobody /\ Connect.act = "connect"
          /\ LoggedOut.who = Nobody /\ LoggedOut.act = "logged out"
      BY DEF Connect, LoggedOut
    <3> QED
      BY <3>1, <3>2
  <2>2. e \notin GroupEvent
    BY <2>1 DEF GroupEvent, Action
  <2> QED
    BY <2>1, <2>2 DEF Action
<1> QED
  BY <1>1, <1>2, <1>3 DEF Event, GroupEvent

(* What an event at the end of a sequence does to how the sequence ends.   *)
LEMMA AppendEnds ==
  ASSUME NEW s \in Seq(Event), NEW e \in Event, NEW M, NEW N
  PROVE  /\ e \in M => Among(Append(s, e), M) # {}
         /\ e \in M /\ e \in N => EndsWith(Append(s, e), M, N)
         /\ e \notin M => /\ Among(Append(s, e), M) = Among(s, M)
                          /\ EndsWith(s, M, N) => EndsWith(Append(s, e), M, N)
<1> DEFINE t == Append(s, e)
<1>1. /\ Len(s) \in Nat /\ Len(t) = Len(s) + 1
      /\ t[Len(s) + 1] = e
      /\ \A i \in 1..Len(s) : t[i] = s[i]
  OBVIOUS
<1> HIDE DEF t
<1>2. ASSUME e \in M PROVE Among(t, M) # {} /\ (e \in N => EndsWith(t, M, N))
  <2>1. Len(s) + 1 \in Among(t, M) /\ \A i \in Among(t, M) : Len(s) + 1 >= i
    BY <1>1, <1>2 DEF Among
  <2> QED
    BY <1>1, <2>1 DEF EndsWith
<1>3. ASSUME e \notin M
      PROVE  Among(t, M) = Among(s, M) /\ (EndsWith(s, M, N) => EndsWith(t, M, N))
  <2>1. Among(t, M) = Among(s, M)
    BY <1>1, <1>3 DEF Among
  <2>2. \A i \in Among(s, M) : t[i] = s[i]
    BY <1>1 DEF Among
  <2> QED
    BY <2>1, <2>2 DEF EndsWith
<1> QED
  BY <1>2, <1>3 DEF t

(* And what the first one leaves behind when it is taken away. *)
LEMMA TailAmong ==
  ASSUME NEW s \in Seq(Event), s # <<>>, NEW M
  PROVE  /\ Among(s, M) = {} => Among(Tail(s), M) = {} /\ Head(s) \notin M
         /\ Head(s) \notin M /\ Among(Tail(s), M) = {} => Among(s, M) = {}
<1> DEFINE t == Tail(s)
<1>1. /\ Len(s) \in Nat \ {0} /\ Len(t) = Len(s) - 1
      /\ Head(s) = s[1]
      /\ \A i \in 1..Len(t) : t[i] = s[i + 1]
  OBVIOUS
<1> HIDE DEF t
<1>2. \A i \in 1..Len(t) : i + 1 \in 1..Len(s)
  BY <1>1
<1>3. \A i \in 1..Len(s) : i = 1 \/ (i - 1 \in 1..Len(t) /\ s[i] = t[i - 1])
  BY <1>1
<1>4. Among(s, M) = {} => Among(t, M) = {} /\ Head(s) \notin M
  BY <1>1, <1>2 DEF Among
<1>5. Head(s) \notin M /\ Among(t, M) = {} => Among(s, M) = {}
  BY <1>1, <1>3 DEF Among
<1> QED
  BY <1>4, <1>5 DEF t

LEMMA TailEnds ==
  ASSUME NEW s \in Seq(Event), s # <<>>, NEW M, NEW N, EndsWith(s, M, N)
  PROVE  /\ EndsWith(Tail(s), M, N)
         /\ Among(Tail(s), M) = {} /\ Head(s) \in M => Head(s) \in N
<1> DEFINE t == Tail(s)
<1>1. /\ Len(s) \in Nat \ {0} /\ Len(t) = Len(s) - 1
      /\ Head(s) = s[1]
      /\ \A i \in 1..Len(t) : t[i] = s[i + 1]
  OBVIOUS
<1> HIDE DEF t
<1>2. \A i \in 1..Len(t) : i \in Among(t, M) <=> i + 1 \in Among(s, M)
  BY <1>1 DEF Among
<1>3. \A i \in Among(s, M) : i = 1 \/ (i - 1 \in Among(t, M) /\ i \in Nat)
  BY <1>1 DEF Among
<1>4. Among(t, M) \subseteq 1..Len(t) /\ 1..Len(t) \subseteq Nat \ {0}
  BY <1>1 DEF Among
<1>5. EndsWith(t, M, N)
  <2> SUFFICES ASSUME NEW i \in Among(t, M)
               PROVE  \E j \in Among(t, M) : j >= i /\ t[j] \in N
    BY DEF EndsWith
  <2>1. i \in Nat \ {0} /\ i + 1 \in Among(s, M)
    BY <1>1, <1>2, <1>4
  <2>2. PICK j \in Among(s, M) : j >= i + 1 /\ s[j] \in N
    BY <2>1 DEF EndsWith
  <2>3. j \in Nat /\ j - 1 \in Among(t, M) /\ j - 1 >= i
    BY <1>3, <2>1, <2>2
  <2>4. t[j - 1] = s[j]
    BY <1>1, <1>4, <2>3
  <2> QED
    BY <2>2, <2>3, <2>4
<1>6. ASSUME Among(t, M) = {}, Head(s) \in M PROVE Head(s) \in N
  <2>1. Among(s, M) \subseteq {1}
    BY <1>3, <1>6
  <2>2. 1 \in Among(s, M)
    BY <1>1, <1>6 DEF Among
  <2> QED
    BY <1>1, <2>1, <2>2 DEF EndsWith
<1> QED
  BY <1>5, <1>6 DEF t

LEMMA EmptyEnds == ASSUME NEW M, NEW N PROVE Among(<<>>, M) = {} /\ EndsWith(<<>>, M, N)
  BY DEF Among, EndsWith

(* The same of the events that concern one person. *)
LEMMA AppendSays ==
  ASSUME NEW s \in Seq(Event), NEW e \in Event, NEW p \in Person, NEW a
  PROVE  /\ Concerns(e, p) => /\ About(Append(s, e), p) # {}
                              /\ LeavesAs(Append(s, e), p, Target(e.act))
         /\ ~ Concerns(e, p) => /\ About(Append(s, e), p) = About(s, p)
                                /\ LeavesAs(s, p, a) => LeavesAs(Append(s, e), p, a)
  BY AppendEnds DEF About, LeavesAs, Concerning

LEMMA TailAbout ==
  ASSUME NEW s \in Seq(Event), s # <<>>, NEW p
  PROVE  /\ About(s, p) = {} => About(Tail(s), p) = {} /\ ~ Concerns(Head(s), p)
         /\ ~ Concerns(Head(s), p) /\ About(Tail(s), p) = {} => About(s, p) = {}
<1>1. Head(s) \in Event
  OBVIOUS
<1>2. Head(s) \in Concerning(p) <=> Concerns(Head(s), p)
  BY <1>1 DEF Concerning
<1> QED
  BY <1>2, TailAmong DEF About

LEMMA TailSays ==
  ASSUME NEW s \in Seq(Event), s # <<>>, NEW p \in Person, NEW a, LeavesAs(s, p, a)
  PROVE  /\ LeavesAs(Tail(s), p, a)
         /\ About(Tail(s), p) = {} /\ Concerns(Head(s), p) => Target(Head(s).act) = a
         /\ About(Tail(s), p) = {} /\ ~ Concerns(Head(s), p) => About(s, p) = {}
<1>1. Head(s) \in Event
  OBVIOUS
<1>2. Head(s) \in Concerning(p) <=> Concerns(Head(s), p)
  BY <1>1 DEF Concerning
<1> QED
  BY <1>2, TailEnds, TailAbout DEF About, LeavesAs

LEMMA EmptySays == ASSUME NEW p, NEW a PROVE About(<<>>, p) = {} /\ LeavesAs(<<>>, p, a)
  BY EmptyEnds DEF About, LeavesAs
-----------------------------------------------------------------------------
LEMMA InitType == Init => TypeOK
<1> SUFFICES ASSUME Init PROVE TypeOK
  OBVIOUS
<1>1. <<>> \in Seq(Event)
  OBVIOUS
<1>2. role \in [Person -> Role] /\ groups \in Group /\ aff \in [Person -> Affiliation]
  <2>1. PICK creator \in Person : role = [p \in Person |-> IF p = creator THEN "owner" ELSE "out"]
    BY DEF Init
  <2>2. role \in [Person -> Role]
    BY <2>1 DEF Role
  <2> QED
    BY <2>2 DEF Init, Group, Affiliation
<1>3. changes \in 0..MaxChanges
  BY GroupAssumption DEF Init
<1>4. mail \in Seq(Event) /\ line \in Seq(Event)
  BY <1>1 DEF Init
<1> QED
  BY <1>2, <1>3, <1>4 DEF Init, TypeOK

LEMMA HappensType == ASSUME TypeOK, Happens PROVE changes' \in 0..MaxChanges
  BY GroupAssumption DEF TypeOK, Happens

LEMMA ChangeType == ASSUME TypeOK, NEW p \in Person, Change(p) PROVE TypeOK'
<1>1. PICK act \in Action, r \in Role : Becomes(p, act, r)
  BY DEF Change, Action, Role
<1>2. role' \in [Person -> Role]
  BY <1>1 DEF Becomes, TypeOK
<1>3. mail' \in Seq(Event)
  <2>1. [act |-> act, who |-> p] \in Event
    BY DEF Event, GroupEvent
  <2> QED
    BY <1>1, <2>1 DEF Becomes, Tell, TypeOK
<1>4. untold' \subseteq Person
  BY DEF Change, TypeOK
<1>5. changes' \in 0..MaxChanges
  BY HappensType DEF Change
<1> QED
  BY <1>2, <1>3, <1>4, <1>5 DEF Change, TypeOK, session, room, history

LEMMA ChangeTopicType ==
  ASSUME TypeOK, NEW p \in Person \cup {Nobody}, ChangeTopic(p)
  PROVE  TypeOK'
<1>1. [act |-> "topic", who |-> p] \in Event
  BY DEF Event, GroupEvent
<1>2. mail' \in Seq(Event)
  BY <1>1 DEF ChangeTopic, Tell, TypeOK
<1>3. changes' \in 0..MaxChanges
  BY HappensType DEF ChangeTopic
<1> QED
  BY <1>2, <1>3 DEF ChangeTopic, TypeOK, session, room, history

LEMMA UnlinkType == ASSUME TypeOK, Unlink PROVE TypeOK'
<1>1. changes' \in 0..MaxChanges
  BY HappensType DEF Unlink
<1>2. <<>> \in Seq(Event) /\ Removed(mail) \subseteq Person
  BY DEF Removed
<1> QED
  BY <1>1, <1>2 DEF Unlink, TypeOK, session, room

LEMMA PassingEvents == Connect \in Event /\ LoggedOut \in Event
  BY DEF Event

LEMMA LoginType == ASSUME TypeOK, Login PROVE TypeOK'
<1>1. line' \in Seq(Event)
  BY PassingEvents DEF Login, TypeOK
<1> QED
  BY <1>1 DEF Login, TypeOK, room, history

LEMMA DownType == ASSUME TypeOK, Down PROVE connected' \in BOOLEAN /\ fill' \in {"none", "fetched"}
  BY DEF TypeOK, Down

LEMMA DisconnectType == ASSUME TypeOK, Disconnect PROVE TypeOK'
  BY DownType DEF Disconnect, TypeOK, whatsapp, queues, room, history

LEMMA RefuseType == ASSUME TypeOK, Refuse PROVE TypeOK'
<1>1. line' \in Seq(Event)
  BY PassingEvents DEF Refuse, TypeOK
<1> QED
  BY <1>1, DownType DEF Refuse, TypeOK, room, history

LEMMA HeadTail ==
  ASSUME NEW S, NEW s \in Seq(S), s # <<>>
  PROVE  Head(s) \in S /\ Tail(s) \in Seq(S)
  OBVIOUS

LEMMA DeliverType == ASSUME TypeOK, Deliver PROVE TypeOK'
<1>1. Head(mail) \in Event /\ Tail(mail) \in Seq(Event)
  BY HeadTail DEF TypeOK, Deliver
<1>2. line' \in Seq(Event)
  BY <1>1 DEF Deliver, TypeOK
<1> QED
  BY <1>1, <1>2 DEF Deliver, TypeOK, whatsapp, session, room, history

LEMMA RestartType == ASSUME TypeOK, Restart PROVE TypeOK'
<1>1. <<>> \in Seq(Event) /\ Removed(line) \subseteq Person
  BY DEF Removed
<1>2. unheard' \in BOOLEAN
  BY DEF Restart, TypeOK
<1> QED
  BY <1>1, <1>2 DEF Restart, TypeOK, whatsapp, room

LEMMA GetGroupsType == ASSUME TypeOK, GetGroups PROVE TypeOK'
<1>1. groups' \in Group
  BY DEF GetGroups, Group, TypeOK
<1> QED
  BY <1>1 DEF GetGroups, TypeOK, whatsapp, queues, room, history

LEMMA WithSetterType ==
  ASSUME TypeOK, NEW p \in Person \cup {Nobody}
  PROVE  WithSetter(p) \in [Person -> Affiliation]
  BY DEF TypeOK, WithSetter, Affiliation

LEMMA FillType == ASSUME TypeOK, Fill PROVE TypeOK'
<1> DEFINE present == {p \in Person : groups.role[p] # "out"}
           some == [p \in Person |-> IF p \in present THEN Affiliated(groups.role[p])
                                     ELSE WithSetter(groups.topic)[p]]
<1>1. groups.topic \in Person \cup {Nobody}
  BY DEF TypeOK, Group
<1>2. some \in [Person -> Affiliation]
  BY <1>1, WithSetterType DEF Affiliated, Affiliation
<1>3. aff' \in [Person -> Affiliation]
  BY <1>2 DEF Fill
<1>4. hats' \subseteq Person /\ untold' \subseteq Person /\ subject' \in Person \cup {Nobody}
  BY <1>1 DEF Fill, TypeOK
<1> QED
  BY <1>3, <1>4 DEF Fill, TypeOK, whatsapp, queues, history

LEMMA HandleGroupType == ASSUME TypeOK, HandleGroup PROVE TypeOK'
<1> DEFINE e == Head(line)
<1>1. e \in Event /\ Tail(line) \in Seq(Event)
  BY HeadTail DEF TypeOK, HandleGroup
<1>2. e \in GroupEvent
  BY DEF HandleGroup
<1> HIDE DEF e
<1>3. e.act \in Action \cup {"topic"} /\ e.who \in Person \cup {Nobody}
  BY <1>1, <1>2, EventShape
<1>4. Update(e)
  BY DEF HandleGroup, e
<1>5. /\ aff' \in [Person -> Affiliation]
      /\ hats' \subseteq Person
      /\ subject' \in Person \cup {Nobody}
  <2>1. CASE e.act = "topic"
    BY <1>3, <1>4, <2>1, WithSetterType DEF Update, TypeOK
  <2>2. CASE e.act \in Action
    <3>1. \E a \in Affiliation : aff' = [aff EXCEPT ![e.who] = a]
      BY <1>4, <2>2 DEF Update, Action, Affiliation
    <3>2. hats' \subseteq Person /\ subject' = subject
      BY <1>4, <2>2 DEF Update, Action, TypeOK
    <3> QED
      BY <3>1, <3>2 DEF TypeOK
  <2> QED
    BY <1>3, <2>1, <2>2
<1> QED
  BY <1>1, <1>5 DEF HandleGroup, TypeOK, whatsapp, session, history

LEMMA HandleConnectType == ASSUME TypeOK, HandleConnect PROVE TypeOK'
<1>1. Tail(line) \in Seq(Event)
  BY HeadTail DEF TypeOK, HandleConnect
<1> QED
  BY <1>1 DEF HandleConnect, TypeOK, whatsapp, room, history

LEMMA HandleLoggedOutType == ASSUME TypeOK, HandleLoggedOut PROVE TypeOK'
<1>1. Tail(line) \in Seq(Event)
  BY HeadTail DEF TypeOK, HandleLoggedOut
<1> QED
  BY <1>1 DEF HandleLoggedOut, TypeOK, whatsapp, session, room

LEMMA BackfillType == ASSUME TypeOK, Backfill PROVE TypeOK'
  BY DEF Backfill, TypeOK, whatsapp, queues, session, room

LEMMA StepType == TypeOK /\ [Next]_vars => TypeOK'
<1> SUFFICES ASSUME TypeOK, [Next]_vars PROVE TypeOK'
  OBVIOUS
<1>1. CASE UNCHANGED vars
  BY <1>1 DEF TypeOK, vars, whatsapp, queues, session, room, history
<1> QED
  BY <1>1, ChangeType, ChangeTopicType, UnlinkType, LoginType, DisconnectType, RefuseType,
     DeliverType, RestartType, GetGroupsType, FillType, HandleGroupType, HandleConnectType,
     HandleLoggedOutType, BackfillType DEF Next

(* Every reachable state of WhatsApp's group, of the events about it and of *)
(* the room is of its type, however often a process logs in.               *)
THEOREM GroupTypeCorrect == Spec => []TypeOK
  BY InitType, StepType, PTL DEF Spec
-----------------------------------------------------------------------------
LEMMA NoneSays == ASSUME NEW s, NEW p, NEW a, About(s, p) = {} PROVE LeavesAs(s, p, a)
  BY DEF LeavesAs, EndsWith, About

LEMMA Unconcerned ==
  ASSUME NEW p, NEW q
  PROVE  /\ ~ Concerns([act |-> "topic", who |-> q], p)
         /\ ~ Concerns(Connect, p) /\ ~ Concerns(LoggedOut, p)
  BY DEF Concerns, Connect, LoggedOut, Action

LEMMA InitInv == Init => GroupInv
<1> SUFFICES ASSUME Init PROVE GroupInv
  OBVIOUS
<1>1. mail = <<>> /\ line = <<>> /\ fill = "none" /\ linked = "unpaired" /\ ~ gate
  BY DEF Init
<1>2. OwnerUntouched
  BY <1>1, EmptySays DEF OwnerUntouched, Untouched
<1> QED
  BY <1>1, <1>2, InitType
     DEF GroupInv, NoMail, MailIsTrue, LineIsTrue, FetchedIsTrue, RoomIsTrue

LEMMA ChangeInv == ASSUME GroupInv, NEW p \in Person, Change(p) PROVE GroupInv'
<1>0. TypeOK'
  BY ChangeType DEF GroupInv
<1>1. PICK act \in Action, r \in Role \ {"owner"} : Becomes(p, act, r) /\ Target(act) = Place(r)
  BY DEF Change, Action, Role, Target, Place, Affiliated
<1> DEFINE e == [act |-> act, who |-> p]
<1>2. /\ role'[p] = r
      /\ \A q \in Person \ {p} : role'[q] = role[q]
      /\ mail' = IF linked = "linked" THEN Append(mail, e) ELSE mail
      /\ UNCHANGED <<linked, line, connected, fill, groups, gate, aff, hats>>
  BY <1>1 DEF Becomes, Tell, Change, GroupInv, TypeOK, session, room
<1>3. /\ e \in Event /\ e.act = act
      /\ Concerns(e, p) /\ \A q \in Person \ {p} : ~ Concerns(e, q)
  BY DEF Event, GroupEvent, Concerns
<1> HIDE DEF e
<1>4. mail \in Seq(Event) /\ line \in Seq(Event)
  BY DEF GroupInv, TypeOK
<1>5. \A q \in Person \ {p} : About(mail', q) = About(mail, q)
  BY <1>2, <1>3, <1>4, AppendSays
<1>6. linked = "linked" => About(mail', p) # {}
  BY <1>2, <1>3, <1>4, AppendSays
<1>7. NoMail'
  BY <1>2 DEF GroupInv, NoMail
<1>8. OwnerUntouched'
  BY <1>2, <1>5 DEF GroupInv, OwnerUntouched, Untouched
<1>9. MailIsTrue'
  <2> SUFFICES ASSUME linked = "linked", NEW q \in Person
               PROVE  LeavesAs(mail', q, Place(role'[q]))
    BY <1>2 DEF MailIsTrue
  <2>1. CASE q = p
    BY <1>1, <1>2, <1>3, <1>4, <2>1, AppendSays
  <2>2. CASE q # p
    <3>1. LeavesAs(mail, q, Place(role[q]))
      BY DEF GroupInv, MailIsTrue
    <3> QED
      BY <1>2, <1>3, <1>4, <2>2, <3>1, AppendSays
  <2> QED
    BY <2>1, <2>2
<1>10. LineIsTrue' /\ FetchedIsTrue' /\ RoomIsTrue'
  BY <1>2, <1>5, <1>6 DEF GroupInv, LineIsTrue, FetchedIsTrue, RoomIsTrue, Untouched
<1> QED
  BY <1>0, <1>7, <1>8, <1>9, <1>10 DEF GroupInv

LEMMA ChangeTopicInv ==
  ASSUME GroupInv, NEW p \in Person \cup {Nobody}, ChangeTopic(p)
  PROVE  GroupInv'
<1>0. TypeOK'
  BY ChangeTopicType DEF GroupInv
<1> DEFINE e == [act |-> "topic", who |-> p]
<1>1. e \in Event /\ \A q \in Person : ~ Concerns(e, q)
  BY Unconcerned DEF Event, GroupEvent
<1>2. /\ mail' = IF linked = "linked" THEN Append(mail, e) ELSE mail
      /\ UNCHANGED <<role, linked, line, connected, fill, groups, gate, aff, hats>>
  BY DEF ChangeTopic, Tell, session, room
<1> HIDE DEF e
<1>3. mail \in Seq(Event)
  BY DEF GroupInv, TypeOK
<1>4. \A q \in Person : About(mail', q) = About(mail, q)
  BY <1>1, <1>2, <1>3, AppendSays
<1>5. \A q \in Person : LeavesAs(mail, q, Place(role[q])) => LeavesAs(mail', q, Place(role[q]))
  BY <1>1, <1>2, <1>3, AppendSays
<1>6. MailIsTrue'
  BY <1>2, <1>5 DEF GroupInv, MailIsTrue
<1> QED
  BY <1>0, <1>2, <1>4, <1>6 DEF GroupInv, NoMail, OwnerUntouched, LineIsTrue,
     FetchedIsTrue, RoomIsTrue, Untouched

LEMMA UnlinkInv == ASSUME GroupInv, Unlink PROVE GroupInv'
<1>1. TypeOK'
  BY UnlinkType DEF GroupInv
<1>2. linked' = "unlinked" /\ mail' = <<>> /\ UNCHANGED <<role, line, fill, gate>>
  BY DEF Unlink, session
<1>3. OwnerUntouched'
  BY <1>2, EmptySays DEF GroupInv, OwnerUntouched, Untouched
<1> QED
  BY <1>1, <1>2, <1>3 DEF GroupInv, NoMail, MailIsTrue, LineIsTrue,
     FetchedIsTrue, RoomIsTrue

LEMMA LoginInv == ASSUME Afresh, GroupInv, Login PROVE GroupInv'
<1>0. TypeOK'
  BY LoginType DEF GroupInv
<1>1. /\ line' = Append(line, Connect)
      /\ fill' = "login" /\ linked' = "linked"
      /\ UNCHANGED <<role, mail>>
  BY DEF Login
<1>2. \A q \in Person :
        /\ About(line', q) = About(line, q)
        /\ LeavesAs(line, q, Place(role[q])) => LeavesAs(line', q, Place(role[q]))
  BY <1>1, PassingEvents, Unconcerned, AppendSays DEF GroupInv, TypeOK
<1>3. NoMail' /\ FetchedIsTrue' /\ RoomIsTrue'
  BY <1>1 DEF NoMail, FetchedIsTrue, RoomIsTrue
<1>4. OwnerUntouched'
  BY <1>1, <1>2 DEF GroupInv, OwnerUntouched, Untouched
<1>5. MailIsTrue'
  <2>1. CASE linked = "linked"
    BY <1>1, <2>1 DEF GroupInv, MailIsTrue
  <2>2. CASE linked # "linked"
    BY <1>1, <2>2, EmptySays DEF GroupInv, MailIsTrue, NoMail
  <2> QED
    BY <2>1, <2>2
<1>6. LineIsTrue'
  <2>1. CASE linked = "linked"
    BY <1>1, <1>2, <2>1 DEF GroupInv, LineIsTrue
  <2>2. CASE linked # "linked"
    <3>1. \A q \in Person, e \in Event : Concerns(e, q) => e \in GroupEvent
      BY Unconcerned DEF Event
    <3>2. \A q \in Person : About(line, q) = {}
      BY <2>2, <3>1 DEF Afresh, About, Among, Concerning
    <3> QED
      BY <1>1, <1>2, <3>2, NoneSays DEF LineIsTrue
  <2> QED
    BY <2>1, <2>2
<1> QED
  BY <1>0, <1>3, <1>4, <1>5, <1>6 DEF GroupInv

LEMMA DisconnectInv == ASSUME GroupInv, Disconnect PROVE GroupInv'
<1>1. TypeOK'
  BY DisconnectType DEF GroupInv
<1>2. /\ fill' \in {fill, "none"} /\ ~ connected'
      /\ UNCHANGED <<role, linked, mail, line, groups>>
  BY DEF Disconnect, Down, whatsapp, queues
<1> QED
  BY <1>1, <1>2 DEF GroupInv, NoMail, OwnerUntouched, MailIsTrue, LineIsTrue,
     FetchedIsTrue, RoomIsTrue, Untouched

LEMMA RefuseInv == ASSUME GroupInv, Refuse PROVE GroupInv'
<1>1. TypeOK'
  BY RefuseType DEF GroupInv
<1>2. /\ linked = "unlinked" /\ linked' = "unpaired"
      /\ line' = Append(line, LoggedOut)
      /\ fill' \in {fill, "none"}
      /\ UNCHANGED <<role, mail, gate>>
  BY DEF Refuse, Down
<1>3. \A q \in Person : About(line', q) = About(line, q)
  BY <1>2, PassingEvents, Unconcerned, AppendSays DEF GroupInv, TypeOK
<1>4. OwnerUntouched'
  BY <1>2, <1>3 DEF GroupInv, OwnerUntouched, Untouched
<1> QED
  BY <1>1, <1>2, <1>4 DEF GroupInv, NoMail, MailIsTrue, LineIsTrue,
     FetchedIsTrue, RoomIsTrue

LEMMA DeliverInv == ASSUME GroupInv, Deliver PROVE GroupInv'
<1>0. TypeOK'
  BY DeliverType DEF GroupInv
<1> DEFINE e == Head(mail)
<1>1. /\ linked = "linked" /\ mail # <<>>
      /\ line' = Append(line, e) /\ mail' = Tail(mail)
      /\ UNCHANGED <<role, linked, connected, fill, groups, gate, aff, hats>>
  BY DEF Deliver, whatsapp, session, room
<1>2. mail \in Seq(Event) /\ line \in Seq(Event) /\ e \in Event
  BY <1>1, HeadTail DEF GroupInv, TypeOK
<1> HIDE DEF e
<1>3. ASSUME NEW q \in Person
      PROVE  /\ LeavesAs(mail', q, Place(role[q]))
             /\ About(mail', q) = {} => LeavesAs(line', q, Place(role[q]))
             /\ About(mail', q) = {} /\ About(line', q) = {} => Untouched(q)
             /\ Untouched(q) => About(mail', q) = {} /\ About(line', q) = {}
  <2>1. LeavesAs(mail, q, Place(role[q]))
    BY <1>1 DEF GroupInv, MailIsTrue
  <2>2. /\ LeavesAs(mail', q, Place(role[q]))
        /\ About(mail', q) = {} /\ Concerns(e, q) => Target(e.act) = Place(role[q])
        /\ About(mail', q) = {} /\ ~ Concerns(e, q) => About(mail, q) = {}
    BY <1>1, <1>2, <2>1, TailSays DEF e
  <2>3. About(mail, q) = {} => LeavesAs(line, q, Place(role[q]))
    BY <1>1 DEF GroupInv, LineIsTrue
  <2>4. /\ Concerns(e, q) => About(line', q) # {} /\ LeavesAs(line', q, Target(e.act))
        /\ ~ Concerns(e, q) => /\ About(line', q) = About(line, q)
                               /\ LeavesAs(line, q, Place(role[q])) => LeavesAs(line', q, Place(role[q]))
    BY <1>1, <1>2, AppendSays
  <2>5. About(mail, q) = {} => About(mail', q) = {} /\ ~ Concerns(e, q)
    BY <1>1, <1>2, TailAbout DEF e
  <2> QED
    BY <2>2, <2>3, <2>4, <2>5 DEF Untouched
<1>4. MailIsTrue' /\ LineIsTrue'
  BY <1>1, <1>3 DEF MailIsTrue, LineIsTrue
<1>5. OwnerUntouched' /\ FetchedIsTrue' /\ RoomIsTrue'
  BY <1>1, <1>3 DEF GroupInv, OwnerUntouched, FetchedIsTrue, RoomIsTrue, Untouched
<1>6. NoMail'
  BY <1>1 DEF GroupInv, NoMail
<1> QED
  BY <1>0, <1>4, <1>5, <1>6 DEF GroupInv

LEMMA RestartInv == ASSUME GroupInv, Restart PROVE GroupInv'
<1>1. TypeOK'
  BY RestartType DEF GroupInv
<1>2. /\ line' = <<>> /\ fill' = "none" /\ ~ gate'
      /\ UNCHANGED <<role, linked, mail>>
  BY DEF Restart, whatsapp
<1>3. \A q \in Person : About(line', q) = {} /\ LeavesAs(line', q, Place(role[q]))
  BY <1>2, EmptySays
<1> QED
  BY <1>1, <1>2, <1>3 DEF GroupInv, NoMail, OwnerUntouched, MailIsTrue,
     LineIsTrue, FetchedIsTrue, RoomIsTrue, Untouched

LEMMA GetGroupsInv == ASSUME GroupInv, GetGroups PROVE GroupInv'
<1>1. TypeOK'
  BY GetGroupsType DEF GroupInv
<1>2. /\ groups'.role = role /\ fill = "due" /\ fill' = "fetched"
      /\ UNCHANGED <<role, linked, mail, line, gate>>
  BY DEF GetGroups, whatsapp, queues
<1> QED
  BY <1>1, <1>2 DEF GroupInv, NoMail, OwnerUntouched, MailIsTrue, LineIsTrue,
     FetchedIsTrue, RoomIsTrue, Untouched

LEMMA FillInv == ASSUME GroupInv, Fill PROVE GroupInv'
<1>1. TypeOK'
  BY FillType DEF GroupInv
<1>2. /\ fill = "fetched" /\ fill' = "none"
      /\ UNCHANGED <<role, linked, mail, line>>
      /\ \A p \in Person : groups.role[p] # "out" =>
           /\ aff'[p] = Affiliated(groups.role[p])
           /\ groups.role[p] = "owner" => p \in hats'
  BY DEF Fill, whatsapp, queues
<1>3. RoomIsTrue'
  BY <1>2 DEF GroupInv, FetchedIsTrue, RoomIsTrue, Untouched
<1> QED
  BY <1>1, <1>2, <1>3 DEF GroupInv, NoMail, OwnerUntouched, MailIsTrue,
     LineIsTrue, FetchedIsTrue, Untouched

(* What the first event of the line leaves: the same for each handler.     *)
LEMMA LineShrinks ==
  ASSUME GroupInv, line # <<>>, line' = Tail(line), UNCHANGED <<role, linked, mail>>
  PROVE  NoMail' /\ OwnerUntouched' /\ MailIsTrue' /\ LineIsTrue'
<1>1. line \in Seq(Event)
  BY DEF GroupInv, TypeOK
<1>2. \A q \in Person : About(line, q) = {} => About(line', q) = {}
  BY <1>1, TailAbout
<1>3. \A q \in Person : LeavesAs(line, q, Place(role[q])) => LeavesAs(line', q, Place(role[q]))
  BY <1>1, TailSays
<1> QED
  BY <1>2, <1>3 DEF GroupInv, NoMail, OwnerUntouched, MailIsTrue, LineIsTrue, Untouched

LEMMA HandleGroupInv == ASSUME Uncrossed, GroupInv, HandleGroup PROVE GroupInv'
<1>0. TypeOK'
  BY HandleGroupType DEF GroupInv
<1> DEFINE e == Head(line)
<1>1. /\ line # <<>> /\ line' = Tail(line) /\ gate /\ e \in GroupEvent /\ Update(e)
      /\ UNCHANGED <<role, linked, mail, connected, fill, gate>>
  BY DEF HandleGroup, whatsapp, session
<1>2. line \in Seq(Event) /\ e \in Event
  BY <1>1, HeadTail DEF GroupInv, TypeOK
<1> HIDE DEF e
<1>3. e.act \in Action \cup {"topic"} /\ e.who \in Person \cup {Nobody}
      /\ (e.act \in Action => e.who \in Person)
  BY <1>1, <1>2, EventShape
<1>4. fill # "fetched"
  BY DEF Uncrossed
<1>5. ASSUME linked = "linked", connected, fill = "none", NEW q \in Person, Untouched(q)', role[q] # "out"
      PROVE  aff'[q] = Affiliated(role[q]) /\ (role[q] = "owner" => q \in hats')
  <2>1. About(mail, q) = {} /\ About(line', q) = {}
    BY <1>1, <1>5 DEF Untouched
  <2>2. CASE Concerns(e, q)
    <3>1. Target(e.act) = Place(role[q])
      BY <1>1, <1>2, <1>5, <2>1, <2>2, TailSays DEF GroupInv, LineIsTrue, e
    <3>2. role[q] # "owner"
      BY <1>1, <1>2, <2>2, TailAbout DEF GroupInv, OwnerUntouched, Untouched, e
    <3>3. aff'[q] = Target(e.act)
      BY <1>1, <2>2 DEF Concerns, Update, Target, Action, GroupInv, TypeOK
    <3> QED
      BY <1>5, <3>1, <3>2, <3>3 DEF Place
  <2>3. CASE ~ Concerns(e, q)
    <3>1. Untouched(q)
      BY <1>1, <1>2, <2>1, <2>3, TailAbout DEF Untouched, e
    <3>2. aff[q] = Affiliated(role[q]) /\ (role[q] = "owner" => q \in hats)
      BY <1>1, <1>5, <3>1 DEF GroupInv, RoomIsTrue
    <3>3. CASE e.act \in Action
      <4>1. e.who # q /\ e.who \in Person
        BY <1>3, <2>3, <3>3 DEF Concerns
      <4>2. aff'[q] = aff[q] /\ (q \in hats => q \in hats')
        BY <1>1, <3>3, <4>1 DEF Update, Action, GroupInv, TypeOK
      <4> QED
        BY <3>2, <4>2
    <3>4. CASE e.act = "topic"
      <4>1. aff[q] # "none"
        BY <3>2 DEF Affiliated
      <4>2. aff' = WithSetter(e.who) /\ hats' = hats
        BY <1>1, <3>4 DEF Update
      <4>3. aff'[q] = aff[q]
        BY <4>1, <4>2 DEF WithSetter, GroupInv, TypeOK
      <4> QED
        BY <3>2, <4>2, <4>3
    <3> QED
      BY <1>3, <3>3, <3>4
  <2> QED
    BY <2>2, <2>3
<1>6. RoomIsTrue'
  BY <1>1, <1>5 DEF RoomIsTrue
<1>7. FetchedIsTrue'
  BY <1>1, <1>4 DEF FetchedIsTrue
<1> QED
  BY <1>0, <1>1, <1>6, <1>7, LineShrinks DEF GroupInv

LEMMA PassingInv == ASSUME GroupInv, HandleConnect \/ HandleLoggedOut PROVE GroupInv'
<1>0. TypeOK'
  BY HandleConnectType, HandleLoggedOutType DEF GroupInv
<1>1. /\ line # <<>> /\ line' = Tail(line) /\ Head(line) \in {Connect, LoggedOut}
      /\ fill' = fill \/ (fill = "login" /\ fill' = "due")
      /\ UNCHANGED <<role, linked, mail, connected, groups, gate, aff, hats>>
  BY DEF HandleConnect, HandleLoggedOut, whatsapp, session, room
<1>2. \A q \in Person : About(line', q) = {} => About(line, q) = {}
  BY <1>1, TailAbout, Unconcerned DEF GroupInv, TypeOK
<1>3. FetchedIsTrue' /\ RoomIsTrue'
  BY <1>1, <1>2 DEF GroupInv, FetchedIsTrue, RoomIsTrue, Untouched
<1> QED
  BY <1>0, <1>1, <1>3, LineShrinks DEF GroupInv

LEMMA StepInv == GroupInv /\ [Next]_vars /\ [Uncrossed /\ Afresh]_vars => GroupInv'
<1> SUFFICES ASSUME GroupInv, [Next]_vars, [Uncrossed /\ Afresh]_vars PROVE GroupInv'
  OBVIOUS
<1>1. CASE Backfill \/ UNCHANGED vars
  <2>1. TypeOK'
    BY StepType DEF GroupInv
  <2>2. UNCHANGED <<role, linked, mail, line, connected, fill, groups, gate, aff, hats>>
    BY <1>1 DEF Backfill, vars, whatsapp, queues, session, room
  <2> QED
    BY <2>1, <2>2 DEF GroupInv, NoMail, OwnerUntouched, MailIsTrue,
       LineIsTrue, FetchedIsTrue, RoomIsTrue, Untouched
<1> QED
  BY <1>1, ChangeInv, ChangeTopicInv, UnlinkInv, LoginInv, DisconnectInv, RefuseInv,
     DeliverInv, RestartInv, GetGroupsInv, FillInv, HandleGroupInv, PassingInv DEF Next

(* When everything a session was told is applied, its room has everybody    *)
(* who is in the group, with the right affiliation, whatever restarts and  *)
(* unlinkings have lost and however often a process logs in: as long as no *)
(* event is handled between GetGroups and the fill of the room, and who    *)
(* pairs again has handled what an earlier pairing was told.               *)
THEOREM NobodyMissedUncrossed ==
  Spec /\ [][Uncrossed /\ Afresh]_vars => []NobodyMissing
<1>1. GroupInv => NobodyMissing
  <2> SUFFICES ASSUME GroupInv, Quiet PROVE \A p \in Person : Untouched(p)
    BY DEF GroupInv, RoomIsTrue, NobodyMissing, Quiet
  <2> QED
    BY EmptySays DEF Quiet, Untouched
<1> QED
  BY <1>1, InitInv, StepInv, PTL DEF Spec

(* The gate keeps events waiting for the fill, if it is not open before:    *)
(* so it is for the first login of a process.                              *)
FillBeforeGate == fill # "none" => ~ gate

LEMMA OneLogin ==
  ASSUME ~ Again PROVE Spec => [][Uncrossed /\ Afresh]_vars
<1>1. Init => FillBeforeGate
  BY DEF Init, FillBeforeGate
<1>2. FillBeforeGate /\ [Next]_vars => FillBeforeGate'
  BY DEF FillBeforeGate, Next, Change, ChangeTopic, Unlink, Login, MayLogin, Disconnect, Down,
     Refuse, Deliver, Restart, GetGroups, Fill, HandleGroup, HandleConnect, HandleLoggedOut,
     Backfill, vars, session
<1>3. FillBeforeGate => Uncrossed /\ Afresh
  <2>1. Len(<<>>) = 0
    OBVIOUS
  <2>2. Afresh
    BY <2>1 DEF Afresh, Login, MayLogin
  <2> QED
    BY <2>2 DEF FillBeforeGate, Uncrossed, HandleGroup
<1> QED
  BY <1>1, <1>2, <1>3, PTL DEF Spec

(* So a room misses nobody, as long as a process does not log in again.    *)
THEOREM RoomMissesNobody == ASSUME ~ Again PROVE Spec => []NobodyMissing
  BY OneLogin, NobodyMissedUncrossed, PTL
-----------------------------------------------------------------------------
(* No history is forgotten: what resets history_requested is on its way     *)
(* from the moment the device learns that it was unlinked.                 *)
HoleInv == TypeOK /\ HoleAsked

Pending(events) == \E i \in 1..Len(events) : events[i] = LoggedOut

LEMMA AppendPending ==
  ASSUME NEW s \in Seq(Event), NEW e \in Event, Pending(s) \/ e = LoggedOut
  PROVE  Pending(Append(s, e))
<1> DEFINE t == Append(s, e)
<1>1. /\ Len(s) \in Nat /\ Len(t) = Len(s) + 1
      /\ t[Len(s) + 1] = e
      /\ \A i \in 1..Len(s) : t[i] = s[i]
  OBVIOUS
<1> HIDE DEF t
<1>2. CASE e = LoggedOut
  BY <1>1, <1>2 DEF Pending
<1>3. CASE Pending(s)
  BY <1>1, <1>3 DEF Pending
<1> QED
  BY <1>2, <1>3 DEF t

LEMMA TailPending ==
  ASSUME NEW s \in Seq(Event), s # <<>>, Pending(s), Head(s) # LoggedOut
  PROVE  Pending(Tail(s))
<1>1. /\ Len(s) \in Nat \ {0} /\ Len(Tail(s)) = Len(s) - 1
      /\ Head(s) = s[1]
      /\ \A i \in 1..Len(Tail(s)) : Tail(s)[i] = s[i + 1]
  OBVIOUS
<1>2. PICK i \in 1..Len(s) : s[i] = LoggedOut
  BY DEF Pending
<1>3. i # 1 /\ i - 1 \in 1..Len(Tail(s)) /\ Tail(s)[i - 1] = s[i]
  BY <1>1, <1>2
<1> QED
  BY <1>2, <1>3 DEF Pending

LEMMA StepHole == HoleInv /\ [Next]_vars => HoleInv'
<1> SUFFICES ASSUME HoleInv, [Next]_vars PROVE HoleAsked'
  BY StepType DEF HoleInv
<1> USE DEF HoleInv
<1>1. mail \in Seq(Event) /\ line \in Seq(Event)
  BY DEF TypeOK
<1>2. HoleAsked <=> (hole /\ asked => linked = "unlinked" \/ Pending(line) \/ unheard)
  BY DEF HoleAsked, Pending
<1>3. HoleAsked' <=> (hole' /\ asked' => linked' = "unlinked" \/ Pending(line') \/ unheard')
  BY DEF HoleAsked, Pending
<1>4. CASE \/ \E p \in Person : Change(p)
           \/ \E p \in Person \cup {Nobody} : ChangeTopic(p)
           \/ Disconnect \/ GetGroups \/ Fill \/ UNCHANGED vars
  <2>1. UNCHANGED <<linked, line, asked, hole, unheard>>
    BY <1>4 DEF Change, ChangeTopic, Disconnect, GetGroups, Fill, vars, whatsapp, queues, history
  <2> QED
    BY <1>2, <1>3, <2>1
<1>5. CASE Unlink
  BY <1>3, <1>5 DEF Unlink
<1>6. CASE Login
  <2>1. linked # "unlinked" /\ line' = Append(line, Connect) /\ UNCHANGED <<asked, hole, unheard>>
    BY <1>6 DEF Login, history
  <2> QED
    BY <1>1, <1>2, <1>3, <2>1, PassingEvents, AppendPending
<1>7. CASE Refuse
  BY <1>1, <1>3, <1>7, PassingEvents, AppendPending DEF Refuse
<1>8. CASE Deliver
  <2>1. line' = Append(line, Head(mail)) /\ Head(mail) \in Event
        /\ UNCHANGED <<linked, asked, hole, unheard>>
    BY <1>1, <1>8, HeadTail DEF Deliver, whatsapp, history
  <2> QED
    BY <1>1, <1>2, <1>3, <2>1, AppendPending
<1>9. CASE Restart
  BY <1>2, <1>3, <1>9 DEF Restart, whatsapp, Pending
<1>10. CASE HandleGroup \/ HandleConnect
  <2>1. /\ line # <<>> /\ line' = Tail(line) /\ Head(line) # LoggedOut
        /\ UNCHANGED <<linked, asked, hole, unheard>>
    <3>1. LoggedOut \notin GroupEvent /\ Connect # LoggedOut
      BY DEF GroupEvent, Action, LoggedOut, Connect
    <3> QED
      BY <1>10, <3>1 DEF HandleGroup, HandleConnect, whatsapp, history
  <2> QED
    BY <1>1, <1>2, <1>3, <2>1, TailPending
<1>11. CASE HandleLoggedOut
  BY <1>3, <1>11 DEF HandleLoggedOut
<1>12. CASE Backfill
  BY <1>3, <1>12 DEF Backfill
<1> QED
  BY <1>4, <1>5, <1>6, <1>7, <1>8, <1>9, <1>10, <1>11, <1>12 DEF Next

(* A hole in the history that the room has asked for already is asked for   *)
(* again once the session hears that its device was logged out, however    *)
(* often it logs in; only a restart that loses the event can prevent it.   *)
THEOREM HolesAreAskedFor == Spec => []HoleAsked
<1>1. Init => HoleInv
  BY InitType DEF Init, HoleInv, HoleAsked
<1>2. HoleInv => HoleAsked
  BY DEF HoleInv
<1> QED
  BY <1>1, <1>2, StepHole, PTL DEF Spec
-----------------------------------------------------------------------------
(* What the mail and then the line say of the events in M: the last of them *)
(* is in N, or there is none.                                              *)
Says(m, l, M, N) == EndsWith(m, M, N) /\ (Among(m, M) = {} => EndsWith(l, M, N))
Silent(m, l, M) == Among(m, M) = {} /\ Among(l, M) = {}

LEMMA NothingSays == ASSUME NEW M, NEW N PROVE Says(<<>>, <<>>, M, N)
  BY EmptyEnds DEF Says

LEMMA TellSays ==
  ASSUME NEW m \in Seq(Event), NEW l \in Seq(Event), NEW e \in Event, NEW M, NEW N
  PROVE  /\ e \in M => ~ Silent(Append(m, e), l, M)
         /\ e \in M /\ e \in N => Says(Append(m, e), l, M, N)
         /\ e \notin M => /\ Silent(Append(m, e), l, M) <=> Silent(m, l, M)
                          /\ Says(m, l, M, N) => Says(Append(m, e), l, M, N)
  BY AppendEnds DEF Says, Silent

LEMMA PassSays ==
  ASSUME NEW m \in Seq(Event), m # <<>>, NEW l \in Seq(Event), NEW M, NEW N
  PROVE  /\ Silent(Tail(m), Append(l, Head(m)), M) <=> Silent(m, l, M)
         /\ Says(m, l, M, N) => Says(Tail(m), Append(l, Head(m)), M, N)
<1> DEFINE e == Head(m)
<1>1. e \in Event
  OBVIOUS
<1>2. CASE e \in M
  <2>1. Among(m, M) # {} /\ Among(Append(l, e), M) # {}
    <3>1. Among(m, M) # {}
      BY <1>2, TailAmong
    <3>2. Among(Append(l, e), M) # {}
      BY <1>1, <1>2, AppendEnds
    <3> QED
      BY <3>1, <3>2
  <2>2. ASSUME Says(m, l, M, N) PROVE Says(Tail(m), Append(l, e), M, N)
    <3>1. EndsWith(Tail(m), M, N) /\ (Among(Tail(m), M) = {} => e \in N)
      BY <1>2, <2>2, TailEnds DEF Says
    <3>2. e \in N => EndsWith(Append(l, e), M, N)
      BY <1>1, <1>2, AppendEnds
    <3> QED
      BY <3>1, <3>2 DEF Says
  <2> QED
    BY <2>1, <2>2 DEF Silent
<1>3. CASE e \notin M
  <2>1. /\ Among(Tail(m), M) = {} <=> Among(m, M) = {}
        /\ EndsWith(m, M, N) => EndsWith(Tail(m), M, N)
    BY <1>3, TailAmong, TailEnds
  <2>2. /\ Among(Append(l, e), M) = Among(l, M)
        /\ EndsWith(l, M, N) => EndsWith(Append(l, e), M, N)
    BY <1>1, <1>3, AppendEnds
  <2> QED
    BY <2>1, <2>2 DEF Says, Silent
<1> QED
  BY <1>2, <1>3

LEMMA AddSays ==
  ASSUME NEW m, NEW l \in Seq(Event), NEW e \in Event, NEW M, e \notin M, NEW N
  PROVE  /\ Silent(m, Append(l, e), M) <=> Silent(m, l, M)
         /\ Says(m, l, M, N) => Says(m, Append(l, e), M, N)
  BY AppendEnds DEF Says, Silent

LEMMA TakeSays ==
  ASSUME NEW m, NEW l \in Seq(Event), l # <<>>, NEW M, NEW N
  PROVE  /\ Says(m, l, M, N) => Says(m, Tail(l), M, N)
         /\ Head(l) \notin M => (Silent(m, Tail(l), M) <=> Silent(m, l, M))
         /\ Says(m, l, M, N) /\ Silent(m, Tail(l), M) /\ Head(l) \in M => Head(l) \in N
  BY TailAmong, TailEnds DEF Says, Silent
-----------------------------------------------------------------------------
(* While the device is linked, the last change of the topic, in the mail, in *)
(* line, in what was fetched or in the room, is the topic's.               *)
Topics == {e \in Event : e.act = "topic"}
Setting(p) == {[act |-> "topic", who |-> p]}

SubjectIsTrue ==
  linked = "linked" =>
    /\ Says(mail, line, Topics, Setting(topic))
    /\ Silent(mail, line, Topics) /\ fill = "fetched" => groups.topic = topic
    /\ Silent(mail, line, Topics) /\ connected /\ gate /\ fill = "none" /\ topic # Nobody
         => subject = topic

SubjectInv == GroupInv /\ SubjectIsTrue

LEMMA OtherThanTopics ==
  /\ Connect \notin Topics /\ LoggedOut \notin Topics
  /\ \A act \in Action, p \in Person : [act |-> act, who |-> p] \notin Topics
  BY DEF Topics, Connect, LoggedOut, Action

LEMMA ToldSubject ==
  ASSUME SubjectInv, (\E p \in Person : Change(p)) \/ (\E p \in Person \cup {Nobody} : ChangeTopic(p))
  PROVE  SubjectIsTrue'
<1>1. mail \in Seq(Event) /\ line \in Seq(Event)
  BY DEF SubjectInv, GroupInv, TypeOK
<1>2. CASE \E p \in Person : Change(p)
  <2>1. PICK act \in Action, p \in Person : Tell([act |-> act, who |-> p])
    BY <1>2 DEF Change, Becomes, Action
  <2>2. UNCHANGED <<topic, linked, line, connected, fill, groups, gate, subject>>
    BY <1>2 DEF Change, session, room
  <2>3. [act |-> act, who |-> p] \in Event \ Topics
    BY OtherThanTopics DEF Event, GroupEvent
  <2> DEFINE e == [act |-> act, who |-> p]
  <2>4. linked = "linked" => mail' = Append(mail, e)
    BY <2>1 DEF Tell
  <2> HIDE DEF e
  <2>5. e \in Event /\ e \notin Topics
    BY <2>3 DEF e
  <2>6. /\ Silent(Append(mail, e), line, Topics) <=> Silent(mail, line, Topics)
        /\ Says(mail, line, Topics, Setting(topic))
             => Says(Append(mail, e), line, Topics, Setting(topic))
    BY <1>1, <2>5, TellSays
  <2> QED
    BY <2>2, <2>4, <2>6 DEF SubjectInv, SubjectIsTrue
<1>3. CASE \E p \in Person \cup {Nobody} : ChangeTopic(p)
  <2>1. PICK p \in Person \cup {Nobody} :
          /\ topic' = p /\ Tell([act |-> "topic", who |-> p])
          /\ UNCHANGED <<linked, line>>
    BY <1>3 DEF ChangeTopic
  <2> DEFINE e == [act |-> "topic", who |-> p]
  <2>2. e \in Event /\ e \in Topics /\ e \in Setting(p)
    BY DEF Event, GroupEvent, Topics, Setting
  <2>3. linked = "linked" => mail' = Append(mail, e)
    BY <2>1 DEF Tell
  <2> HIDE DEF e
  <2> QED
    BY <1>1, <2>1, <2>2, <2>3, TellSays DEF SubjectIsTrue
<1> QED
  BY <1>2, <1>3

(* The line grows by an event of the session's, or by the first of the mail. *)
LEMMA GrownSubject ==
  ASSUME SubjectInv, (Login /\ Afresh) \/ Refuse \/ Deliver \/ Unlink \/ Restart
  PROVE  SubjectIsTrue'
<1>1. mail \in Seq(Event) /\ line \in Seq(Event)
  BY DEF SubjectInv, GroupInv, TypeOK
<1>2. CASE Login /\ Afresh
  <2>1. line' = Append(line, Connect) /\ fill' = "login" /\ UNCHANGED <<topic, mail>>
    BY <1>2 DEF Login
  <2>2. Says(mail, line, Topics, Setting(topic))
    <3>1. CASE linked = "linked"
      BY <3>1 DEF SubjectInv, SubjectIsTrue
    <3>2. CASE linked # "linked"
      <4>1. mail = <<>>
        BY <3>2 DEF SubjectInv, GroupInv, NoMail
      <4>2. Among(line, Topics) = {}
        <5>1. \A e \in Topics : e \in GroupEvent
          BY OtherThanTopics DEF Topics, Event
        <5> QED
          BY <1>2, <3>2, <5>1 DEF Afresh, Among
      <4> QED
        BY <4>1, <4>2, EmptyEnds DEF Says, EndsWith
    <3> QED
      BY <3>1, <3>2
  <2>3. Says(mail', line', Topics, Setting(topic))
    BY <1>1, <2>1, <2>2, PassingEvents, OtherThanTopics, AddSays
  <2> QED
    BY <2>1, <2>3 DEF SubjectIsTrue
<1>3. CASE Refuse \/ Unlink
  BY <1>3 DEF Refuse, Unlink, SubjectIsTrue
<1>4. CASE Deliver
  <2>1. /\ mail # <<>> /\ line' = Append(line, Head(mail)) /\ mail' = Tail(mail)
        /\ UNCHANGED <<topic, linked, connected, fill, groups, gate, subject>>
    BY <1>4 DEF Deliver, whatsapp, session, room
  <2> QED
    BY <1>1, <2>1, PassSays DEF SubjectInv, SubjectIsTrue
<1>5. CASE Restart
  <2>1. line' = <<>> /\ fill' = "none" /\ ~ gate' /\ UNCHANGED <<topic, linked, mail>>
    BY <1>5 DEF Restart, whatsapp
  <2>2. Says(mail, line, Topics, Setting(topic)) => Says(mail, <<>>, Topics, Setting(topic))
    BY EmptyEnds DEF Says
  <2> QED
    BY <2>1, <2>2 DEF SubjectInv, SubjectIsTrue
<1> QED
  BY <1>2, <1>3, <1>4, <1>5

LEMMA FilledSubject ==
  ASSUME SubjectInv, Disconnect \/ GetGroups \/ Fill \/ Backfill \/ UNCHANGED vars
  PROVE  SubjectIsTrue'
<1>1. UNCHANGED <<topic, linked, mail, line>>
  BY DEF Disconnect, GetGroups, Fill, Backfill, vars, whatsapp, queues
<1>2. CASE Disconnect \/ Backfill \/ UNCHANGED vars
  <2>1. /\ fill' = "fetched" => fill = "fetched"
        /\ ~ connected' \/ UNCHANGED <<connected, fill>>
        /\ UNCHANGED <<groups, gate, subject>>
    BY <1>2 DEF Disconnect, Down, Backfill, vars, session, room
  <2> QED
    BY <1>1, <2>1 DEF SubjectInv, SubjectIsTrue
<1>3. CASE GetGroups
  BY <1>1, <1>3 DEF GetGroups, SubjectInv, SubjectIsTrue
<1>4. CASE Fill
  BY <1>1, <1>4 DEF Fill, SubjectInv, SubjectIsTrue
<1> QED
  BY <1>2, <1>3, <1>4

LEMMA TakenSubject ==
  ASSUME Uncrossed, SubjectInv, HandleGroup \/ HandleConnect \/ HandleLoggedOut
  PROVE  SubjectIsTrue'
<1> DEFINE e == Head(line)
<1>1. line \in Seq(Event) /\ line # <<>> /\ line' = Tail(line) /\ UNCHANGED <<topic, linked, mail>>
  BY DEF SubjectInv, GroupInv, TypeOK, HandleGroup, HandleConnect, HandleLoggedOut, whatsapp
<1>2. e \in Event
  BY <1>1, HeadTail
<1> HIDE DEF e
<1>3. /\ Says(mail, line, Topics, Setting(topic)) => Says(mail', line', Topics, Setting(topic))
      /\ e \notin Topics => (Silent(mail', line', Topics) <=> Silent(mail, line, Topics))
      /\ Says(mail, line, Topics, Setting(topic)) /\ Silent(mail', line', Topics) /\ e \in Topics
           => e \in Setting(topic)
  BY <1>1, TakeSays DEF e
<1>4. CASE HandleGroup
  <2>1. /\ gate /\ fill # "fetched" /\ Update(e) /\ e \in GroupEvent
        /\ UNCHANGED <<connected, fill, groups, gate>>
    BY <1>4 DEF Uncrossed, HandleGroup, session, e
  <2>2. CASE e.act = "topic"
    <3>1. e \in Topics /\ subject' = IF e.who = Nobody THEN subject ELSE e.who
      BY <1>2, <2>1, <2>2 DEF Update, Topics
    <3>2. e \in Setting(topic) => e.who = topic
      BY DEF Setting
    <3> QED
      BY <1>1, <1>3, <2>1, <3>1, <3>2 DEF SubjectInv, SubjectIsTrue
  <2>3. CASE e.act # "topic"
    <3>1. e \notin Topics /\ e.act \in Action
      BY <1>2, <2>1, <2>3, EventShape DEF Topics
    <3>2. subject' = subject
      BY <2>1, <3>1 DEF Update, Action
    <3> QED
      BY <1>1, <1>3, <2>1, <3>1, <3>2 DEF SubjectInv, SubjectIsTrue
  <2> QED
    BY <2>2, <2>3
<1>5. CASE HandleConnect \/ HandleLoggedOut
  <2>1. /\ e \notin Topics
        /\ fill' = fill \/ (fill = "login" /\ fill' = "due")
        /\ UNCHANGED <<connected, groups, gate, subject>>
    BY <1>5, OtherThanTopics DEF HandleConnect, HandleLoggedOut, session, room, e
  <2> QED
    BY <1>1, <1>3, <2>1 DEF SubjectInv, SubjectIsTrue
<1> QED
  BY <1>4, <1>5

LEMMA StepSubject == SubjectInv /\ [Next]_vars /\ [Uncrossed /\ Afresh]_vars => SubjectInv'
<1> SUFFICES ASSUME SubjectInv, [Next]_vars, [Uncrossed /\ Afresh]_vars PROVE SubjectIsTrue'
  BY StepInv DEF SubjectInv
<1> QED
  BY ToldSubject, GrownSubject, FilledSubject, TakenSubject DEF Next

(* When everything a session was told is applied, its room has the topic of *)
(* the group as its subject, unless that was emptied, whatever was lost     *)
(* and however often a process logs in, under the same conditions.         *)
THEOREM SubjectUncrossed ==
  Spec /\ [][Uncrossed /\ Afresh]_vars => []SubjectAgrees
<1>1. Init => SubjectInv
  BY InitInv DEF Init, SubjectInv, SubjectIsTrue
<1>2. SubjectInv => SubjectAgrees
  BY EmptyEnds DEF SubjectInv, SubjectIsTrue, SubjectAgrees, Quiet, Silent
<1> QED
  BY <1>1, <1>2, StepSubject, PTL DEF Spec

(* So a room has its subject, as long as a process does not log in again.  *)
THEOREM RoomHasItsSubject == ASSUME ~ Again PROVE Spec => []SubjectAgrees
  BY OneLogin, SubjectUncrossed, PTL
-----------------------------------------------------------------------------
(* Of who is out of the group, and whose leaving has not been lost, the     *)
(* last the mail and the line say is that he leaves; if they say nothing,  *)
(* then neither the room nor what was fetched for it has him.              *)
Mentioning(p) ==
  {e \in Event : e.who = p /\ (e.act \in Action \/ (e.act = "topic" /\ p # Nobody))}
Leaving(p) == {[act |-> "remove", who |-> p]}

Gone(p) == role[p] = "out" /\ p \notin untold
Unsaid(p) == Silent(mail, line, Mentioning(p))
SaidGone(p) == Says(mail, line, Mentioning(p), Leaving(p))

GhostsAreTold ==
  \A p \in Person : Gone(p) =>
    /\ SaidGone(p)
    /\ Unsaid(p) => aff[p] = "none" /\ (fill = "fetched" => groups.role[p] = "out")

GhostInv == TypeOK /\ GhostsAreTold

LEMMA LeavingIsMentioned ==
  ASSUME NEW p \in Person
  PROVE  \A e \in Leaving(p) : e \in Event /\ e \in Mentioning(p)
  BY DEF Leaving, Mentioning, Event, GroupEvent, Action

(* Nobody is removed by events that end with his leaving, if his leaving   *)
(* is not among them.                                                      *)
LEMMA NotRemoved ==
  ASSUME NEW p \in Person, NEW s, p \notin Removed(s), EndsWith(s, Mentioning(p), Leaving(p))
  PROVE  Among(s, Mentioning(p)) = {}
<1> SUFFICES ASSUME NEW i \in Among(s, Mentioning(p)) PROVE FALSE
  OBVIOUS
<1>1. PICK j \in Among(s, Mentioning(p)) : s[j] \in Leaving(p)
  BY DEF EndsWith
<1>2. j \in 1..Len(s)
  BY DEF Among
<1> QED
  BY <1>1, <1>2 DEF Removed, Leaving

LEMMA UnmentionedEvents ==
  ASSUME NEW p \in Person
  PROVE  /\ Connect \notin Mentioning(p) /\ LoggedOut \notin Mentioning(p)
         /\ \A e \in Event : e.who # p => e \notin Mentioning(p)
         /\ [act |-> "topic", who |-> Nobody] \notin Mentioning(p)
<1>1. Connect.act = "connect" /\ LoggedOut.act = "logged out"
  BY DEF Connect, LoggedOut
<1>2. Connect \notin Mentioning(p) /\ LoggedOut \notin Mentioning(p)
  BY <1>1 DEF Mentioning, Action
<1> QED
  BY <1>2 DEF Mentioning, Action

(* An event about somebody else changes nothing of what is said of p.      *)
LEMMA ToldOfOther ==
  ASSUME TypeOK, NEW p \in Person, NEW e \in Event, e \notin Mentioning(p),
         Tell(e), UNCHANGED <<linked, line>>
  PROVE  (Unsaid(p)' <=> Unsaid(p)) /\ (SaidGone(p) => SaidGone(p)')
<1>1. mail \in Seq(Event) /\ line \in Seq(Event)
  BY DEF TypeOK
<1>2. /\ Silent(Append(mail, e), line, Mentioning(p)) <=> Silent(mail, line, Mentioning(p))
      /\ Says(mail, line, Mentioning(p), Leaving(p))
           => Says(Append(mail, e), line, Mentioning(p), Leaving(p))
  BY <1>1, TellSays
<1> QED
  BY <1>2 DEF Tell, Unsaid, SaidGone

LEMMA ChangeGhosts == ASSUME GhostInv, NEW q \in Person, Change(q) PROVE GhostsAreTold'
<1> USE DEF GhostInv
<1>1. PICK act \in Action, r \in Role :
        /\ Becomes(q, act, r)
        /\ r = "out" => act = "remove"
        /\ r # "out" => untold' \in {untold, untold \ {q}}
        /\ r = "out" => untold' = IF linked = "linked" THEN untold ELSE untold \cup {q}
  BY DEF Change, Action, Role
<1> DEFINE e == [act |-> act, who |-> q]
<1>2. /\ role'[q] = r
      /\ \A p \in Person \ {q} : role'[p] = role[p] /\ (p \in untold' <=> p \in untold)
      /\ Tell(e)
      /\ UNCHANGED <<linked, line, fill, groups, aff>>
  BY <1>1 DEF Becomes, Change, TypeOK, session, room
<1>3. e \in Event /\ \A p \in Person \ {q} : e \notin Mentioning(p)
  BY UnmentionedEvents DEF Event, GroupEvent
<1>4. ASSUME NEW p \in Person \ {q}, Gone(p)'
      PROVE  /\ SaidGone(p)'
             /\ Unsaid(p)' => aff'[p] = "none" /\ (fill' = "fetched" => groups'.role[p] = "out")
  <2>1. Gone(p)
    BY <1>2, <1>4 DEF Gone
  <2>2. (Unsaid(p)' <=> Unsaid(p)) /\ (SaidGone(p) => SaidGone(p)')
    BY <1>2, <1>3, ToldOfOther
  <2> QED
    BY <1>2, <2>1, <2>2 DEF GhostsAreTold
<1>5. ASSUME Gone(q)' PROVE SaidGone(q)' /\ ~ Unsaid(q)'
  <2>1. r = "out" /\ linked = "linked" /\ e \in Leaving(q)
    BY <1>1, <1>2, <1>5 DEF Gone, Leaving
  <2>2. mail' = Append(mail, e)
    BY <1>2, <2>1 DEF Tell
  <2>3. e \in Mentioning(q)
    BY <2>1, LeavingIsMentioned
  <2>4. mail \in Seq(Event) /\ line \in Seq(Event)
    BY DEF TypeOK
  <2>5. /\ ~ Silent(Append(mail, e), line, Mentioning(q))
        /\ Says(Append(mail, e), line, Mentioning(q), Leaving(q))
    BY <1>3, <2>1, <2>3, <2>4, TellSays
  <2> QED
    BY <1>2, <2>2, <2>5 DEF Unsaid, SaidGone
<1> QED
  BY <1>4, <1>5 DEF GhostsAreTold

LEMMA ChangeTopicGhosts ==
  ASSUME GhostInv, NEW q \in Person \cup {Nobody}, ChangeTopic(q)
  PROVE  GhostsAreTold'
<1> USE DEF GhostInv
<1> DEFINE e == [act |-> "topic", who |-> q]
<1>1. /\ q = Nobody \/ role[q] # "out"
      /\ Tell(e) /\ UNCHANGED <<role, linked, line, fill, groups, aff, untold>>
  BY DEF ChangeTopic, session, room
<1>2. e \in Event
  BY DEF Event, GroupEvent
<1>3. ASSUME NEW p \in Person, Gone(p)' PROVE Gone(p) /\ e \notin Mentioning(p)
  <2>1. Gone(p)
    BY <1>1, <1>3 DEF Gone
  <2>2. q = Nobody \/ q # p
    BY <1>1, <2>1 DEF Gone
  <2> QED
    BY <1>2, <2>1, <2>2, UnmentionedEvents
<1> HIDE DEF e
<1> QED
  BY <1>1, <1>2, <1>3, ToldOfOther DEF GhostsAreTold

(* What is lost in an unlinking or a restart is not the leaving of p.      *)
LEMMA LostGhosts == ASSUME GhostInv, Unlink \/ Restart PROVE GhostsAreTold'
<1>1. CASE Unlink
  <2>1. /\ mail' = <<>> /\ untold' = untold \cup Removed(mail)
        /\ UNCHANGED <<role, line, fill, groups, aff>>
    BY <1>1 DEF Unlink, session, room
  <2>2. ASSUME NEW p \in Person, Gone(p)'
        PROVE  /\ SaidGone(p)' /\ Gone(p)
               /\ Unsaid(p)' => Unsaid(p)
    <3>1. Gone(p) /\ p \notin Removed(mail)
      BY <2>1, <2>2 DEF Gone
    <3>2. SaidGone(p)
      BY <3>1 DEF GhostInv, GhostsAreTold
    <3>3. Among(mail, Mentioning(p)) = {}
      BY <3>1, <3>2, NotRemoved DEF SaidGone, Says
    <3>4. Says(<<>>, line, Mentioning(p), Leaving(p))
      BY <3>2, <3>3, EmptyEnds DEF SaidGone, Says
    <3> QED
      BY <2>1, <3>1, <3>3, <3>4 DEF SaidGone, Unsaid, Silent
  <2> QED
    BY <2>1, <2>2 DEF GhostInv, GhostsAreTold
<1>2. CASE Restart
  <2>1. /\ line' = <<>> /\ untold' = untold \cup Removed(line) /\ fill' = "none"
        /\ UNCHANGED <<role, mail, aff>>
    BY <1>2 DEF Restart, whatsapp, room
  <2>2. ASSUME NEW p \in Person, Gone(p)'
        PROVE  /\ SaidGone(p)' /\ Gone(p)
               /\ Unsaid(p)' => Unsaid(p)
    <3>1. Gone(p) /\ p \notin Removed(line)
      BY <2>1, <2>2 DEF Gone
    <3>2. SaidGone(p)
      BY <3>1 DEF GhostInv, GhostsAreTold
    <3>3. Among(mail, Mentioning(p)) = {} => Among(line, Mentioning(p)) = {}
      BY <3>1, <3>2, NotRemoved DEF SaidGone, Says
    <3>4. Says(mail, <<>>, Mentioning(p), Leaving(p))
      BY <3>2, EmptyEnds DEF SaidGone, Says
    <3> QED
      BY <2>1, <3>1, <3>3, <3>4 DEF SaidGone, Unsaid, Silent
  <2> QED
    BY <2>1, <2>2 DEF GhostInv, GhostsAreTold
<1> QED
  BY <1>1, <1>2

LEMMA PassedGhosts == ASSUME GhostInv, Login \/ Refuse \/ Deliver PROVE GhostsAreTold'
<1>1. mail \in Seq(Event) /\ line \in Seq(Event)
  BY DEF GhostInv, TypeOK
<1>2. /\ fill' = "fetched" => fill = "fetched"
      /\ UNCHANGED <<role, groups, aff, untold>>
  BY DEF Login, Refuse, Down, Deliver, whatsapp, session, room
<1>3. ASSUME NEW p \in Person
      PROVE  (Unsaid(p)' <=> Unsaid(p)) /\ (SaidGone(p) => SaidGone(p)')
  <2>1. CASE Deliver
    BY <1>1, <2>1, PassSays DEF Deliver, Unsaid, SaidGone
  <2>2. CASE Login \/ Refuse
    <3>1. PICK e \in {Connect, LoggedOut} : line' = Append(line, e) /\ mail' = mail
      BY <2>2 DEF Login, Refuse
    <3>2. e \in Event /\ e \notin Mentioning(p)
      BY PassingEvents, UnmentionedEvents
    <3>3. /\ Silent(mail, Append(line, e), Mentioning(p)) <=> Silent(mail, line, Mentioning(p))
          /\ Says(mail, line, Mentioning(p), Leaving(p))
               => Says(mail, Append(line, e), Mentioning(p), Leaving(p))
      BY <1>1, <3>2, AddSays
    <3> QED
      BY <3>1, <3>3 DEF Unsaid, SaidGone
  <2> QED
    BY <2>1, <2>2
<1> QED
  BY <1>2, <1>3 DEF GhostInv, GhostsAreTold, Gone

(* Who sets a topic when he has gone is noted.                             *)
LEMMA FilledGhosts ==
  ASSUME GhostInv, Disconnect \/ GetGroups \/ Fill \/ Backfill \/ UNCHANGED vars
  PROVE  GhostsAreTold'
<1> USE DEF GhostInv
<1>1. UNCHANGED <<role, mail, line>> /\ untold \subseteq untold'
  BY DEF Disconnect, GetGroups, Fill, Backfill, vars, whatsapp, queues
<1>2. ASSUME NEW p \in Person, Gone(p)'
      PROVE  /\ Gone(p) /\ SaidGone(p)' /\ (Unsaid(p)' <=> Unsaid(p))
             /\ Unsaid(p) => aff[p] = "none" /\ (fill = "fetched" => groups.role[p] = "out")
  BY <1>1, <1>2 DEF Gone, SaidGone, Unsaid, GhostsAreTold
<1>3. CASE Disconnect \/ Backfill \/ UNCHANGED vars
  <2>1. UNCHANGED <<groups, aff>> /\ (fill' = "fetched" => fill = "fetched")
    BY <1>3 DEF Disconnect, Down, Backfill, vars, session, room
  <2> QED
    BY <1>2, <2>1 DEF GhostsAreTold
<1>4. CASE GetGroups
  <2>1. groups'.role = role /\ aff' = aff
    BY <1>4 DEF GetGroups, room
  <2> QED
    BY <1>2, <2>1 DEF GhostsAreTold, Gone
<1>5. CASE Fill
  <2>1. fill = "fetched" /\ fill' = "none" /\ role' = role
    BY <1>5 DEF Fill, whatsapp
  <2>2. ASSUME NEW p \in Person, Gone(p)', Unsaid(p)' PROVE aff'[p] = "none"
    <3>1. aff[p] = "none" /\ groups.role[p] = "out"
      BY <1>2, <2>1, <2>2
    <3>2. p \notin {groups.topic} \ {Nobody}
      BY <1>5, <2>2, <3>1 DEF Fill, Gone
    <3>3. aff'[p] = WithSetter(groups.topic)[p]
      BY <1>5, <3>1 DEF Fill
    <3> QED
      BY <3>1, <3>2, <3>3 DEF WithSetter, TypeOK
  <2> QED
    BY <1>2, <2>1, <2>2 DEF GhostsAreTold
<1> QED
  BY <1>3, <1>4, <1>5

LEMMA TakenGhosts ==
  ASSUME Uncrossed, GhostInv, HandleGroup \/ HandleConnect \/ HandleLoggedOut
  PROVE  GhostsAreTold'
<1> USE DEF GhostInv
<1> DEFINE e == Head(line)
<1>1. /\ line \in Seq(Event) /\ line # <<>> /\ line' = Tail(line)
      /\ UNCHANGED <<role, mail, groups, untold>>
  BY DEF TypeOK, HandleGroup, HandleConnect, HandleLoggedOut, whatsapp, session
<1>2. e \in Event
  BY <1>1, HeadTail
<1> HIDE DEF e
<1>3. ASSUME NEW p \in Person
      PROVE  /\ SaidGone(p) => SaidGone(p)'
             /\ e \notin Mentioning(p) => (Unsaid(p)' <=> Unsaid(p))
             /\ SaidGone(p) /\ Unsaid(p)' /\ e \in Mentioning(p) => e \in Leaving(p)
  BY <1>1, TakeSays DEF SaidGone, Unsaid, e
<1>4. CASE HandleGroup
  <2>1. fill # "fetched" /\ fill' = fill /\ Update(e) /\ e \in GroupEvent
    BY <1>4 DEF Uncrossed, HandleGroup, session, e
  <2>2. e.act \in Action \cup {"topic"} /\ e.who \in Person \cup {Nobody}
    BY <1>2, <2>1, EventShape
  <2>3. ASSUME NEW p \in Person, Gone(p), Unsaid(p)' PROVE aff'[p] = "none"
    <3>1. CASE e \in Mentioning(p)
      <4>1. e.act = "remove" /\ e.who = p
        BY <1>3, <2>3, <3>1 DEF GhostsAreTold, Leaving
      <4> QED
        BY <2>1, <4>1 DEF Update, TypeOK
    <3>2. CASE e \notin Mentioning(p)
      <4>1. aff[p] = "none"
        BY <1>3, <2>3, <3>2 DEF GhostsAreTold
      <4>2. CASE e.act \in Action
        <5>1. e.who # p
          BY <1>2, <3>2, <4>2 DEF Mentioning
        <5>2. \E a \in Affiliation : aff' = [aff EXCEPT ![e.who] = a]
          BY <2>1, <4>2 DEF Update, Action, Affiliation
        <5> QED
          BY <4>1, <5>1, <5>2 DEF TypeOK
      <4>3. CASE e.act = "topic"
        <5>1. e.who # p \/ e.who = Nobody
          BY <1>2, <3>2, <4>3 DEF Mentioning
        <5>2. aff' = WithSetter(e.who)
          BY <2>1, <4>3 DEF Update
        <5> QED
          BY <4>1, <5>1, <5>2 DEF WithSetter, TypeOK
      <4> QED
        BY <2>2, <4>2, <4>3
    <3> QED
      BY <3>1, <3>2
  <2> QED
    BY <1>1, <1>3, <2>1, <2>3 DEF GhostsAreTold, Gone
<1>5. CASE HandleConnect \/ HandleLoggedOut
  <2>1. /\ fill' = "fetched" => fill = "fetched"
        /\ aff' = aff
        /\ e \in {Connect, LoggedOut}
    BY <1>5 DEF HandleConnect, HandleLoggedOut, session, room, e
  <2>2. \A p \in Person : e \notin Mentioning(p)
    BY <2>1, UnmentionedEvents
  <2> QED
    BY <1>1, <1>3, <2>1, <2>2 DEF GhostsAreTold, Gone
<1> QED
  BY <1>4, <1>5

LEMMA StepGhosts == GhostInv /\ [Next]_vars /\ [Uncrossed]_vars => GhostInv'
<1> SUFFICES ASSUME GhostInv, [Next]_vars, [Uncrossed]_vars PROVE GhostsAreTold'
  BY StepType DEF GhostInv
<1> QED
  BY ChangeGhosts, ChangeTopicGhosts, LostGhosts, PassedGhosts, FilledGhosts, TakenGhosts
     DEF Next

(* When everything a session was told is applied, whoever its room lists    *)
(* and is not in the group is one whose leaving was lost in a restart, or   *)
(* while the device was unlinked, or who came back with his topic: however *)
(* often a process logs in, and with whatever events of earlier pairings,  *)
(* as long as no event is handled between GetGroups and the fill.          *)
THEOREM GhostsUncrossed == Spec /\ [][Uncrossed]_vars => []GhostsKnown
<1>1. Init => GhostInv
  <2> SUFFICES ASSUME Init, NEW p \in Person
               PROVE  SaidGone(p) /\ aff[p] = "none" /\ fill # "fetched"
    BY InitType DEF GhostInv, GhostsAreTold
  <2> QED
    BY NothingSays DEF Init, SaidGone
<1>2. GhostInv => GhostsKnown
  BY EmptyEnds DEF GhostInv, GhostsAreTold, GhostsKnown, Quiet, Gone, Unsaid, Silent
<1> QED
  BY <1>1, <1>2, StepGhosts, PTL DEF Spec

(* So its ghosts are known, as long as a process does not log in again.    *)
THEOREM GhostsAreKnown == ASSUME ~ Again PROVE Spec => []GhostsKnown
<1>1. [Uncrossed /\ Afresh]_vars => [Uncrossed]_vars
  OBVIOUS
<1> QED
  BY <1>1, OneLogin, GhostsUncrossed, PTL
=============================================================================
