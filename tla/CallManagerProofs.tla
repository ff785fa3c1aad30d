------------------------- MODULE CallManagerProofs -------------------------
(***************************************************************************)
(* Proofs about CallManager for every number of calls, Lines and ports.    *)
(***************************************************************************)
EXTENDS CallManager, FiniteSetTheorems, TLAPS

(* A Line in the table is under the Call-ID it was made for.               *)
EntryIsOwn == \A c \in Calls : entry[c] # None => call[entry[c]] = c

(* An unused Line has nothing; a used one has a Call-ID and a port.        *)
LineBorn ==
    \A l \in Lines :
        IF socket[l] = "none"
        THEN call[l] = None /\ state[l] = "none" /\ modem[l] = "none"
        ELSE call[l] \in Calls /\ port[l] \in Port

(* Which answers were given tells how far the socket came.                 *)
Follows(l) ==
    /\ socket[l] \in {"none", "binding"} => <<l, 200>> \notin replies
    /\ socket[l] = "bound" => <<l, 200>> \in replies
    /\ socket[l] \in {"none", "binding", "bound"} => <<l, 503>> \notin replies
    /\ ~ (<<l, 200>> \in replies /\ <<l, 503>> \in replies)
    /\ socket[l] = "binding" => "first" \in waiting[l]

RepliesFollowSocket == \A l \in Lines : Follows(l)

(* The inductive invariant, without the counting parts.                    *)
Inv ==
    /\ TypeOK
    /\ PortsAccounted
    /\ OpenPortsDisjoint
    /\ NoOrphanLine
    /\ EntryIsOwn
    /\ LineBorn
    /\ RepliesFollowSocket
----------------------------------------------------------------------------
(* The service starts with no call.                                        *)
LEMMA InitInv == Init => Inv
<1> SUFFICES ASSUME Init PROVE Inv
  OBVIOUS
<1> USE NoneAssumption DEF Init
<1>1. TypeOK
  BY DEF TypeOK, States, SocketStates, ModemStates
<1>2. PortsAccounted /\ OpenPortsDisjoint
  BY DEF PortsAccounted, OpenPortsDisjoint, Open
<1>3. NoOrphanLine
  BY DEF NoOrphanLine, Owns
<1>4. EntryIsOwn /\ LineBorn /\ RepliesFollowSocket
  BY DEF EntryIsOwn, LineBorn, RepliesFollowSocket, Follows
<1>5. QED
  BY <1>1, <1>2, <1>3, <1>4 DEF Inv

(* A new Line gets a port no open socket has.                              *)
LEMMA InviteKeepsInv ==
    ASSUME Inv, NEW c \in Calls, NEW l \in Lines, NEW spawned \in BOOLEAN,
           Invite(c, l, spawned)
    PROVE  Inv'
<1> USE NoneAssumption DEF Inv, Invite, Offered, FreePorts
<1>1. PICK n \in Port \ used : used' = used \cup {n} /\ port' = [port EXCEPT ![l] = n]
  OBVIOUS
<1>2. TypeOK'
  BY <1>1 DEF TypeOK, States, SocketStates, ModemStates, Handlers
<1>3. \A k \in Lines : Open(k)' <=> Open(k) \/ k = l
  BY DEF TypeOK, Open
<1>4. PortsAccounted'
  BY <1>1, <1>3 DEF TypeOK, PortsAccounted, Open
<1>5. OpenPortsDisjoint'
  BY <1>1, <1>3 DEF TypeOK, OpenPortsDisjoint, PortsAccounted
<1>6. NoOrphanLine'
  <2> SUFFICES ASSUME NEW k \in Lines
               PROVE  /\ Owns(k)' <=> state'[k] \in {"ringing", "established"}
                      /\ Owns(k)' <=> socket'[k] \in {"binding", "bound"}
                      /\ modem'[k] = "running" => Owns(k)'
    BY DEF NoOrphanLine
  <2>1. CASE k = l
    BY <2>1 DEF TypeOK, Owns
  <2>2. CASE k # l
    <3>1. Owns(k)' <=> Owns(k)
      BY <2>2 DEF TypeOK, Owns, Admits
    <3>2. QED
      BY <2>2, <3>1 DEF TypeOK, NoOrphanLine
  <2>3. QED
    BY <2>1, <2>2
<1>7. EntryIsOwn'
  <2> SUFFICES ASSUME NEW d \in Calls, entry'[d] # None
               PROVE  call'[entry'[d]] = d
    BY DEF EntryIsOwn
  <2>1. CASE d = c
    BY <2>1 DEF TypeOK
  <2>2. CASE d # c
    BY <2>2 DEF TypeOK, EntryIsOwn, LineBorn
  <2>3. QED
    BY <2>1, <2>2
<1>8. LineBorn'
  BY <1>1 DEF TypeOK, LineBorn
<1>9. RepliesFollowSocket'
  <2> SUFFICES ASSUME NEW k \in Lines PROVE Follows(k)'
    BY DEF RepliesFollowSocket
  <2>1. CASE k = l
    BY <2>1 DEF TypeOK, RepliesFollowSocket, Follows
  <2>2. CASE k # l
    BY <2>2 DEF TypeOK, RepliesFollowSocket, Follows
  <2>3. QED
    BY <2>1, <2>2
<1>10. QED
  BY <1>2, <1>4, <1>5, <1>6, <1>7, <1>8, <1>9

(* A hang-up by BYE, modem exit or failed bind: the Line leaves the table  *)
(* with its modem no longer running, and its socket is still open.         *)
LEMMA HangupKeepsInv ==
    ASSUME Inv, NEW l \in Lines, Owns(l), Hangup(l),
           modem' = [modem EXCEPT ![l] = StoppedModem(l)]
             \/ modem' = [modem EXCEPT ![l] = "exited"],
           \/ UNCHANGED sip
           \/ socket[l] = "binding" /\ Settle(l, 503)
    PROVE  Inv'
<1> USE NoneAssumption DEF Inv, Hangup
<1> DEFINE c == call[l]
<1>1. c \in Calls /\ socket[l] \in {"binding", "bound"} /\ entry[c] = l
  BY DEF Owns, LineBorn, NoOrphanLine
<1>2. TypeOK'
  BY <1>1 DEF TypeOK, States, SocketStates, ModemStates, StoppedModem, Settle,
              Handlers, sip
<1>3. \A k \in Lines : Open(k)' <=> Open(k)
  BY <1>1 DEF TypeOK, Open
<1>4. PortsAccounted' /\ OpenPortsDisjoint'
  BY <1>3 DEF TypeOK, PortsAccounted, OpenPortsDisjoint
<1>5. NoOrphanLine'
  BY <1>1 DEF TypeOK, NoOrphanLine, Owns, StoppedModem, EntryIsOwn
<1>6. EntryIsOwn'
  BY DEF TypeOK, EntryIsOwn
<1>7. LineBorn'
  BY <1>1 DEF TypeOK, LineBorn
<1>8. RepliesFollowSocket'
  <2> SUFFICES ASSUME NEW k \in Lines PROVE Follows(k)'
    BY DEF RepliesFollowSocket
  <2>1. Follows(k) /\ Follows(l)
    BY DEF RepliesFollowSocket
  <2>2. CASE UNCHANGED sip
    BY <1>1, <2>1, <2>2 DEF TypeOK, Follows, sip
  <2>3. CASE socket[l] = "binding" /\ Settle(l, 503)
    <3>1. CASE k = l
      BY <2>1, <2>3, <3>1 DEF TypeOK, Follows, Settle
    <3>2. CASE k # l
      BY <2>1, <2>3, <3>2 DEF TypeOK, Follows, Settle
    <3>3. QED
      BY <3>1, <3>2
  <2>4. QED
    BY <2>2, <2>3
<1>9. QED
  BY <1>2, <1>4, <1>5, <1>6, <1>7, <1>8

(* Steps that leave table, ports, sockets and Call-IDs alone.              *)
LEMMA AnswersKeepInv ==
    ASSUME Inv, TypeOK',
           UNCHANGED <<entry, used, call, port, state, socket>>,
           \A l \in Lines : modem'[l] = "running" => modem[l] = "running",
           \A l \in Lines : modem[l] = "none" => modem'[l] = "none",
           \A l \in Lines : "first" \in waiting[l] => "first" \in waiting'[l],
           \/ replies' = replies
           \/ \E l \in Lines : socket[l] = "bound" /\ replies' = replies \cup {<<l, 200>>}
    PROVE  Inv'
<1> USE DEF Inv
<1>1. PortsAccounted' /\ OpenPortsDisjoint'
  BY DEF PortsAccounted, OpenPortsDisjoint, Open
<1>2. NoOrphanLine' /\ EntryIsOwn' /\ LineBorn'
  BY DEF NoOrphanLine, EntryIsOwn, LineBorn, Owns
<1>3. RepliesFollowSocket'
  <2> SUFFICES ASSUME NEW k \in Lines PROVE Follows(k)'
    BY DEF RepliesFollowSocket
  <2>1. Follows(k)
    BY DEF RepliesFollowSocket
  <2>2. CASE replies' = replies
    BY <2>1, <2>2 DEF Follows
  <2>3. CASE \E l \in Lines : socket[l] = "bound" /\ replies' = replies \cup {<<l, 200>>}
    BY <2>1, <2>3 DEF Follows
  <2>4. QED
    BY <2>2, <2>3
<1>4. QED
  BY <1>1, <1>2, <1>3

(* The socket of l is bound: every handler that waited answers 200.        *)
LEMMA ListeningKeepsInv ==
    ASSUME Inv, NEW l \in Lines, Listening(l)
    PROVE  Inv'
<1> USE NoneAssumption DEF Inv, Listening, Settle, calls
<1>1. TypeOK'
  BY DEF TypeOK, SocketStates
<1>2. \A k \in Lines : Open(k)' <=> Open(k)
  BY DEF TypeOK, Open
<1>3. PortsAccounted' /\ OpenPortsDisjoint'
  BY <1>2 DEF TypeOK, PortsAccounted, OpenPortsDisjoint
<1>4. NoOrphanLine'
  BY DEF TypeOK, NoOrphanLine, Owns
<1>5. EntryIsOwn' /\ LineBorn'
  BY DEF TypeOK, EntryIsOwn, LineBorn
<1>6. RepliesFollowSocket'
  <2> SUFFICES ASSUME NEW k \in Lines PROVE Follows(k)'
    BY DEF RepliesFollowSocket
  <2>1. Follows(k)
    BY DEF RepliesFollowSocket
  <2>2. CASE k = l
    BY <2>1, <2>2 DEF TypeOK, Follows
  <2>3. CASE k # l
    BY <2>1, <2>3 DEF TypeOK, Follows
  <2>4. QED
    BY <2>2, <2>3
<1>7. QED
  BY <1>1, <1>3, <1>4, <1>5, <1>6

(* Answers still follow the sockets when a socket starts or ends closing.  *)
LEMMA FollowsKept ==
    ASSUME RepliesFollowSocket, UNCHANGED <<waiting, replies>>,
           \A k \in Lines : \/ socket'[k] = socket[k]
                            \/ socket'[k] \in {"closing", "closed", "stuck"}
    PROVE  RepliesFollowSocket'
<1> SUFFICES ASSUME NEW k \in Lines PROVE Follows(k)'
  BY DEF RepliesFollowSocket
<1>1. Follows(k)
  BY DEF RepliesFollowSocket
<1>2. QED
  BY <1>1 DEF Follows

(* The socket of l is closed: its port is no other open socket's.          *)
LEMMA ClosedKeepsInv ==
    ASSUME Inv, NEW l \in Lines, SocketClosed(l)
    PROVE  Inv'
<1> USE NoneAssumption DEF Inv, SocketClosed, sip
<1>1. TypeOK'
  BY DEF TypeOK, SocketStates
<1>2. \A k \in Lines : Open(k)' <=> Open(k) /\ k # l
  BY DEF TypeOK, Open
<1>3. Open(l)
  BY DEF Open
<1>4. PortsAccounted' /\ OpenPortsDisjoint'
  BY <1>2, <1>3 DEF TypeOK, PortsAccounted, OpenPortsDisjoint
<1>5. NoOrphanLine'
  BY DEF TypeOK, NoOrphanLine, Owns
<1>6. EntryIsOwn' /\ LineBorn'
  BY DEF TypeOK, EntryIsOwn, LineBorn
<1>7. RepliesFollowSocket'
  BY FollowsKept DEF TypeOK
<1>8. QED
  BY <1>1, <1>4, <1>5, <1>6, <1>7

(* Closing the socket of l fails: its port stays in use.                   *)
LEMMA CloseFailsKeepsInv ==
    ASSUME Inv, NEW l \in Lines, CloseFails(l)
    PROVE  Inv'
<1> USE NoneAssumption DEF Inv, CloseFails, sip, calls
<1>1. TypeOK'
  BY DEF TypeOK, SocketStates
<1>2. \A k \in Lines : Open(k)' <=> Open(k)
  BY DEF TypeOK, Open
<1>3. PortsAccounted' /\ OpenPortsDisjoint'
  BY <1>2 DEF TypeOK, PortsAccounted, OpenPortsDisjoint
<1>4. NoOrphanLine'
  BY DEF TypeOK, NoOrphanLine, Owns
<1>5. EntryIsOwn' /\ LineBorn'
  BY DEF TypeOK, EntryIsOwn, LineBorn
<1>6. RepliesFollowSocket'
  BY FollowsKept DEF TypeOK
<1>7. QED
  BY <1>1, <1>3, <1>4, <1>5, <1>6

(* Acknowledging a call changes the state of its own Line only.            *)
LEMMA AckKeepsInv ==
    ASSUME Inv, NEW c \in Calls, Ack(c)
    PROVE  Inv'
<1> USE NoneAssumption DEF Inv, Ack, sip, calls
<1>1. TypeOK'
  BY DEF TypeOK, States
<1>2. PortsAccounted' /\ OpenPortsDisjoint'
  BY DEF PortsAccounted, OpenPortsDisjoint, Open
<1>3. NoOrphanLine'
  BY DEF TypeOK, NoOrphanLine, Owns
<1>4. EntryIsOwn'
  BY DEF EntryIsOwn
<1>5. LineBorn'
  BY DEF TypeOK, LineBorn
<1>6. RepliesFollowSocket'
  BY FollowsKept
<1>7. QED
  BY <1>1, <1>2, <1>3, <1>4, <1>5, <1>6
----------------------------------------------------------------------------
(* The entry of a call is its Line, which owns it.                         *)
LEMMA EntryOwns ==
    ASSUME Inv, NEW c \in Calls, entry[c] # None
    PROVE  entry[c] \in Lines /\ Owns(entry[c]) /\ call[entry[c]] = c
  BY NoneAssumption DEF Inv, TypeOK, EntryIsOwn, Owns

(* No step of a call breaks the invariant.                                 *)
LEMMA CallKeepsInv ==
    ASSUME Inv, NEW c \in Calls, CallNext(c)
    PROVE  Inv'
<1>1. CASE \E l \in Lines, spawned \in BOOLEAN : Invite(c, l, spawned)
  BY <1>1, InviteKeepsInv
<1>2. CASE BuildFails(c)
  <2>1. used' = used
    BY <1>2 DEF BuildFails, UsedAfterFailure, Offered, FreePorts
  <2>2. TypeOK'
    BY <1>2, <2>1 DEF BuildFails, lines, sip, Inv, TypeOK
  <2>3. QED
    BY <1>2, <2>1, <2>2, AnswersKeepInv DEF BuildFails, lines, sip
<1>3. CASE InviteAgain(c)
  <2>1. entry[c] \in Lines
    BY <1>3, EntryOwns DEF InviteAgain
  <2>2. TypeOK'
    BY <1>3, <2>1 DEF InviteAgain, calls, lines, Inv, TypeOK, Handlers
  <2>3. /\ UNCHANGED <<entry, used, call, port, state, socket>>
        /\ modem' = modem
    BY <1>3 DEF InviteAgain, calls, lines
  <2>4. \A l \in Lines : "first" \in waiting[l] => "first" \in waiting'[l]
    BY <1>3, <2>1 DEF InviteAgain, Inv, TypeOK
  <2>5. \/ replies' = replies
        \/ \E l \in Lines : socket[l] = "bound" /\ replies' = replies \cup {<<l, 200>>}
    BY <1>3, <2>1 DEF InviteAgain, ReadyNow
  <2>6. QED
    BY <2>2, <2>3, <2>4, <2>5, AnswersKeepInv
<1>4. CASE Ack(c)
  BY <1>4, AckKeepsInv
<1>5. CASE Bye(c)
  BY <1>5, EntryOwns, HangupKeepsInv DEF Bye
<1>6. QED
  BY <1>1, <1>2, <1>3, <1>4, <1>5 DEF CallNext

(* No event of a Line's modem or socket breaks the invariant.              *)
LEMMA LineKeepsInv ==
    ASSUME Inv, NEW l \in Lines, LineNext(l)
    PROVE  Inv'
<1>1. CASE ModemExits(l)
  <2>1. Owns(l)
    BY <1>1 DEF ModemExits, Inv, NoOrphanLine
  <2>2. QED
    BY <1>1, <2>1, HangupKeepsInv DEF ModemExits
<1>2. CASE Listening(l)
  BY <1>2, ListeningKeepsInv
<1>3. CASE BindFails(l)
  <2>1. Owns(l)
    BY <1>3 DEF BindFails, Inv, NoOrphanLine
  <2>2. QED
    BY <1>3, <2>1, HangupKeepsInv DEF BindFails
<1>4. CASE SocketClosed(l)
  BY <1>4, ClosedKeepsInv
<1>5. CASE CloseFails(l)
  BY <1>5, CloseFailsKeepsInv
<1>6. QED
  BY <1>1, <1>2, <1>3, <1>4, <1>5 DEF LineNext

(* No step breaks the invariant.                                           *)
LEMMA NextKeepsInv == Inv /\ [Next]_vars => Inv'
<1> SUFFICES ASSUME Inv, [Next]_vars PROVE Inv'
  OBVIOUS
<1>1. CASE \E n \in 1 .. MaxLimit : SetMaxSessions(n)
  <2>1. TypeOK'
    BY <1>1 DEF SetMaxSessions, lines, sip, Inv, TypeOK
  <2>2. QED
    BY <1>1, <2>1, AnswersKeepInv DEF SetMaxSessions, lines, sip
<1>2. CASE UNCHANGED vars
  <2>1. TypeOK'
    BY <1>2 DEF vars, calls, lines, sip, Inv, TypeOK
  <2>2. QED
    BY <1>2, <2>1, AnswersKeepInv DEF vars, calls, lines, sip
<1>3. QED
  BY <1>1, <1>2, CallKeepsInv, LineKeepsInv DEF Next

(* The invariant holds in every reachable state.                           *)
THEOREM InvHolds == Spec => []Inv
  BY InitInv, NextKeepsInv, PTL DEF Spec

(* Calls, Lines, ports and answers keep their types.                       *)
THEOREM TypeCorrect == Spec => []TypeOK
  BY InvHolds, PTL DEF Inv

(* The port pool's books agree with the sockets (session.js:196-211).      *)
THEOREM BooksAreRight == Spec => []PortsAccounted
  BY InvHolds, PTL DEF Inv

(* No port belongs to two Lines whose sockets may be open.                 *)
THEOREM PortsAreDisjoint == Spec => []OpenPortsDisjoint
  BY InvHolds, PTL DEF Inv

(* So the pool is right.                                                   *)
THEOREM PortsStayRight == Spec => []PortsAreRight
<1>1. Inv => PortsAreRight
  BY DEF Inv, PortsAreRight
<1>2. QED
  BY <1>1, InvHolds, PTL

(* The table, the sockets, the modems and the call states agree on which   *)
(* calls exist.                                                            *)
THEOREM NoLineIsOrphaned == Spec => []NoOrphanLine
  BY InvHolds, PTL DEF Inv
----------------------------------------------------------------------------
(* The Lines that answered 200.                                            *)
Answered == {l \in Lines : <<l, 200>> \in replies}

(* What counting answers needs: only finitely many Lines have answered.    *)
CountInv ==
    /\ IsFiniteSet(Answered)
    /\ accepted = Cardinality(Answered)

(* Steps that answer no call for the first time.                           *)
LEMMA SameCounts ==
    ASSUME CountInv, Answered' = Answered, accepted' = accepted
    PROVE  CountInv'
BY DEF CountInv

(* A hang-up answers no one with 200.                                      *)
LEMMA HangupCounts ==
    ASSUME Inv, CountInv, NEW l \in Lines, Owns(l), Hangup(l),
           UNCHANGED sip \/ Settle(l, 503)
    PROVE  CountInv'
<1>1. Answered' = Answered /\ accepted' = accepted
  BY DEF Answered, Settle, sip
<1>2. QED
  BY <1>1, SameCounts

(* The first answer of a Line counts its call as accepted.                 *)
LEMMA ListeningCounts ==
    ASSUME Inv, CountInv, NEW l \in Lines, Listening(l)
    PROVE  CountInv'
<1>1. <<l, 200>> \notin replies /\ "first" \in waiting[l]
  <2>1. Follows(l) /\ socket[l] = "binding"
    BY DEF Inv, RepliesFollowSocket, Listening
  <2>2. QED
    BY <2>1 DEF Follows
<1>2. Answered' = Answered \cup {l} /\ l \notin Answered
  BY <1>1 DEF Answered, Listening, Settle
<1>3. accepted' = accepted + 1
  BY <1>1 DEF Listening, Settle
<1>4. IsFiniteSet(Answered') /\ Cardinality(Answered') = Cardinality(Answered) + 1
  BY <1>2, FS_AddElement DEF CountInv
<1>5. QED
  BY <1>3, <1>4 DEF CountInv

(* Every step keeps the counts.                                            *)
LEMMA NextCounts ==
    ASSUME Inv, CountInv, [Next]_vars
    PROVE  CountInv'
<1>1. ASSUME NEW c \in Calls, CallNext(c) PROVE CountInv'
  <2>1. CASE \E l \in Lines, spawned \in BOOLEAN : Invite(c, l, spawned)
    <3>1. Answered' = Answered /\ accepted' = accepted
      BY <2>1 DEF Invite, Answered
    <3>2. QED
      BY <3>1, SameCounts
  <2>2. CASE BuildFails(c) \/ Ack(c)
    <3>1. Answered' = Answered /\ accepted' = accepted
      BY <2>2 DEF BuildFails, Ack, sip, Answered
    <3>2. QED
      BY <3>1, SameCounts
  <2>3. CASE InviteAgain(c)
    <3>1. accepted' = accepted
      BY <2>3 DEF InviteAgain
    <3>2. Answered' = Answered
      <4>1. CASE replies' = replies
        BY <4>1 DEF Answered
      <4>2. CASE ReadyNow(entry[c]) /\ replies' = replies \cup {<<entry[c], 200>>}
        <5>1. entry[c] \in Lines
          BY <2>3, EntryOwns DEF InviteAgain
        <5>2. <<entry[c], 200>> \in replies
          BY <4>2, <5>1 DEF Inv, RepliesFollowSocket, Follows, ReadyNow
        <5>3. QED
          BY <4>2, <5>2 DEF Answered
      <4>3. QED
        BY <2>3, <4>1, <4>2 DEF InviteAgain
    <3>3. QED
      BY <3>1, <3>2, SameCounts
  <2>4. CASE Bye(c)
    <3> DEFINE l == entry[c]
    <3>1. l \in Lines /\ Owns(l) /\ Hangup(l) /\ UNCHANGED sip
      BY <2>4, EntryOwns DEF Bye
    <3>2. QED
      BY <3>1, HangupCounts
  <2>5. QED
    BY <1>1, <2>1, <2>2, <2>3, <2>4 DEF CallNext
<1>2. ASSUME NEW l \in Lines, LineNext(l) PROVE CountInv'
  <2>1. CASE ModemExits(l) \/ BindFails(l)
    <3>1. Owns(l) /\ Hangup(l) /\ (UNCHANGED sip \/ Settle(l, 503))
      BY <2>1 DEF ModemExits, BindFails, Inv, NoOrphanLine
    <3>2. QED
      BY <3>1, HangupCounts
  <2>2. CASE Listening(l)
    BY <2>2, ListeningCounts
  <2>3. CASE SocketClosed(l) \/ CloseFails(l)
    <3>1. Answered' = Answered /\ accepted' = accepted
      BY <2>3 DEF SocketClosed, CloseFails, calls, sip, Answered
    <3>2. QED
      BY <3>1, SameCounts
  <2>4. QED
    BY <1>2, <2>1, <2>2, <2>3 DEF LineNext
<1>3. CASE (\E n \in 1 .. MaxLimit : SetMaxSessions(n)) \/ UNCHANGED vars
  <2>1. Answered' = Answered /\ accepted' = accepted
    BY <1>3 DEF SetMaxSessions, vars, calls, lines, sip, Answered
  <2>2. QED
    BY <2>1, SameCounts
<1>4. QED
  BY <1>1, <1>2, <1>3 DEF Next

(* The counts are right in every reachable state.                          *)
THEOREM CountsHold == Spec => []CountInv
<1>1. Init => CountInv
  <2> SUFFICES ASSUME Init PROVE CountInv
    OBVIOUS
  <2>1. Answered = {} /\ accepted = 0
    BY DEF Init, Answered
  <2>2. QED
    BY <2>1, FS_EmptySet DEF CountInv
<1>2. Inv /\ CountInv /\ [Next]_vars => CountInv'
  BY NextCounts
<1>3. QED
  BY <1>1, <1>2, InvHolds, PTL DEF Spec

(* All handlers of one call answer alike, and each call accepted is        *)
(* counted once (server.js:90-95).                                         *)
THEOREM AnswersAlwaysAgree == Spec => []AnswersAgree
<1>1. Inv /\ CountInv => AnswersAgree
  BY DEF Inv, CountInv, Answered, AnswersAgree, RepliesFollowSocket, Follows
<1>2. QED
  BY <1>1, InvHolds, CountsHold, PTL
----------------------------------------------------------------------------
(* Who is answered 200 owns its call and has its socket bound.             *)
LEMMA NextAnswersReady ==
    ASSUME Inv, [Next]_vars, NEW l \in Lines, <<l, 200>> \in replies' \ replies
    PROVE  Owns(l) /\ socket'[l] = "bound"
<1>1. ASSUME NEW c \in Calls, CallNext(c) PROVE FALSE
  <2>1. CASE InviteAgain(c)
    <3>1. entry[c] \in Lines
      BY <2>1, EntryOwns DEF InviteAgain
    <3>2. socket[entry[c]] = "bound" /\ replies' = replies \cup {<<entry[c], 200>>}
      BY <2>1 DEF InviteAgain, ReadyNow
    <3>3. <<entry[c], 200>> \in replies
      BY <3>1, <3>2 DEF Inv, RepliesFollowSocket, Follows
    <3>4. QED
      BY <3>2, <3>3
  <2>2. CASE replies' = replies
    BY <2>2
  <2>3. QED
    BY <1>1, <2>1, <2>2 DEF CallNext, Invite, BuildFails, Ack, Bye, sip
<1>2. ASSUME NEW k \in Lines, LineNext(k)
      PROVE  Owns(l) /\ socket'[l] = "bound"
  <2>1. CASE Listening(k)
    <3>1. l = k
      BY <2>1 DEF Listening, Settle
    <3>2. QED
      BY <2>1, <3>1 DEF Listening, Inv, TypeOK, NoOrphanLine
  <2>2. CASE BindFails(k)
    BY <2>2 DEF BindFails, Settle
  <2>3. CASE replies' = replies
    BY <2>3
  <2>4. QED
    BY <1>2, <2>1, <2>2, <2>3 DEF LineNext, ModemExits, SocketClosed, CloseFails, sip
<1>3. CASE replies' = replies
  BY <1>3
<1>4. QED
  BY <1>1, <1>2, <1>3 DEF Next, SetMaxSessions, vars, sip

(* 200 OK goes out only for a call that exists, with its socket bound      *)
(* (server.js:84-95).                                                      *)
THEOREM AcceptancesAreReady == Spec => AcceptedWhenReady
<1>1. Inv /\ [Next]_vars =>
          [\A l \in Lines : <<l, 200>> \in replies' \ replies =>
              Owns(l) /\ socket'[l] = "bound"]_vars
  BY NextAnswersReady
<1>2. QED
  BY <1>1, InvHolds, PTL DEF Spec, AcceptedWhenReady
----------------------------------------------------------------------------
(* The pool of ports as ExclusivePool sees it.                             *)
PortHeld == [l \in Lines |-> IF Open(l) THEN port[l] ELSE None]

PortUsers == {l \in Lines : Open(l)}

(* Steps that open and close no socket are no steps of the pool.           *)
LEMMA QuietRefines ==
    ASSUME \A l \in Lines : Open(l)' <=> Open(l), port' = port
    PROVE  UNCHANGED <<PortHeld, PortUsers>>
  BY DEF PortHeld, PortUsers

(* A new Line takes a port no open socket has, and uses it at once.        *)
LEMMA InviteRefines ==
    ASSUME Inv, NEW c \in Calls, NEW l \in Lines, NEW spawned \in BOOLEAN,
           Invite(c, l, spawned)
    PROVE  \E i \in Port : Pool!Acquire(l, i)
<1>1. PICK n \in Port \ used : port' = [port EXCEPT ![l] = n]
  BY DEF Invite, Offered, FreePorts
<1>2. \A k \in Lines : Open(k)' <=> Open(k) \/ k = l
  BY DEF Invite, Inv, TypeOK, Open
<1>3. ~Open(l)
  BY DEF Invite, Open
<1>4. \A k \in Lines : port'[k] = IF k = l THEN n ELSE port[k]
  BY <1>1 DEF Inv, TypeOK
<1>5. PortHeld[l] = None
  BY <1>3 DEF PortHeld
<1>6. \A d \in Lines : PortHeld[d] # n
  BY NoneAssumption DEF PortHeld, Inv, PortsAccounted
<1>7. PortHeld' = [PortHeld EXCEPT ![l] = n]
  BY <1>2, <1>4 DEF PortHeld
<1>8. PortUsers' = PortUsers \cup {l}
  BY <1>2 DEF PortUsers
<1>9. QED
  BY <1>5, <1>6, <1>7, <1>8 DEF Pool!Acquire, PortHeld, PortUsers

(* A closed socket is done with its port, which goes back in that step.    *)
LEMMA ClosedRefines ==
    ASSUME Inv, NEW l \in Lines, SocketClosed(l)
    PROVE  Pool!Finish(l)
<1>1. \A k \in Lines : Open(k)' <=> Open(k) /\ k # l
  BY DEF SocketClosed, Inv, TypeOK, Open
<1>2. l \in PortUsers
  BY DEF SocketClosed, Open, PortUsers
<1>3. PortUsers' = PortUsers \ {l}
  BY <1>1 DEF PortUsers
<1>4. PortHeld' = [PortHeld EXCEPT ![l] = None]
  BY <1>1 DEF PortHeld, SocketClosed
<1>5. QED
  BY <1>2, <1>3, <1>4 DEF Pool!Finish, PortHeld, PortUsers

(* Every step of the call manager is a step of the pool or leaves it be.   *)
LEMMA NextRefines ==
    ASSUME Inv, [Next]_vars
    PROVE  Pool!Next \/ UNCHANGED <<PortHeld, PortUsers>>
<1>1. ASSUME NEW c \in Calls, CallNext(c)
      PROVE  Pool!Next \/ UNCHANGED <<PortHeld, PortUsers>>
  <2>1. CASE \E l \in Lines, spawned \in BOOLEAN : Invite(c, l, spawned)
    BY <2>1, InviteRefines DEF Pool!Next
  <2>2. CASE BuildFails(c) \/ InviteAgain(c) \/ Ack(c)
    BY <2>2, QuietRefines DEF BuildFails, InviteAgain, Ack, lines, Open
  <2>3. CASE Bye(c)
    <3>1. entry[c] \in Lines /\ socket[entry[c]] \in {"binding", "bound"}
      BY <2>3, EntryOwns DEF Bye, Inv, NoOrphanLine
    <3>2. QED
      BY <2>3, <3>1, QuietRefines DEF Bye, Hangup, Open, Inv, TypeOK
  <2>4. QED
    BY <1>1, <2>1, <2>2, <2>3 DEF CallNext
<1>2. ASSUME NEW l \in Lines, LineNext(l)
      PROVE  Pool!Next \/ UNCHANGED <<PortHeld, PortUsers>>
  <2>1. CASE SocketClosed(l)
    BY <2>1, ClosedRefines DEF Pool!Next
  <2>2. CASE ModemExits(l) \/ BindFails(l)
    <3>1. Hangup(l) /\ socket[l] \in {"binding", "bound"}
      BY <2>2 DEF ModemExits, BindFails, Inv, NoOrphanLine
    <3>2. QED
      BY <3>1, QuietRefines DEF Hangup, Open, Inv, TypeOK
  <2>3. CASE Listening(l) \/ CloseFails(l)
    BY <2>3, QuietRefines DEF Listening, CloseFails, calls, Open, Inv, TypeOK
  <2>4. QED
    BY <1>2, <2>1, <2>2, <2>3 DEF LineNext
<1>3. CASE (\E n \in 1 .. MaxLimit : SetMaxSessions(n)) \/ UNCHANGED vars
  BY <1>3, QuietRefines DEF SetMaxSessions, vars, lines, Open
<1>4. QED
  BY <1>1, <1>2, <1>3 DEF Next

(* RtpPortPool keeps the promise of ExclusivePool: a port has one Line,    *)
(* and goes back only when that Line's socket is closed.                   *)
THEOREM RefinesExclusivePool == Spec => PoolSpec
<1>1. Init => Pool!Init
  BY DEF Init, Pool!Init, Open
<1>2. Inv /\ [Next]_vars => [Pool!Next]_(Pool!poolVars)
  BY NextRefines DEF Pool!poolVars, PortHeld, PortUsers
<1>3. QED
  BY <1>1, <1>2, InvHolds, PTL DEF Spec, PoolSpec, Pool!Spec
=============================================================================
