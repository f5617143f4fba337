---------------------------- MODULE GbCallProofs ----------------------------
(***************************************************************************)
(* Proofs about GbCall, for any number of calls, broadcasts and restarts.  *)
(***************************************************************************)
EXTENDS GbCall, TLAPS

At(i, type, n) == i \in 1..Len(events) /\ events[i] = <<type, n>>

\* While the stack registers no call is answered, and nothing of one waits.
Offline ==
  ~up => /\ \A c \in Call : phase[c] \notin {"answered", "confirmed"}
         /\ \A i \in Nat : \A c \in Call : ~At(i, "CALL_ACK", c) /\ ~At(i, "CALL_CLOSED", c)

\* The server has one call at a time.
Alone == \A c, d \in Call : phase[c] \in InProgress /\ phase[d] \in InProgress => c = d

\* A BYE is handled after its call is over.
Closes == \A i \in Nat : \A c \in Call : At(i, "CALL_CLOSED", c) => phase[c] \in {"closed", "ended"}

\* An ACK that waits is of a call that is up or whose BYE waits behind it, and
\* the BYE of the call before, if that is still named, waits in front of it.
Acked(i, c) ==
  /\ phase[c] \in {"confirmed", "closed", "ended"}
  /\ phase[c] = "confirmed" \/ \E j \in Nat : j > i /\ At(j, "CALL_CLOSED", c)
  /\ g_call_id # 0 => \E j \in Nat : j < i /\ At(j, "CALL_CLOSED", g_call_id)
  /\ \A k \in Nat : \A d \in Call :
       k < i /\ At(k, "CALL_ACK", d) => \E j \in Nat : k < j /\ j < i /\ At(j, "CALL_CLOSED", d)
Acks == \A i \in Nat : \A c \in Call : At(i, "CALL_ACK", c) => Acked(i, c)

\* A call that is up is named once its ACK has been handled.
Named ==
  \A c \in Call :
    phase[c] = "confirmed" /\ kind[c] \in Session /\ (\A i \in Nat : ~At(i, "CALL_ACK", c))
      => g_call_id = c /\ g_did[kind[c]] = c

\* What is named is up, or its BYE waits.
Current ==
  g_call_id # 0 =>
    phase[g_call_id] = "confirmed" \/ \E i \in Nat : At(i, "CALL_CLOSED", g_call_id)

\* The dialog ids agree with the call id.
Dids == \A s \in Session : g_did[s] # 0 => g_did[s] = g_call_id /\ kind[g_call_id] = s

Calls == Alone /\ Closes /\ Acks /\ Named /\ Current /\ Dids
CallInv == Serial => Calls

\* The event of a broadcast that waits is the only one of its type, and the
\* broadcast is where it left it.
Awaits == [MESSAGE_NEW |-> "notified", MESSAGE_ANSWERED |-> "accepted", CALL_ANSWERED |-> "answered"]
TalkEvents ==
  \A i \in Nat : \A b \in Talk : \A t \in DOMAIN Awaits :
    At(i, t, b) => talk[b] = Awaits[t] /\ \A j \in Nat : At(j, t, b) => j = i

\* With one broadcast at a time, the target is its own from the reply on.
TalkInv ==
  ~crossed =>
    /\ \A a, b \in Talk : talk[a] \in Talking /\ talk[b] \in Talking => a = b
    /\ \A b \in Talk : talk[b] \in Talking \ {"notified"} => target_id = b
    /\ audio[1] = audio[2]

IInv == TypeOK /\ Offline /\ CallInv /\ TalkEvents /\ TalkInv

-----------------------------------------------------------------------------

\* What the FIFO holds after an event is posted, taken, or thrown away.
LEMMA Posts ==
  ASSUME TypeOK, NEW t, NEW n, Post(t, n)
  PROVE  \A i \in Nat : \A u, m : At(i, u, m)' <=> At(i, u, m) \/ (i = Len(events) + 1 /\ u = t /\ m = n)
<1>1. /\ Len(events) \in Nat /\ Len(events') = Len(events) + 1
      /\ \A i \in 1..Len(events) : events'[i] = events[i]
      /\ events'[Len(events) + 1] = <<t, n>>
  BY DEF TypeOK, Post
<1>2. QED
  BY <1>1 DEF At

LEMMA Takes ==
  ASSUME TypeOK, events # <<>>, events' = Tail(events)
  PROVE  \A i \in Nat : \A u, m : At(i, u, m)' <=> i # 0 /\ At(i + 1, u, m)
<1>1. /\ Len(events) \in Nat /\ Len(events') = Len(events) - 1
      /\ \A i \in 1..Len(events') : events'[i] = events[i + 1]
  BY DEF TypeOK
<1>2. QED
  BY <1>1 DEF At

LEMMA Empties == events' = <<>> => \A i \in Nat : \A u, m : ~At(i, u, m)'
  BY DEF At

\* The event an iteration handles is the first.
LEMMA HandlesFirst ==
  ASSUME TypeOK, NEW t, NEW n, Taken(t, n)
  PROVE  /\ up /\ At(1, t, n)
         /\ \A u, m : At(1, u, m) => u = t /\ m = n
         /\ \A i \in Nat : \A u, m : At(i, u, m)' <=> i # 0 /\ At(i + 1, u, m)
<1>1. Len(events) \in Nat /\ Len(events) # 0 /\ events[1] = <<t, n>>
  BY DEF TypeOK, Taken
<1>2. QED
  BY <1>1, Takes DEF At, Taken

LEMMA Positions == TypeOK => \A i \in Nat : \A u, m : At(i, u, m) => i # 0 /\ i <= Len(events) /\ Len(events) \in Nat
  BY DEF At, TypeOK

-----------------------------------------------------------------------------

\* One step keeps the types.
LEMMA StepTypes == TypeOK /\ [Next]_vars => TypeOK'
<1> SUFFICES ASSUME TypeOK, [Next]_vars PROVE TypeOK'
  OBVIOUS
<1> USE DEF TypeOK, idVars, talkVars, callVars, histVars
<1>1. ASSUME NEW c \in Call, NEW k \in Kind, Invite(c, k)
      PROVE  TypeOK'
  <2>1. events' \in Seq(Event)
    BY <1>1 DEF Invite, Post, Event
  <2>2. phase' \in [Call -> Phase] /\ talk' \in [Talk -> TalkPhase] /\ kind' \in [Call -> Kind]
    BY <1>1 DEF Invite, Phase, TalkPhase, Talking, InProgress
  <2>3. QED
    BY <1>1, <2>1, <2>2 DEF Invite
<1>2. ASSUME NEW c \in Call, Cancel(c)
      PROVE  TypeOK'
  BY <1>2, CallBounds DEF Cancel, Phase, InProgress
<1>3. ASSUME NEW c \in Call, Ack(c)
      PROVE  TypeOK'
  <2>1. events' \in Seq(Event)
    BY <1>3 DEF Ack, Post, Event
  <2>2. phase' \in [Call -> Phase] /\ talk' \in [Talk -> TalkPhase] /\ kind' \in [Call -> Kind]
    BY <1>3 DEF Ack, Phase, TalkPhase, Talking, InProgress
  <2>3. QED
    BY <1>3, <2>1, <2>2 DEF Ack
<1>4. ASSUME NEW c \in Call, Bye(c)
      PROVE  TypeOK'
  <2>1. events' \in Seq(Event)
    BY <1>4 DEF Bye, Post, Event
  <2>2. phase' \in [Call -> Phase] /\ talk' \in [Talk -> TalkPhase] /\ kind' \in [Call -> Kind]
    BY <1>4 DEF Bye, Phase, TalkPhase, Talking, InProgress
  <2>3. QED
    BY <1>4, <2>1, <2>2 DEF Bye
<1>5. ASSUME NEW c \in Call, Release(c)
      PROVE  TypeOK'
  <2>1. events' \in Seq(Event)
    BY <1>5 DEF Release, Post, Event
  <2>2. phase' \in [Call -> Phase] /\ talk' \in [Talk -> TalkPhase] /\ kind' \in [Call -> Kind]
    BY <1>5 DEF Release, Phase, TalkPhase, Talking, InProgress
  <2>3. QED
    BY <1>5, <2>1, <2>2 DEF Release
<1>6. ASSUME NEW b \in Talk, Broadcast(b)
      PROVE  TypeOK'
  <2>1. events' \in Seq(Event)
    BY <1>6 DEF Broadcast, Post, Event
  <2>2. phase' \in [Call -> Phase] /\ talk' \in [Talk -> TalkPhase] /\ kind' \in [Call -> Kind]
    BY <1>6 DEF Broadcast, Phase, TalkPhase, Talking, InProgress
  <2>3. QED
    BY <1>6, <2>1, <2>2 DEF Broadcast
<1>7. ASSUME NEW b \in Talk, ReplyAnswered(b)
      PROVE  TypeOK'
  <2>1. events' \in Seq(Event)
    <3>1. CASE Post("MESSAGE_ANSWERED", b)
      BY <3>1 DEF Post, Event
    <3>2. CASE UNCHANGED events
      BY <3>2
    <3>3. QED
      BY <1>7, <3>1, <3>2 DEF ReplyAnswered
  <2>2. phase' \in [Call -> Phase] /\ talk' \in [Talk -> TalkPhase] /\ kind' \in [Call -> Kind]
    BY <1>7 DEF ReplyAnswered, Phase, TalkPhase, Talking, InProgress
  <2>3. QED
    BY <1>7, <2>1, <2>2 DEF ReplyAnswered
<1>8. ASSUME NEW b \in Talk, TalkAnswered(b)
      PROVE  TypeOK'
  <2>1. events' \in Seq(Event)
    <3>1. CASE Post("CALL_ANSWERED", b)
      BY <3>1 DEF Post, Event
    <3>2. CASE UNCHANGED events
      BY <3>2
    <3>3. QED
      BY <1>8, <3>1, <3>2 DEF TalkAnswered
  <2>2. phase' \in [Call -> Phase] /\ talk' \in [Talk -> TalkPhase] /\ kind' \in [Call -> Kind]
    BY <1>8 DEF TalkAnswered, Phase, TalkPhase, Talking, InProgress
  <2>3. QED
    BY <1>8, <2>1, <2>2 DEF TalkAnswered
<1>9. ASSUME NEW b \in Talk, TalkBye(b)
      PROVE  TypeOK'
  <2>1. events' \in Seq(Event)
    BY <1>9 DEF TalkBye, Post, Event
  <2>2. phase' \in [Call -> Phase] /\ talk' \in [Talk -> TalkPhase] /\ kind' \in [Call -> Kind]
    BY <1>9 DEF TalkBye, Phase, TalkPhase, Talking, InProgress
  <2>3. QED
    BY <1>9, <2>1, <2>2 DEF TalkBye
<1>10. ASSUME NEW b \in Talk, TalkRelease(b)
      PROVE  TypeOK'
  <2>1. events' \in Seq(Event)
    BY <1>10 DEF TalkRelease, Post, Event
  <2>2. phase' \in [Call -> Phase] /\ talk' \in [Talk -> TalkPhase] /\ kind' \in [Call -> Kind]
    BY <1>10 DEF TalkRelease, Phase, TalkPhase, Talking, InProgress
  <2>3. QED
    BY <1>10, <2>1, <2>2 DEF TalkRelease
<1>11. ASSUME NEW c \in Call, OnInvite(c)
      PROVE  TypeOK'
  <2>1. events' \in Seq(Event)
    BY <1>11 DEF OnInvite, Taken
  <2>2. phase' \in [Call -> Phase] /\ talk' \in [Talk -> TalkPhase]
    BY <1>11 DEF OnInvite, Phase, TalkPhase, Talking, InProgress
  <2>3. QED
    BY <1>11, <2>1, <2>2 DEF OnInvite
<1>12. ASSUME NEW c \in Call, OnAck(c)
      PROVE  TypeOK'
  <2>1. events' \in Seq(Event)
    BY <1>12 DEF OnAck, Taken
  <2>2. g_call_id' \in Call \cup {0} /\ g_did' \in [Session -> Call \cup {0}] /\ push' \in Call \cup {0}
    BY <1>12 DEF OnAck
  <2>3. QED
    BY <1>12, <2>1, <2>2 DEF OnAck
<1>13. ASSUME NEW c \in Call \cup {0}, OnClosed(c)
      PROVE  TypeOK'
  <2>1. events' \in Seq(Event)
    BY <1>13 DEF OnClosed, Taken
  <2>2. g_did' \in [Session -> Call \cup {0}] /\ g_call_id' \in Call \cup {0}
    BY <1>13 DEF OnClosed
  <2>3. QED
    BY <1>13, <2>1, <2>2 DEF OnClosed
<1>14. CASE OnReleased
  <2>1. events' \in Seq(Event)
    BY <1>14 DEF OnReleased, Restart
  <2>2. phase' \in [Call -> Phase] /\ talk' \in [Talk -> TalkPhase]
    BY <1>14 DEF OnReleased, Restart, Phase, TalkPhase
  <2>3. lost' \in BOOLEAN /\ giveups' \in 0..MaxGiveUp
    BY <1>14, CallBounds DEF OnReleased, Restart
  <2>4. QED
    BY <1>14, <2>1, <2>2, <2>3 DEF OnReleased, Restart
<1>15. ASSUME NEW b \in Talk, OnBroadcast(b)
      PROVE  TypeOK'
  <2>1. events' \in Seq(Event)
    BY <1>15 DEF OnBroadcast, Taken
  <2>2. phase' \in [Call -> Phase] /\ talk' \in [Talk -> TalkPhase]
    BY <1>15 DEF OnBroadcast, Phase, TalkPhase, Talking, InProgress
  <2>3. QED
    BY <1>15, <2>1, <2>2 DEF OnBroadcast
<1>16. ASSUME NEW b \in Talk, OnReplyAnswered(b)
      PROVE  TypeOK'
  <2>1. events' \in Seq(Event)
    BY <1>16 DEF OnReplyAnswered, Taken
  <2>2. phase' \in [Call -> Phase] /\ talk' \in [Talk -> TalkPhase]
    BY <1>16 DEF OnReplyAnswered, Phase, TalkPhase, Talking, InProgress
  <2>3. QED
    BY <1>16, <2>1, <2>2 DEF OnReplyAnswered
<1>17. ASSUME NEW b \in Talk, OnTalkAnswered(b)
      PROVE  TypeOK'
  <2>1. events' \in Seq(Event)
    BY <1>17 DEF OnTalkAnswered, Taken
  <2>2. phase' \in [Call -> Phase] /\ talk' \in [Talk -> TalkPhase]
    BY <1>17 DEF OnTalkAnswered, Phase, TalkPhase, Talking, InProgress
  <2>3. QED
    BY <1>17, <2>1, <2>2 DEF OnTalkAnswered
<1>18. CASE GiveUp
  <2>1. events' \in Seq(Event)
    BY <1>18 DEF GiveUp, Restart
  <2>2. phase' \in [Call -> Phase] /\ talk' \in [Talk -> TalkPhase]
    BY <1>18 DEF GiveUp, Restart, Phase, TalkPhase
  <2>3. lost' \in BOOLEAN /\ giveups' \in 0..MaxGiveUp
    BY <1>18, CallBounds DEF GiveUp, Restart
  <2>4. QED
    BY <1>18, <2>1, <2>2, <2>3 DEF GiveUp, Restart
<1>19. CASE DropEvent
  BY <1>19, CallBounds DEF DropEvent, Phase, InProgress
<1>20. CASE Registered
  BY <1>20, CallBounds DEF Registered, Phase, InProgress
<1>21. CASE UNCHANGED vars
  BY <1>21 DEF vars
<1>22. QED
  BY <1>1, <1>2, <1>3, <1>4, <1>5, <1>6, <1>7, <1>8, <1>9, <1>10, <1>11, <1>12,
     <1>13, <1>14, <1>15, <1>16, <1>17, <1>18, <1>19, <1>20, <1>21
  DEF Next, Server, ProcessEvent

\* One step keeps the calls unanswered while the stack registers.
LEMMA StepOffline == TypeOK /\ Offline /\ [Next]_vars => Offline'
<1> SUFFICES ASSUME TypeOK, Offline, [Next]_vars PROVE Offline'
  OBVIOUS
<1> USE DEF idVars, talkVars, callVars, histVars
<1>1. ASSUME NEW c \in Call, NEW k \in Kind, Invite(c, k)
      PROVE  Offline'
  <2>1. Post("CALL_INVITE", c) /\ up' = up
    BY <1>1 DEF Invite
  <2>2. QED
    BY <1>1, <2>1, Posts DEF Invite, Offline, TypeOK, Call
<1>2. ASSUME NEW c \in Call, Cancel(c)
      PROVE  Offline'
  BY <1>2 DEF Cancel, Offline, At, TypeOK
<1>3. ASSUME NEW c \in Call, Ack(c)
      PROVE  Offline'
  <2>1. Post("CALL_ACK", c) /\ up' = up
    BY <1>3 DEF Ack
  <2>2. QED
    BY <1>3, <2>1, Posts DEF Ack, Offline, TypeOK, Call
<1>4. ASSUME NEW c \in Call, Bye(c)
      PROVE  Offline'
  <2>1. Post("CALL_CLOSED", c) /\ up' = up
    BY <1>4 DEF Bye
  <2>2. QED
    BY <1>4, <2>1, Posts DEF Bye, Offline, TypeOK, Call
<1>5. ASSUME NEW c \in Call, Release(c)
      PROVE  Offline'
  <2>1. Post("CALL_RELEASED", c) /\ up' = up
    BY <1>5 DEF Release
  <2>2. QED
    BY <1>5, <2>1, Posts DEF Release, Offline, TypeOK, Call
<1>6. ASSUME NEW b \in Talk, Broadcast(b)
      PROVE  Offline'
  <2>1. Post("MESSAGE_NEW", b) /\ up' = up
    BY <1>6 DEF Broadcast
  <2>2. QED
    BY <1>6, <2>1, Posts DEF Broadcast, Offline, TypeOK, Call
<1>7. ASSUME NEW b \in Talk, ReplyAnswered(b)
      PROVE  Offline'
  <2>1. up' = up /\ phase' = phase
    BY <1>7 DEF ReplyAnswered
  <2>2. CASE Post("MESSAGE_ANSWERED", b)
    BY <2>1, <2>2, Posts DEF Offline
  <2>3. CASE UNCHANGED events
    BY <2>1, <2>3 DEF Offline, At
  <2>4. QED
    BY <1>7, <2>2, <2>3 DEF ReplyAnswered
<1>8. ASSUME NEW b \in Talk, TalkAnswered(b)
      PROVE  Offline'
  <2>1. up' = up /\ phase' = phase
    BY <1>8 DEF TalkAnswered
  <2>2. CASE Post("CALL_ANSWERED", b)
    BY <2>1, <2>2, Posts DEF Offline
  <2>3. CASE UNCHANGED events
    BY <2>1, <2>3 DEF Offline, At
  <2>4. QED
    BY <1>8, <2>2, <2>3 DEF TalkAnswered
<1>9. ASSUME NEW b \in Talk, TalkBye(b)
      PROVE  Offline'
  <2>1. Post("CALL_CLOSED", 0) /\ up' = up
    BY <1>9 DEF TalkBye
  <2>2. QED
    BY <1>9, <2>1, Posts DEF TalkBye, Offline, TypeOK, Call
<1>10. ASSUME NEW b \in Talk, TalkRelease(b)
      PROVE  Offline'
  <2>1. Post("CALL_RELEASED", 0) /\ up' = up
    BY <1>10 DEF TalkRelease
  <2>2. QED
    BY <1>10, <2>1, Posts DEF TalkRelease, Offline, TypeOK, Call
<1>11. ASSUME NEW c \in Call, OnInvite(c)
      PROVE  Offline'
  BY <1>11 DEF OnInvite, Taken, Offline
<1>12. ASSUME NEW c \in Call, OnAck(c)
      PROVE  Offline'
  BY <1>12 DEF OnAck, Taken, Offline
<1>13. ASSUME NEW c \in Call \cup {0}, OnClosed(c)
      PROVE  Offline'
  BY <1>13 DEF OnClosed, Taken, Offline
<1>14. CASE OnReleased
  <2>1. events' = <<>> /\ \A c \in Call : phase'[c] \in {"none", "ended"}
    BY <1>14 DEF OnReleased, Restart
  <2>2. QED
    BY <2>1, Empties DEF Offline
<1>15. ASSUME NEW b \in Talk, OnBroadcast(b)
      PROVE  Offline'
  BY <1>15 DEF OnBroadcast, Taken, Offline
<1>16. ASSUME NEW b \in Talk, OnReplyAnswered(b)
      PROVE  Offline'
  BY <1>16 DEF OnReplyAnswered, Taken, Offline
<1>17. ASSUME NEW b \in Talk, OnTalkAnswered(b)
      PROVE  Offline'
  BY <1>17 DEF OnTalkAnswered, Taken, Offline
<1>18. CASE GiveUp
  <2>1. events' = <<>> /\ \A c \in Call : phase'[c] \in {"none", "ended"}
    BY <1>18 DEF GiveUp, Restart
  <2>2. QED
    BY <2>1, Empties DEF Offline
<1>19. CASE DropEvent
  <2>1. \A i \in Nat : \A u, m : At(i, u, m)' <=> i # 0 /\ At(i + 1, u, m)
    BY <1>19, Takes DEF DropEvent
  <2>2. QED
    BY <1>19, <2>1 DEF DropEvent, Offline
<1>20. CASE Registered
  BY <1>20 DEF Registered, Offline
<1>21. CASE UNCHANGED vars
  BY <1>21 DEF vars, Offline, At
<1>22. QED
  BY <1>1, <1>2, <1>3, <1>4, <1>5, <1>6, <1>7, <1>8, <1>9, <1>10, <1>11, <1>12,
     <1>13, <1>14, <1>15, <1>16, <1>17, <1>18, <1>19, <1>20, <1>21
  DEF Next, Server, ProcessEvent

-----------------------------------------------------------------------------
\* A step that only shifts the ACKs and BYEs that wait (by delta), and gives no
\* call the phases that matter, keeps what is known of them.
SameCalls ==
  /\ UNCHANGED idVars
  /\ \A c \in Call : /\ phase'[c] = "confirmed" <=> phase[c] = "confirmed"
                     /\ phase[c] \in {"closed", "ended"} => phase'[c] \in {"closed", "ended"}
                     /\ kind'[c] = kind[c] \/ phase[c] = "none"

Shifted(delta) ==
  \A i \in Nat : \A c \in Call : \A u \in {"CALL_ACK", "CALL_CLOSED"} :
    /\ At(i, u, c)' => At(i + delta, u, c)
    /\ At(i, u, c) => i - delta \in Nat /\ At(i - delta, u, c)'

LEMMA CallsKept ==
  ASSUME TypeOK, Closes, Acks, Named, Current, Dids, SameCalls, NEW delta \in {0, 1}, Shifted(delta)
  PROVE  Closes' /\ Acks' /\ Named' /\ Current' /\ Dids'
<1> USE DEF SameCalls, idVars
<1>1. g_call_id # 0 => g_call_id \in Call
  BY DEF TypeOK
<1>2. Closes'
  BY DEF Closes, Shifted
<1>3. Acks'
  <2> SUFFICES ASSUME NEW i \in Nat, NEW c \in Call, At(i, "CALL_ACK", c)'
               PROVE  Acked(i, c)'
    BY DEF Acks
  <2>1. i + delta \in Nat /\ Acked(i + delta, c)
    BY DEF Acks, Shifted
  <2>2. phase'[c] \in {"confirmed", "closed", "ended"}
    BY <2>1 DEF Acked
  <2>3. phase'[c] = "confirmed" \/ \E j \in Nat : j > i /\ At(j, "CALL_CLOSED", c)'
    <3>1. CASE \E j \in Nat : j > i + delta /\ At(j, "CALL_CLOSED", c)
      <4>1. PICK j \in Nat : j > i + delta /\ At(j, "CALL_CLOSED", c)
        BY <3>1
      <4>2. j - delta \in Nat /\ j - delta > i /\ At(j - delta, "CALL_CLOSED", c)'
        BY <4>1 DEF Shifted
      <4>3. QED
        BY <4>2
    <3>2. QED
      BY <2>1, <3>1 DEF Acked
  <2>4. g_call_id' # 0 => \E j \in Nat : j < i /\ At(j, "CALL_CLOSED", g_call_id)'
    <3>1. SUFFICES ASSUME g_call_id # 0
                   PROVE  \E j \in Nat : j < i /\ At(j, "CALL_CLOSED", g_call_id)'
      OBVIOUS
    <3>2. PICK j \in Nat : j < i + delta /\ At(j, "CALL_CLOSED", g_call_id)
      BY <2>1, <3>1 DEF Acked
    <3>3. j - delta \in Nat /\ j - delta < i /\ At(j - delta, "CALL_CLOSED", g_call_id)'
      <4>1. j - delta \in Nat /\ At(j, "CALL_CLOSED", g_call_id)
        BY <1>1, <3>1, <3>2 DEF Shifted
      <4>2. \A c1 \in Call : At(j, "CALL_CLOSED", c1) => At(j - delta, "CALL_CLOSED", c1)'
        BY DEF Shifted
      <4>3. QED
        BY <1>1, <3>1, <3>2, <4>1, <4>2 DEF At
    <3>4. QED
      BY <3>3
  <2>5. \A k \in Nat : \A d \in Call :
          k < i /\ At(k, "CALL_ACK", d)' => \E j \in Nat : k < j /\ j < i /\ At(j, "CALL_CLOSED", d)'
    <3>1. SUFFICES ASSUME NEW k \in Nat, NEW d \in Call, k < i, At(k, "CALL_ACK", d)'
                   PROVE  \E j \in Nat : k < j /\ j < i /\ At(j, "CALL_CLOSED", d)'
      OBVIOUS
    <3>2. k + delta \in Nat /\ k + delta < i + delta /\ At(k + delta, "CALL_ACK", d)
      BY <3>1 DEF Shifted
    <3>3. PICK j \in Nat : k + delta < j /\ j < i + delta /\ At(j, "CALL_CLOSED", d)
      BY <2>1, <3>2 DEF Acked
    <3>4. j - delta \in Nat /\ k < j - delta /\ j - delta < i /\ At(j - delta, "CALL_CLOSED", d)'
      BY <3>3 DEF Shifted
    <3>5. QED
      BY <3>4
  <2>6. QED
    BY <2>2, <2>3, <2>4, <2>5 DEF Acked
<1>4. Named'
  <2> SUFFICES ASSUME NEW c \in Call, phase'[c] = "confirmed", kind'[c] \in Session,
                      \A i \in Nat : ~At(i, "CALL_ACK", c)'
               PROVE  g_call_id = c /\ g_did[kind'[c]] = c
    BY DEF Named
  <2>1. phase[c] = "confirmed" /\ kind'[c] = kind[c]
    OBVIOUS
  <2>2. \A i \in Nat : ~At(i, "CALL_ACK", c)
    BY DEF Shifted
  <2>3. QED
    BY <2>1, <2>2 DEF Named
<1>5. Current'
  <2> SUFFICES ASSUME g_call_id # 0
               PROVE  phase'[g_call_id] = "confirmed" \/ \E i \in Nat : At(i, "CALL_CLOSED", g_call_id)'
    BY DEF Current
  <2>1. CASE phase[g_call_id] = "confirmed"
    BY <1>1, <2>1
  <2>2. CASE \E i \in Nat : At(i, "CALL_CLOSED", g_call_id)
    <3>1. PICK i \in Nat : At(i, "CALL_CLOSED", g_call_id)
      BY <2>2
    <3>2. i - delta \in Nat /\ At(i - delta, "CALL_CLOSED", g_call_id)'
      <4>1. \A c1 \in Call : At(i, "CALL_CLOSED", c1) => i - delta \in Nat /\ At(i - delta, "CALL_CLOSED", c1)'
        BY DEF Shifted
      <4>2. QED
        BY <1>1, <3>1, <4>1 DEF At
    <3>3. QED
      BY <3>2
  <2>3. QED
    BY <2>1, <2>2 DEF Current
<1>6. Dids'
  <2>1. g_call_id # 0 => kind'[g_call_id] = kind[g_call_id]
    BY <1>1 DEF Current, Closes
  <2>2. QED
    BY <2>1 DEF Dids, TypeOK, Call
<1>7. QED
  BY <1>2, <1>3, <1>4, <1>5, <1>6

\* Nothing is named when no call is up and nothing waits.
LEMMA Idle ==
  ASSUME TypeOK, Current, Dids, \A c \in Call : phase[c] # "confirmed",
         \A i \in Nat : \A c \in Call : ~At(i, "CALL_CLOSED", c)
  PROVE  g_call_id = 0 /\ \A s \in Session : g_did[s] = 0
<1>1. g_call_id = 0
  <2> SUFFICES ASSUME g_call_id \in Call PROVE FALSE
    BY DEF TypeOK
  <2>1. g_call_id # 0
    BY DEF Call
  <2>2. PICK i \in Nat : At(i, "CALL_CLOSED", g_call_id)
    BY <2>1 DEF Current
  <2>3. QED
    BY <2>2 DEF At
<1>2. QED
  BY <1>1 DEF Dids

\* A restart that cuts no call leaves nothing named.
LEMMA RestartKeeps ==
  ASSUME TypeOK, Calls, Restart, \A c \in Call : phase[c] \notin InProgress,
         \A i \in Nat : \A c \in Call : ~At(i, "CALL_CLOSED", c)
  PROVE  Calls'
<1>1. g_call_id' = 0 /\ \A s \in Session : g_did'[s] = 0
  BY Idle DEF Calls, Restart, idVars, InProgress
<1>2. \A c \in Call : phase'[c] \in {"none", "ended"}
  BY DEF Restart
<1>3. \A i \in Nat : \A u, m : ~At(i, u, m)'
  BY Empties DEF Restart
<1>4. Alone' /\ Closes' /\ Acks' /\ Named' /\ Current' /\ Dids'
  BY <1>1, <1>2, <1>3 DEF Alone, InProgress, Closes, Acks, Named, Current, Dids
<1>5. QED
  BY <1>4 DEF Calls

\* A server that has one call at a time had one before.
LEMMA SerialBefore == TypeOK /\ [Next]_vars /\ Serial' => Serial
<1> SUFFICES ASSUME TypeOK, [Next]_vars, Serial' PROVE Serial
  OBVIOUS
<1> USE DEF Serial, TypeOK, histVars
<1>1. ASSUME NEW c \in Call, NEW k \in Kind, Invite(c, k)
      PROVE  Serial
  BY <1>1 DEF Invite
<1>2. ASSUME NEW c \in Call, Cancel(c)
      PROVE  Serial
  BY <1>2 DEF Cancel
<1>3. ASSUME NEW c \in Call, Ack(c)
      PROVE  Serial
  BY <1>3 DEF Ack
<1>4. ASSUME NEW c \in Call, Bye(c)
      PROVE  Serial
  BY <1>4 DEF Bye
<1>5. ASSUME NEW c \in Call, Release(c)
      PROVE  Serial
  BY <1>5 DEF Release
<1>6. ASSUME NEW b \in Talk, Broadcast(b)
      PROVE  Serial
  BY <1>6 DEF Broadcast
<1>7. ASSUME NEW b \in Talk, ReplyAnswered(b)
      PROVE  Serial
  BY <1>7 DEF ReplyAnswered
<1>8. ASSUME NEW b \in Talk, TalkAnswered(b)
      PROVE  Serial
  BY <1>8 DEF TalkAnswered
<1>9. ASSUME NEW b \in Talk, TalkBye(b)
      PROVE  Serial
  BY <1>9 DEF TalkBye
<1>10. ASSUME NEW b \in Talk, TalkRelease(b)
      PROVE  Serial
  BY <1>10 DEF TalkRelease
<1>11. ASSUME NEW c \in Call, OnInvite(c)
      PROVE  Serial
  BY <1>11 DEF OnInvite, Taken
<1>12. ASSUME NEW c \in Call, OnAck(c)
      PROVE  Serial
  BY <1>12 DEF OnAck, Taken
<1>13. ASSUME NEW c \in Call \cup {0}, OnClosed(c)
      PROVE  Serial
  BY <1>13 DEF OnClosed, Taken
<1>14. CASE OnReleased
  BY <1>14 DEF OnReleased, Restart
<1>15. ASSUME NEW b \in Talk, OnBroadcast(b)
      PROVE  Serial
  BY <1>15 DEF OnBroadcast, Taken
<1>16. ASSUME NEW b \in Talk, OnReplyAnswered(b)
      PROVE  Serial
  BY <1>16 DEF OnReplyAnswered, Taken
<1>17. ASSUME NEW b \in Talk, OnTalkAnswered(b)
      PROVE  Serial
  BY <1>17 DEF OnTalkAnswered, Taken
<1>18. CASE GiveUp
  BY <1>18 DEF GiveUp, Restart
<1>19. CASE DropEvent
  BY <1>19 DEF DropEvent
<1>20. CASE Registered
  BY <1>20 DEF Registered
<1>21. CASE UNCHANGED vars
  BY <1>21 DEF vars
<1>22. QED
  BY <1>1, <1>2, <1>3, <1>4, <1>5, <1>6, <1>7, <1>8, <1>9, <1>10, <1>11, <1>12,
     <1>13, <1>14, <1>15, <1>16, <1>17, <1>18, <1>19, <1>20, <1>21
  DEF Next, Server, ProcessEvent

\* One step keeps what is known of the calls.
LEMMA StepCalls == TypeOK /\ Offline /\ CallInv /\ [Next]_vars => CallInv'
<1> SUFFICES ASSUME TypeOK, Offline, [Next]_vars, Serial',
                    Alone, Closes, Acks, Named, Current, Dids
             PROVE  Calls'
  BY SerialBefore DEF CallInv, Calls
<1> USE DEF idVars, talkVars, callVars, histVars
<1>1. ASSUME NEW c \in Call, NEW k \in Kind, Invite(c, k)
      PROVE  Calls'
  <2>1. SameCalls
    BY <1>1 DEF Invite, SameCalls, TypeOK
  <2>2. Shifted(0)
    BY <1>1, Posts DEF Invite, Shifted, Call
  <2>3. Closes' /\ Acks' /\ Named' /\ Current' /\ Dids'
    BY <2>1, <2>2, CallsKept
  <2>4. Alone'
    BY <1>1 DEF Invite, Alone, Serial, InProgress, TypeOK
  <2>5. QED
    BY <2>3, <2>4 DEF Calls
<1>2. ASSUME NEW c \in Call, Cancel(c)
      PROVE  Calls'
  <2>1. SameCalls
    BY <1>2 DEF Cancel, SameCalls, TypeOK
  <2>2. Shifted(0)
    BY <1>2 DEF Cancel, Shifted, At
  <2>3. Closes' /\ Acks' /\ Named' /\ Current' /\ Dids'
    BY <2>1, <2>2, CallsKept
  <2>4. Alone'
    BY <1>2 DEF Cancel, Alone, Serial, InProgress, TypeOK
  <2>5. QED
    BY <2>3, <2>4 DEF Calls
<1>3. ASSUME NEW c \in Call, Ack(c)
      PROVE  Calls'
  <2>1. g_call_id' = g_call_id /\ g_did' = g_did /\ kind' = kind
    BY <1>3 DEF Ack
  <2>2. /\ phase[c] = "answered" /\ phase'[c] = "confirmed"
        /\ \A d \in Call : d # c => phase'[d] = phase[d]
    BY <1>3 DEF Ack, TypeOK
  <2>3. \A i \in Nat : \A u, m :
          At(i, u, m)' <=> At(i, u, m) \/ (i = Len(events) + 1 /\ u = "CALL_ACK" /\ m = c)
    BY <1>3, Posts DEF Ack
  <2>4. \A d \in Call : phase[d] # "confirmed"
    BY <2>2 DEF Alone, InProgress
  <2>5. Alone'
    BY <2>2 DEF Alone, InProgress
  <2>6. Closes'
    BY <2>2, <2>3 DEF Closes
  <2>7. Acks'
    <3> SUFFICES ASSUME NEW i \in Nat, NEW x \in Call, At(i, "CALL_ACK", x)'
                 PROVE  Acked(i, x)'
      BY DEF Acks
    <3>1. CASE At(i, "CALL_ACK", x)
      <4>1. Acked(i, x) /\ i <= Len(events) /\ Len(events) \in Nat
        BY <3>1, Positions DEF Acks
      <4>2. phase'[x] \in {"confirmed", "closed", "ended"}
        BY <2>2, <4>1 DEF Acked
      <4>3. phase'[x] = "confirmed" \/ \E j \in Nat : j > i /\ At(j, "CALL_CLOSED", x)'
        BY <2>3, <2>4, <4>1 DEF Acked
      <4>4. g_call_id' # 0 => \E j \in Nat : j < i /\ At(j, "CALL_CLOSED", g_call_id)'
        BY <2>1, <2>3, <4>1 DEF Acked
      <4>5. \A k \in Nat : \A d \in Call :
              k < i /\ At(k, "CALL_ACK", d)' => \E j \in Nat : k < j /\ j < i /\ At(j, "CALL_CLOSED", d)'
        BY <2>3, <4>1 DEF Acked
      <4>6. QED
        BY <2>1, <4>2, <4>3, <4>4, <4>5 DEF Acked
    <3>2. CASE i = Len(events) + 1 /\ x = c
      <4>1. g_call_id # 0 => \E j \in Nat : j < i /\ At(j, "CALL_CLOSED", g_call_id)'
        <5>1. SUFFICES ASSUME g_call_id # 0
                       PROVE  \E j \in Nat : j < i /\ At(j, "CALL_CLOSED", g_call_id)'
          OBVIOUS
        <5>2. PICK j \in Nat : At(j, "CALL_CLOSED", g_call_id)
          BY <2>4, <5>1 DEF Current, TypeOK
        <5>3. j < i /\ At(j, "CALL_CLOSED", g_call_id)'
          BY <2>1, <2>3, <3>2, <5>2, Positions DEF At
        <5>4. QED
          BY <5>3
      <4>2. \A k \in Nat : \A d \in Call :
              k < i /\ At(k, "CALL_ACK", d)' => \E j \in Nat : k < j /\ j < i /\ At(j, "CALL_CLOSED", d)'
        <5>1. SUFFICES ASSUME NEW k \in Nat, NEW d \in Call, k < i, At(k, "CALL_ACK", d)'
                       PROVE  \E j \in Nat : k < j /\ j < i /\ At(j, "CALL_CLOSED", d)'
          OBVIOUS
        <5>2. At(k, "CALL_ACK", d)
          BY <2>3, <3>2, <5>1
        <5>3. PICK j \in Nat : j > k /\ At(j, "CALL_CLOSED", d)
          BY <2>4, <5>2 DEF Acks, Acked
        <5>4. j < i /\ At(j, "CALL_CLOSED", d)'
          BY <2>3, <3>2, <5>3, Positions
        <5>5. QED
          BY <5>3, <5>4
      <4>3. QED
        BY <2>1, <2>2, <3>2, <4>1, <4>2 DEF Acked
    <3>3. QED
      BY <2>3, <3>1, <3>2
  <2>8. Named'
    <3>1. \E i \in Nat : At(i, "CALL_ACK", c)'
      <4>1. Len(events) + 1 \in Nat
        BY DEF TypeOK
      <4>2. QED
        BY <2>3, <4>1
    <3>2. QED
      BY <2>2, <2>4, <3>1 DEF Named
  <2>9. Current'
    <3>1. g_call_id # 0 => \E i \in Nat : At(i, "CALL_CLOSED", g_call_id)
      BY <2>4 DEF Current, TypeOK
    <3>2. QED
      BY <2>1, <2>3, <3>1 DEF Current
  <2>10. Dids'
    BY <2>1 DEF Dids
  <2>11. QED
    BY <2>5, <2>6, <2>7, <2>8, <2>9, <2>10 DEF Calls
<1>4. ASSUME NEW c \in Call, Bye(c)
      PROVE  Calls'
  <2>1. g_call_id' = g_call_id /\ g_did' = g_did /\ kind' = kind
    BY <1>4 DEF Bye
  <2>2. /\ phase[c] \in {"answered", "confirmed"} /\ phase'[c] = "closed"
        /\ \A d \in Call : d # c => phase'[d] = phase[d]
    BY <1>4 DEF Bye, TypeOK
  <2>3. \A i \in Nat : \A u, m :
          At(i, u, m)' <=> At(i, u, m) \/ (i = Len(events) + 1 /\ u = "CALL_CLOSED" /\ m = c)
    BY <1>4, Posts DEF Bye
  <2>4. PICK last \in Nat : last = Len(events) + 1 /\ At(last, "CALL_CLOSED", c)'
    <3>1. Len(events) + 1 \in Nat
      BY DEF TypeOK
    <3>2. QED
      BY <2>3, <3>1
  <2>5. Alone'
    BY <2>2 DEF Alone, InProgress
  <2>6. Closes'
    BY <2>2, <2>3 DEF Closes
  <2>7. Acks'
    <3> SUFFICES ASSUME NEW i \in Nat, NEW x \in Call, At(i, "CALL_ACK", x)'
                 PROVE  Acked(i, x)'
      BY DEF Acks
    <3>1. At(i, "CALL_ACK", x) /\ Acked(i, x) /\ i <= Len(events) /\ Len(events) \in Nat
      BY <2>3, Positions DEF Acks
    <3>2. phase'[x] \in {"confirmed", "closed", "ended"}
      BY <2>2, <3>1 DEF Acked
    <3>3. phase'[x] = "confirmed" \/ \E j \in Nat : j > i /\ At(j, "CALL_CLOSED", x)'
      <4>1. CASE x = c
        BY <2>4, <3>1, <4>1
      <4>2. CASE x # c
        BY <2>2, <2>3, <3>1, <4>2 DEF Acked
      <4>3. QED
        BY <4>1, <4>2
    <3>4. g_call_id' # 0 => \E j \in Nat : j < i /\ At(j, "CALL_CLOSED", g_call_id)'
      BY <2>1, <2>3, <3>1 DEF Acked
    <3>5. \A k \in Nat : \A d \in Call :
            k < i /\ At(k, "CALL_ACK", d)' => \E j \in Nat : k < j /\ j < i /\ At(j, "CALL_CLOSED", d)'
      BY <2>3, <3>1 DEF Acked
    <3>6. QED
      BY <2>1, <3>2, <3>3, <3>4, <3>5 DEF Acked
  <2>8. Named'
    BY <2>1, <2>2, <2>3 DEF Named
  <2>9. Current'
    <3> SUFFICES ASSUME g_call_id # 0
                 PROVE  phase'[g_call_id] = "confirmed" \/ \E i \in Nat : At(i, "CALL_CLOSED", g_call_id)'
      BY <2>1 DEF Current
    <3>1. CASE g_call_id = c
      <4>1. At(last, "CALL_CLOSED", g_call_id)'
        BY <2>1, <2>4, <3>1
      <4>2. QED
        BY <4>1
    <3>2. CASE g_call_id # c
      BY <2>1, <2>2, <2>3, <3>2 DEF Current, TypeOK
    <3>3. QED
      BY <3>1, <3>2
  <2>10. Dids'
    BY <2>1 DEF Dids
  <2>11. QED
    BY <2>5, <2>6, <2>7, <2>8, <2>9, <2>10 DEF Calls
<1>5. ASSUME NEW c \in Call, Release(c)
      PROVE  Calls'
  <2>1. SameCalls
    BY <1>5 DEF Release, SameCalls, TypeOK
  <2>2. Shifted(0)
    BY <1>5, Posts DEF Release, Shifted, Call
  <2>3. Closes' /\ Acks' /\ Named' /\ Current' /\ Dids'
    BY <2>1, <2>2, CallsKept
  <2>4. Alone'
    BY <1>5 DEF Release, Alone, Serial, InProgress, TypeOK
  <2>5. QED
    BY <2>3, <2>4 DEF Calls
<1>6. ASSUME NEW b \in Talk, Broadcast(b)
      PROVE  Calls'
  <2>1. SameCalls
    BY <1>6 DEF Broadcast, SameCalls, TypeOK
  <2>2. Shifted(0)
    BY <1>6, Posts DEF Broadcast, Shifted, Call
  <2>3. Closes' /\ Acks' /\ Named' /\ Current' /\ Dids'
    BY <2>1, <2>2, CallsKept
  <2>4. Alone'
    BY <1>6 DEF Broadcast, Alone, Serial, InProgress, TypeOK
  <2>5. QED
    BY <2>3, <2>4 DEF Calls
<1>7. ASSUME NEW b \in Talk, ReplyAnswered(b)
      PROVE  Calls'
  <2>1. SameCalls
    BY <1>7 DEF ReplyAnswered, SameCalls, TypeOK
  <2>2. Shifted(0)
    <3>1. CASE Post("MESSAGE_ANSWERED", b)
      BY <3>1, Posts DEF Shifted
    <3>2. CASE UNCHANGED events
      BY <3>2 DEF Shifted, At
    <3>3. QED
      BY <1>7, <3>1, <3>2 DEF ReplyAnswered
  <2>3. Closes' /\ Acks' /\ Named' /\ Current' /\ Dids'
    BY <2>1, <2>2, CallsKept
  <2>4. Alone'
    BY <1>7 DEF ReplyAnswered, Alone, Serial, InProgress, TypeOK
  <2>5. QED
    BY <2>3, <2>4 DEF Calls
<1>8. ASSUME NEW b \in Talk, TalkAnswered(b)
      PROVE  Calls'
  <2>1. SameCalls
    BY <1>8 DEF TalkAnswered, SameCalls, TypeOK
  <2>2. Shifted(0)
    <3>1. CASE Post("CALL_ANSWERED", b)
      BY <3>1, Posts DEF Shifted
    <3>2. CASE UNCHANGED events
      BY <3>2 DEF Shifted, At
    <3>3. QED
      BY <1>8, <3>1, <3>2 DEF TalkAnswered
  <2>3. Closes' /\ Acks' /\ Named' /\ Current' /\ Dids'
    BY <2>1, <2>2, CallsKept
  <2>4. Alone'
    BY <1>8 DEF TalkAnswered, Alone, Serial, InProgress, TypeOK
  <2>5. QED
    BY <2>3, <2>4 DEF Calls
<1>9. ASSUME NEW b \in Talk, TalkBye(b)
      PROVE  Calls'
  <2>1. SameCalls
    BY <1>9 DEF TalkBye, SameCalls, TypeOK
  <2>2. Shifted(0)
    BY <1>9, Posts DEF TalkBye, Shifted, Call
  <2>3. Closes' /\ Acks' /\ Named' /\ Current' /\ Dids'
    BY <2>1, <2>2, CallsKept
  <2>4. Alone'
    BY <1>9 DEF TalkBye, Alone, Serial, InProgress, TypeOK
  <2>5. QED
    BY <2>3, <2>4 DEF Calls
<1>10. ASSUME NEW b \in Talk, TalkRelease(b)
      PROVE  Calls'
  <2>1. SameCalls
    BY <1>10 DEF TalkRelease, SameCalls, TypeOK
  <2>2. Shifted(0)
    BY <1>10, Posts DEF TalkRelease, Shifted, Call
  <2>3. Closes' /\ Acks' /\ Named' /\ Current' /\ Dids'
    BY <2>1, <2>2, CallsKept
  <2>4. Alone'
    BY <1>10 DEF TalkRelease, Alone, Serial, InProgress, TypeOK
  <2>5. QED
    BY <2>3, <2>4 DEF Calls
<1>11. ASSUME NEW c \in Call, OnInvite(c)
      PROVE  Calls'
  <2>1. SameCalls
    BY <1>11 DEF OnInvite, SameCalls, TypeOK
  <2>2. Shifted(1)
    <3>1. Taken("CALL_INVITE", c)
      BY <1>11 DEF OnInvite
    <3>2. \A u, m : At(1, u, m) => u = "CALL_INVITE"
      BY <3>1, HandlesFirst
    <3>3. \A i \in Nat : \A u, m : At(i, u, m)' <=> i # 0 /\ At(i + 1, u, m)
      BY <3>1, HandlesFirst
    <3>4. \A i \in Nat : \A c1 \in Call : \A u \in {"CALL_ACK", "CALL_CLOSED"} :
            At(i, u, c1) => i # 0 /\ i # 1
      BY <3>2, Positions
    <3>5. QED
      BY <3>3, <3>4 DEF Shifted
  <2>3. Closes' /\ Acks' /\ Named' /\ Current' /\ Dids'
    BY <2>1, <2>2, CallsKept
  <2>4. Alone'
    BY <1>11 DEF OnInvite, Alone, Serial, InProgress, TypeOK
  <2>5. QED
    BY <2>3, <2>4 DEF Calls
<1>12. ASSUME NEW c \in Call, OnAck(c)
      PROVE  Calls'
  <2>1. /\ At(1, "CALL_ACK", c) /\ \A u, m : At(1, u, m) => u = "CALL_ACK" /\ m = c
        /\ \A i \in Nat : \A u, m : At(i, u, m)' <=> i # 0 /\ At(i + 1, u, m)
    BY <1>12, HandlesFirst DEF OnAck
  <2>2. phase' = phase /\ kind' = kind
    BY <1>12 DEF OnAck
  <2>3. Acked(1, c)
    BY <2>1 DEF Acks
  <2>4. g_call_id = 0 /\ \A s \in Session : g_did[s] = 0
    <3>1. g_call_id = 0
      <4> SUFFICES ASSUME g_call_id # 0 PROVE FALSE
        OBVIOUS
      <4>1. PICK j \in Nat : j < 1 /\ At(j, "CALL_CLOSED", g_call_id)
        BY <2>3 DEF Acked
      <4>2. QED
        BY <4>1, Positions
    <3>2. QED
      BY <3>1 DEF Dids
  <2>5. \/ g_call_id' = c /\ g_did' = [s \in Session |-> IF s = kind[c] THEN c ELSE g_did[s]]
        \/ /\ kind[c] \notin Session \/ phase[c] # "confirmed"
           /\ g_call_id' = 0 /\ g_did' = g_did
    BY <1>12, <2>4 DEF OnAck, Session
  <2>6. Alone' /\ Closes'
    BY <2>1, <2>2 DEF Alone, Closes
  <2>7. Acks'
    <3> SUFFICES ASSUME NEW i \in Nat, NEW x \in Call, At(i, "CALL_ACK", x)'
                 PROVE  Acked(i, x)'
      BY DEF Acks
    <3>1. i # 0 /\ Acked(i + 1, x)
      BY <2>1 DEF Acks
    <3>2. \A j \in Nat : \A d : j > 1 /\ At(j, "CALL_CLOSED", d) => j - 1 \in Nat /\ At(j - 1, "CALL_CLOSED", d)'
      BY <2>1
    <3>3. phase'[x] \in {"confirmed", "closed", "ended"}
      BY <2>2, <3>1 DEF Acked
    <3>4. phase'[x] = "confirmed" \/ \E j \in Nat : j > i /\ At(j, "CALL_CLOSED", x)'
      <4>1. SUFFICES ASSUME phase[x] # "confirmed" PROVE \E j \in Nat : j > i /\ At(j, "CALL_CLOSED", x)'
        BY <2>2
      <4>2. PICK j \in Nat : j > i + 1 /\ At(j, "CALL_CLOSED", x)
        BY <3>1, <4>1 DEF Acked
      <4>3. j - 1 \in Nat /\ j - 1 > i /\ At(j - 1, "CALL_CLOSED", x)'
        BY <3>1, <3>2, <4>2
      <4>4. QED
        BY <4>3
    <3>5. \A k \in Nat : \A d \in Call :
            k < i + 1 /\ At(k, "CALL_ACK", d)
              => \E j \in Nat : k < j + 1 /\ j < i /\ At(j, "CALL_CLOSED", d)'
      <4>1. SUFFICES ASSUME NEW k \in Nat, NEW d \in Call, k < i + 1, At(k, "CALL_ACK", d)
                     PROVE  \E j \in Nat : k < j + 1 /\ j < i /\ At(j, "CALL_CLOSED", d)'
        OBVIOUS
      <4>2. PICK j \in Nat : k < j /\ j < i + 1 /\ At(j, "CALL_CLOSED", d)
        BY <3>1, <4>1 DEF Acked
      <4>3. k # 0
        BY <4>1, Positions
      <4>4. j - 1 \in Nat /\ k < (j - 1) + 1 /\ j - 1 < i /\ At(j - 1, "CALL_CLOSED", d)'
        BY <3>2, <4>2, <4>3
      <4>5. QED
        BY <4>4
    <3>6. g_call_id' # 0 => \E j \in Nat : j < i /\ At(j, "CALL_CLOSED", g_call_id)'
      <4>1. \E j \in Nat : j < i /\ At(j, "CALL_CLOSED", c)'
        BY <2>1, <3>1, <3>5
      <4>2. g_call_id' # 0 => g_call_id' = c
        BY <2>5
      <4>3. QED
        BY <4>1, <4>2
    <3>7. \A k \in Nat : \A d \in Call :
            k < i /\ At(k, "CALL_ACK", d)' => \E j \in Nat : k < j /\ j < i /\ At(j, "CALL_CLOSED", d)'
      <4>1. SUFFICES ASSUME NEW k \in Nat, NEW d \in Call, k < i, At(k, "CALL_ACK", d)'
                     PROVE  \E j \in Nat : k < j /\ j < i /\ At(j, "CALL_CLOSED", d)'
        OBVIOUS
      <4>2. At(k + 1, "CALL_ACK", d) /\ k + 1 \in Nat /\ k + 1 < i + 1
        BY <2>1, <4>1
      <4>3. PICK j \in Nat : k + 1 < j + 1 /\ j < i /\ At(j, "CALL_CLOSED", d)'
        BY <3>5, <4>2
      <4>4. QED
        BY <4>3
    <3>8. QED
      BY <3>3, <3>4, <3>6, <3>7 DEF Acked
  <2>8. Named'
    <3> SUFFICES ASSUME NEW x \in Call, phase[x] = "confirmed", kind[x] \in Session,
                        \A i \in Nat : ~At(i, "CALL_ACK", x)'
                 PROVE  g_call_id' = x /\ g_did'[kind[x]] = x
      BY <2>2 DEF Named
    <3>1. x = c
      <4> SUFFICES ASSUME x # c PROVE FALSE
        OBVIOUS
      <4>1. \A i \in Nat : ~At(i, "CALL_ACK", x)
        <5> SUFFICES ASSUME NEW i \in Nat, At(i, "CALL_ACK", x) PROVE FALSE
          OBVIOUS
        <5>1. i # 0 /\ i # 1
          BY <2>1, Positions
        <5>2. i - 1 \in Nat /\ i - 1 # 0 /\ (i - 1) + 1 = i
          BY <5>1
        <5>3. At(i - 1, "CALL_ACK", x)'
          BY <2>1, <5>2
        <5>4. QED
          BY <5>2, <5>3
      <4>2. QED
        BY <2>4, <4>1 DEF Named, Call
    <3>2. QED
      BY <2>5, <3>1
  <2>9. Current'
    <3>1. phase[c] = "confirmed" \/ \E j \in Nat : At(j, "CALL_CLOSED", c)'
      <4>1. SUFFICES ASSUME phase[c] # "confirmed" PROVE \E j \in Nat : At(j, "CALL_CLOSED", c)'
        OBVIOUS
      <4>2. PICK j \in Nat : j > 1 /\ At(j, "CALL_CLOSED", c)
        BY <2>3, <4>1 DEF Acked
      <4>3. j - 1 \in Nat /\ j - 1 # 0 /\ (j - 1) + 1 = j
        BY <4>2
      <4>4. At(j - 1, "CALL_CLOSED", c)'
        BY <2>1, <4>2, <4>3
      <4>5. QED
        BY <4>3, <4>4
    <3>2. g_call_id' # 0 => g_call_id' = c
      BY <2>5
    <3>3. QED
      BY <2>2, <3>1, <3>2 DEF Current
  <2>10. Dids'
    <3>1. \A s \in Session : g_did'[s] # 0 => g_call_id' = c /\ s = kind[c] /\ g_did'[s] = c
      BY <2>4, <2>5
    <3>2. QED
      BY <2>2, <3>1 DEF Dids
  <2>11. QED
    BY <2>6, <2>7, <2>8, <2>9, <2>10 DEF Calls
<1>13. ASSUME NEW c \in Call \cup {0}, OnClosed(c)
      PROVE  Calls'
  <2>1. /\ At(1, "CALL_CLOSED", c) /\ \A u, m : At(1, u, m) => u = "CALL_CLOSED" /\ m = c
        /\ \A i \in Nat : \A u, m : At(i, u, m)' <=> i # 0 /\ At(i + 1, u, m)
    BY <1>13, HandlesFirst DEF OnClosed
  <2>2. phase' = phase /\ kind' = kind
    BY <1>13 DEF OnClosed
  <2>3. \A s \in Session : g_did'[s] = IF c # 0 /\ g_did[s] = c THEN 0 ELSE g_did[s]
    BY <1>13 DEF OnClosed
  <2>4. g_call_id' = IF \A s \in Session : g_did'[s] = 0 THEN 0 ELSE g_call_id
    BY <1>13 DEF OnClosed
  <2>5. g_call_id' # 0 => g_call_id' = g_call_id /\ g_call_id # c
    BY <2>3, <2>4 DEF Dids
  <2>6. \A j \in Nat : \A d : At(j, "CALL_CLOSED", d) /\ d # c =>
          j - 1 \in Nat /\ At(j - 1, "CALL_CLOSED", d)'
    <3> SUFFICES ASSUME NEW j \in Nat, NEW d, At(j, "CALL_CLOSED", d), d # c
                 PROVE  j - 1 \in Nat /\ At(j - 1, "CALL_CLOSED", d)'
      OBVIOUS
    <3>1. j # 0 /\ j # 1
      BY <2>1, Positions
    <3>2. j - 1 \in Nat /\ j - 1 # 0 /\ (j - 1) + 1 = j
      BY <3>1
    <3>3. QED
      BY <2>1, <3>2
  <2>7. \A j \in Nat : \A d : j > 1 /\ At(j, "CALL_CLOSED", d) => j - 1 \in Nat /\ At(j - 1, "CALL_CLOSED", d)'
    BY <2>1
  <2>8. Alone' /\ Closes'
    BY <2>1, <2>2 DEF Alone, Closes
  <2>9. Acks'
    <3> SUFFICES ASSUME NEW i \in Nat, NEW x \in Call, At(i, "CALL_ACK", x)'
                 PROVE  Acked(i, x)'
      BY DEF Acks
    <3>1. i # 0 /\ Acked(i + 1, x)
      BY <2>1 DEF Acks
    <3>2. phase'[x] \in {"confirmed", "closed", "ended"}
      BY <2>2, <3>1 DEF Acked
    <3>3. phase'[x] = "confirmed" \/ \E j \in Nat : j > i /\ At(j, "CALL_CLOSED", x)'
      <4>1. SUFFICES ASSUME phase[x] # "confirmed" PROVE \E j \in Nat : j > i /\ At(j, "CALL_CLOSED", x)'
        BY <2>2
      <4>2. PICK j \in Nat : j > i + 1 /\ At(j, "CALL_CLOSED", x)
        BY <3>1, <4>1 DEF Acked
      <4>3. j - 1 \in Nat /\ j - 1 > i /\ At(j - 1, "CALL_CLOSED", x)'
        BY <2>7, <3>1, <4>2
      <4>4. QED
        BY <4>3
    <3>4. g_call_id' # 0 => \E j \in Nat : j < i /\ At(j, "CALL_CLOSED", g_call_id)'
      <4>1. SUFFICES ASSUME g_call_id' # 0 PROVE \E j \in Nat : j < i /\ At(j, "CALL_CLOSED", g_call_id)'
        OBVIOUS
      <4>2. PICK j \in Nat : j < i + 1 /\ At(j, "CALL_CLOSED", g_call_id')
        BY <2>5, <3>1, <4>1 DEF Acked
      <4>3. j - 1 \in Nat /\ j - 1 < i /\ At(j - 1, "CALL_CLOSED", g_call_id)'
        BY <2>5, <2>6, <4>1, <4>2
      <4>4. QED
        BY <4>3
    <3>5. \A k \in Nat : \A d \in Call :
            k < i /\ At(k, "CALL_ACK", d)' => \E j \in Nat : k < j /\ j < i /\ At(j, "CALL_CLOSED", d)'
      <4>1. SUFFICES ASSUME NEW k \in Nat, NEW d \in Call, k < i, At(k, "CALL_ACK", d)'
                     PROVE  \E j \in Nat : k < j /\ j < i /\ At(j, "CALL_CLOSED", d)'
        OBVIOUS
      <4>2. At(k + 1, "CALL_ACK", d) /\ k + 1 \in Nat /\ k + 1 < i + 1
        BY <2>1, <4>1
      <4>3. PICK j \in Nat : k + 1 < j /\ j < i + 1 /\ At(j, "CALL_CLOSED", d)
        BY <3>1, <4>2 DEF Acked
      <4>4. j - 1 \in Nat /\ k < j - 1 /\ j - 1 < i /\ At(j - 1, "CALL_CLOSED", d)'
        BY <2>7, <4>3
      <4>5. QED
        BY <4>4
    <3>6. QED
      BY <3>2, <3>3, <3>4, <3>5 DEF Acked
  <2>10. Named'
    <3> SUFFICES ASSUME NEW x \in Call, phase[x] = "confirmed", kind[x] \in Session,
                        \A i \in Nat : ~At(i, "CALL_ACK", x)'
                 PROVE  g_call_id' = x /\ g_did'[kind[x]] = x
      BY <2>2 DEF Named
    <3>1. \A i \in Nat : ~At(i, "CALL_ACK", x)
      <4> SUFFICES ASSUME NEW i \in Nat, At(i, "CALL_ACK", x) PROVE FALSE
        OBVIOUS
      <4>1. i # 0 /\ i # 1
        BY <2>1, Positions
      <4>2. i - 1 \in Nat /\ i - 1 # 0 /\ (i - 1) + 1 = i
        BY <4>1
      <4>3. At(i - 1, "CALL_ACK", x)'
        BY <2>1, <4>2
      <4>4. QED
        BY <4>2, <4>3
    <3>2. g_call_id = x /\ g_did[kind[x]] = x
      BY <3>1 DEF Named
    <3>3. c # x
      BY <2>1 DEF Closes
    <3>4. x # 0
      BY DEF Call
    <3>5. g_did'[kind[x]] = x
      BY <2>3, <3>2, <3>3
    <3>6. QED
      BY <2>4, <3>2, <3>4, <3>5
  <2>11. Current'
    <3> SUFFICES ASSUME g_call_id' # 0
                 PROVE  phase[g_call_id'] = "confirmed" \/ \E i \in Nat : At(i, "CALL_CLOSED", g_call_id)'
      BY <2>2 DEF Current
    <3>1. CASE \E i \in Nat : At(i, "CALL_CLOSED", g_call_id')
      BY <2>5, <2>6, <3>1
    <3>2. QED
      BY <2>5, <3>1 DEF Current
  <2>12. Dids'
    BY <2>2, <2>3, <2>4 DEF Dids
  <2>13. QED
    BY <2>8, <2>9, <2>10, <2>11, <2>12 DEF Calls
<1>14. CASE OnReleased
  <2>1. Restart /\ Len(events) <= 1 /\ \A c \in Call : phase[c] \notin InProgress
    <3>1. ~lost'
      BY DEF Serial
    <3>2. ~(Len(events) > 1) /\ \A c \in Call : phase[c] \notin InProgress
      BY <1>14, <3>1 DEF OnReleased
    <3>3. Len(events) \in Nat
      BY DEF TypeOK
    <3>4. QED
      BY <1>14, <3>2, <3>3 DEF OnReleased
  <2>2. \A i \in Nat : \A c \in Call : ~At(i, "CALL_CLOSED", c)
    <3> SUFFICES ASSUME NEW i \in Nat, NEW c \in Call, At(i, "CALL_CLOSED", c) PROVE FALSE
      OBVIOUS
    <3>1. i = 1
      BY <2>1 DEF At, TypeOK
    <3>2. events[1][1] = "CALL_CLOSED"
      BY <3>1 DEF At
    <3>3. events[1][1] = "CALL_RELEASED"
      BY <1>14 DEF OnReleased, TypeOK
    <3>4. QED
      BY <3>2, <3>3
  <2>3. QED
    BY <2>1, <2>2, RestartKeeps DEF Calls
<1>15. ASSUME NEW b \in Talk, OnBroadcast(b)
      PROVE  Calls'
  <2>1. SameCalls
    BY <1>15 DEF OnBroadcast, SameCalls, TypeOK
  <2>2. Shifted(1)
    <3>1. Taken("MESSAGE_NEW", b)
      BY <1>15 DEF OnBroadcast
    <3>2. \A u, m : At(1, u, m) => u = "MESSAGE_NEW"
      BY <3>1, HandlesFirst
    <3>3. \A i \in Nat : \A u, m : At(i, u, m)' <=> i # 0 /\ At(i + 1, u, m)
      BY <3>1, HandlesFirst
    <3>4. \A i \in Nat : \A c1 \in Call : \A u \in {"CALL_ACK", "CALL_CLOSED"} :
            At(i, u, c1) => i # 0 /\ i # 1
      BY <3>2, Positions
    <3>5. QED
      BY <3>3, <3>4 DEF Shifted
  <2>3. Closes' /\ Acks' /\ Named' /\ Current' /\ Dids'
    BY <2>1, <2>2, CallsKept
  <2>4. Alone'
    BY <1>15 DEF OnBroadcast, Alone, Serial, InProgress, TypeOK
  <2>5. QED
    BY <2>3, <2>4 DEF Calls
<1>16. ASSUME NEW b \in Talk, OnReplyAnswered(b)
      PROVE  Calls'
  <2>1. SameCalls
    BY <1>16 DEF OnReplyAnswered, SameCalls, TypeOK
  <2>2. Shifted(1)
    <3>1. Taken("MESSAGE_ANSWERED", b)
      BY <1>16 DEF OnReplyAnswered
    <3>2. \A u, m : At(1, u, m) => u = "MESSAGE_ANSWERED"
      BY <3>1, HandlesFirst
    <3>3. \A i \in Nat : \A u, m : At(i, u, m)' <=> i # 0 /\ At(i + 1, u, m)
      BY <3>1, HandlesFirst
    <3>4. \A i \in Nat : \A c1 \in Call : \A u \in {"CALL_ACK", "CALL_CLOSED"} :
            At(i, u, c1) => i # 0 /\ i # 1
      BY <3>2, Positions
    <3>5. QED
      BY <3>3, <3>4 DEF Shifted
  <2>3. Closes' /\ Acks' /\ Named' /\ Current' /\ Dids'
    BY <2>1, <2>2, CallsKept
  <2>4. Alone'
    BY <1>16 DEF OnReplyAnswered, Alone, Serial, InProgress, TypeOK
  <2>5. QED
    BY <2>3, <2>4 DEF Calls
<1>17. ASSUME NEW b \in Talk, OnTalkAnswered(b)
      PROVE  Calls'
  <2>1. SameCalls
    BY <1>17 DEF OnTalkAnswered, SameCalls, TypeOK
  <2>2. Shifted(1)
    <3>1. Taken("CALL_ANSWERED", b)
      BY <1>17 DEF OnTalkAnswered
    <3>2. \A u, m : At(1, u, m) => u = "CALL_ANSWERED"
      BY <3>1, HandlesFirst
    <3>3. \A i \in Nat : \A u, m : At(i, u, m)' <=> i # 0 /\ At(i + 1, u, m)
      BY <3>1, HandlesFirst
    <3>4. \A i \in Nat : \A c1 \in Call : \A u \in {"CALL_ACK", "CALL_CLOSED"} :
            At(i, u, c1) => i # 0 /\ i # 1
      BY <3>2, Positions
    <3>5. QED
      BY <3>3, <3>4 DEF Shifted
  <2>3. Closes' /\ Acks' /\ Named' /\ Current' /\ Dids'
    BY <2>1, <2>2, CallsKept
  <2>4. Alone'
    BY <1>17 DEF OnTalkAnswered, Alone, Serial, InProgress, TypeOK
  <2>5. QED
    BY <2>3, <2>4 DEF Calls
<1>18. CASE GiveUp
  <2>1. Restart /\ events = <<>> /\ \A c \in Call : phase[c] \notin InProgress
    BY <1>18 DEF GiveUp, Serial, TypeOK
  <2>2. \A i \in Nat : \A c \in Call : ~At(i, "CALL_CLOSED", c)
    BY <2>1 DEF At
  <2>3. QED
    BY <2>1, <2>2, RestartKeeps DEF Calls
<1>19. CASE DropEvent
  <2>1. SameCalls
    BY <1>19 DEF DropEvent, SameCalls, TypeOK
  <2>2. Shifted(1)
    <3>1. \A i \in Nat : \A u, m : At(i, u, m)' <=> i # 0 /\ At(i + 1, u, m)
      BY <1>19, Takes DEF DropEvent
    <3>2. \A i \in Nat : \A c \in Call : ~At(i, "CALL_ACK", c) /\ ~At(i, "CALL_CLOSED", c)
      BY <1>19 DEF DropEvent, Offline
    <3>3. QED
      BY <3>1, <3>2 DEF Shifted
  <2>3. Closes' /\ Acks' /\ Named' /\ Current' /\ Dids'
    BY <2>1, <2>2, CallsKept
  <2>4. Alone'
    BY <1>19 DEF DropEvent, Alone, Serial, InProgress, TypeOK
  <2>5. QED
    BY <2>3, <2>4 DEF Calls
<1>20. CASE Registered
  <2>1. SameCalls
    BY <1>20 DEF Registered, SameCalls, TypeOK
  <2>2. Shifted(0)
    BY <1>20 DEF Registered, Shifted, At
  <2>3. Closes' /\ Acks' /\ Named' /\ Current' /\ Dids'
    BY <2>1, <2>2, CallsKept
  <2>4. Alone'
    BY <1>20 DEF Registered, Alone, Serial, InProgress, TypeOK
  <2>5. QED
    BY <2>3, <2>4 DEF Calls
<1>21. CASE UNCHANGED vars
  <2>1. SameCalls /\ Shifted(0)
    BY <1>21 DEF vars, SameCalls, Shifted, At
  <2>2. Alone'
    BY <1>21 DEF vars, Alone
  <2>3. QED
    BY <2>1, <2>2, CallsKept DEF Calls
<1>22. QED
  BY <1>1, <1>2, <1>3, <1>4, <1>5, <1>6, <1>7, <1>8, <1>9, <1>10, <1>11, <1>12,
     <1>13, <1>14, <1>15, <1>16, <1>17, <1>18, <1>19, <1>20, <1>21
  DEF Next, Server, ProcessEvent

-----------------------------------------------------------------------------
LEMMA AwaitTypes ==
  /\ DOMAIN Awaits = {"MESSAGE_NEW", "MESSAGE_ANSWERED", "CALL_ANSWERED"}
  /\ Awaits["MESSAGE_NEW"] = "notified" /\ Awaits["MESSAGE_ANSWERED"] = "accepted"
  /\ Awaits["CALL_ANSWERED"] = "answered"
  BY DEF Awaits

\* Taking an event that is none of a broadcast's changes nothing for them.
LEMMA ShiftedTalks ==
  ASSUME TalkEvents, talk' = talk,
         \A i \in Nat : \A u, m : At(i, u, m)' <=> i # 0 /\ At(i + 1, u, m)
  PROVE  TalkEvents'
<1> SUFFICES ASSUME NEW i \in Nat, NEW x \in Talk, NEW t \in DOMAIN Awaits, At(i, t, x)'
             PROVE  talk[x] = Awaits[t] /\ \A j \in Nat : At(j, t, x)' => j = i
  BY DEF TalkEvents
<1>1. i + 1 \in Nat /\ At(i + 1, t, x)
  OBVIOUS
<1>2. talk[x] = Awaits[t] /\ \A j \in Nat : At(j, t, x) => j = i + 1
  BY <1>1 DEF TalkEvents
<1>3. \A j \in Nat : At(j, t, x)' => j + 1 \in Nat /\ At(j + 1, t, x)
  OBVIOUS
<1>4. QED
  BY <1>2, <1>3

\* One step keeps the events of the broadcasts in step with them.
LEMMA StepTalkEvents == TypeOK /\ TalkEvents /\ [Next]_vars => TalkEvents'
<1> SUFFICES ASSUME TypeOK, TalkEvents, [Next]_vars PROVE TalkEvents'
  OBVIOUS
<1> USE DEF idVars, talkVars, callVars, histVars
<1>1. ASSUME NEW c \in Call, NEW k \in Kind, Invite(c, k)
      PROVE  TalkEvents'
  <2>1. talk' = talk
    BY <1>1 DEF Invite
  <2>2. \A i \in Nat : \A b \in Talk : \A t \in DOMAIN Awaits : At(i, t, b)' <=> At(i, t, b)
    BY <1>1, Posts, AwaitTypes DEF Invite
  <2>3. QED
    BY <2>1, <2>2 DEF TalkEvents
<1>2. ASSUME NEW c \in Call, Cancel(c)
      PROVE  TalkEvents'
  <2>1. talk' = talk
    BY <1>2 DEF Cancel
  <2>2. \A i \in Nat : \A b \in Talk : \A t \in DOMAIN Awaits : At(i, t, b)' <=> At(i, t, b)
    BY <1>2 DEF Cancel, At
  <2>3. QED
    BY <2>1, <2>2 DEF TalkEvents
<1>3. ASSUME NEW c \in Call, Ack(c)
      PROVE  TalkEvents'
  <2>1. talk' = talk
    BY <1>3 DEF Ack
  <2>2. \A i \in Nat : \A b \in Talk : \A t \in DOMAIN Awaits : At(i, t, b)' <=> At(i, t, b)
    BY <1>3, Posts, AwaitTypes DEF Ack
  <2>3. QED
    BY <2>1, <2>2 DEF TalkEvents
<1>4. ASSUME NEW c \in Call, Bye(c)
      PROVE  TalkEvents'
  <2>1. talk' = talk
    BY <1>4 DEF Bye
  <2>2. \A i \in Nat : \A b \in Talk : \A t \in DOMAIN Awaits : At(i, t, b)' <=> At(i, t, b)
    BY <1>4, Posts, AwaitTypes DEF Bye
  <2>3. QED
    BY <2>1, <2>2 DEF TalkEvents
<1>5. ASSUME NEW c \in Call, Release(c)
      PROVE  TalkEvents'
  <2>1. talk' = talk
    BY <1>5 DEF Release
  <2>2. \A i \in Nat : \A b \in Talk : \A t \in DOMAIN Awaits : At(i, t, b)' <=> At(i, t, b)
    BY <1>5, Posts, AwaitTypes DEF Release
  <2>3. QED
    BY <2>1, <2>2 DEF TalkEvents
<1>6. ASSUME NEW b \in Talk, Broadcast(b)
      PROVE  TalkEvents'
  <2>1. talk[b] = "none" /\ talk' = [talk EXCEPT ![b] = "notified"]
    BY <1>6 DEF Broadcast
  <2>2. \A i \in Nat : \A u, m :
          At(i, u, m)' <=> At(i, u, m) \/ (i = Len(events) + 1 /\ u = "MESSAGE_NEW" /\ m = b)
    BY <1>6, Posts DEF Broadcast
  <2>3. QED
    BY <2>1, <2>2, AwaitTypes DEF TalkEvents, TypeOK, Awaits
<1>7. ASSUME NEW b \in Talk, ReplyAnswered(b)
      PROVE  TalkEvents'
  <2>1. talk[b] = "replied"
    BY <1>7 DEF ReplyAnswered
  <2>2. CASE talk' = [talk EXCEPT ![b] = "accepted"] /\ Post("MESSAGE_ANSWERED", b)
    <3>1. \A i \in Nat : \A u, m :
            At(i, u, m)' <=> At(i, u, m) \/ (i = Len(events) + 1 /\ u = "MESSAGE_ANSWERED" /\ m = b)
      BY <2>2, Posts
    <3>2. QED
      BY <2>1, <2>2, <3>1, AwaitTypes DEF TalkEvents, TypeOK, Awaits
  <2>3. CASE talk' = [talk EXCEPT ![b] = "ended"] /\ UNCHANGED events
    BY <2>1, <2>3, AwaitTypes DEF TalkEvents, TypeOK, Awaits, At
  <2>4. QED
    BY <1>7, <2>2, <2>3 DEF ReplyAnswered
<1>8. ASSUME NEW b \in Talk, TalkAnswered(b)
      PROVE  TalkEvents'
  <2>1. talk[b] = "inviting"
    BY <1>8 DEF TalkAnswered
  <2>2. CASE talk' = [talk EXCEPT ![b] = "answered"] /\ Post("CALL_ANSWERED", b)
    <3>1. \A i \in Nat : \A u, m :
            At(i, u, m)' <=> At(i, u, m) \/ (i = Len(events) + 1 /\ u = "CALL_ANSWERED" /\ m = b)
      BY <2>2, Posts
    <3>2. QED
      BY <2>1, <2>2, <3>1, AwaitTypes DEF TalkEvents, TypeOK, Awaits
  <2>3. CASE talk' = [talk EXCEPT ![b] = "closed"] /\ UNCHANGED events
    BY <2>1, <2>3, AwaitTypes DEF TalkEvents, TypeOK, Awaits, At
  <2>4. QED
    BY <1>8, <2>2, <2>3 DEF TalkAnswered
<1>9. ASSUME NEW b \in Talk, TalkBye(b)
      PROVE  TalkEvents'
  <2>1. talk[b] = "talking" /\ talk' = [talk EXCEPT ![b] = "closed"]
    BY <1>9 DEF TalkBye
  <2>2. \A i \in Nat : \A u, m :
          At(i, u, m)' <=> At(i, u, m) \/ (i = Len(events) + 1 /\ u = "CALL_CLOSED" /\ m = 0)
    BY <1>9, Posts DEF TalkBye
  <2>3. QED
    BY <2>1, <2>2, AwaitTypes DEF TalkEvents, TypeOK, Awaits
<1>10. ASSUME NEW b \in Talk, TalkRelease(b)
      PROVE  TalkEvents'
  <2>1. talk[b] = "closed" /\ talk' = [talk EXCEPT ![b] = "ended"]
    BY <1>10 DEF TalkRelease
  <2>2. \A i \in Nat : \A u, m :
          At(i, u, m)' <=> At(i, u, m) \/ (i = Len(events) + 1 /\ u = "CALL_RELEASED" /\ m = 0)
    BY <1>10, Posts DEF TalkRelease
  <2>3. QED
    BY <2>1, <2>2, AwaitTypes DEF TalkEvents, TypeOK, Awaits
<1>11. ASSUME NEW c \in Call, OnInvite(c)
      PROVE  TalkEvents'
  <2>1. talk' = talk
    BY <1>11 DEF OnInvite
  <2>2. \A i \in Nat : \A u, m : At(i, u, m)' <=> i # 0 /\ At(i + 1, u, m)
    BY <1>11, HandlesFirst DEF OnInvite
  <2>3. QED
    BY <2>1, <2>2, ShiftedTalks
<1>12. ASSUME NEW c \in Call, OnAck(c)
      PROVE  TalkEvents'
  <2>1. talk' = talk
    BY <1>12 DEF OnAck
  <2>2. \A i \in Nat : \A u, m : At(i, u, m)' <=> i # 0 /\ At(i + 1, u, m)
    BY <1>12, HandlesFirst DEF OnAck
  <2>3. QED
    BY <2>1, <2>2, ShiftedTalks
<1>13. ASSUME NEW c \in Call \cup {0}, OnClosed(c)
      PROVE  TalkEvents'
  <2>1. talk' = talk
    BY <1>13 DEF OnClosed
  <2>2. \A i \in Nat : \A u, m : At(i, u, m)' <=> i # 0 /\ At(i + 1, u, m)
    BY <1>13, HandlesFirst DEF OnClosed
  <2>3. QED
    BY <2>1, <2>2, ShiftedTalks
<1>14. CASE OnReleased
  <2>1. \A i \in Nat : \A u, m : ~At(i, u, m)'
    BY <1>14, Empties DEF OnReleased, Restart
  <2>2. QED
    BY <2>1 DEF TalkEvents
<1>15. ASSUME NEW b \in Talk, OnBroadcast(b)
      PROVE  TalkEvents'
  <2>1. /\ At(1, "MESSAGE_NEW", b)
        /\ \A i \in Nat : \A u, m : At(i, u, m)' <=> i # 0 /\ At(i + 1, u, m)
    BY <1>15, HandlesFirst DEF OnBroadcast
  <2>2. talk' = [talk EXCEPT ![b] = "replied"]
    BY <1>15 DEF OnBroadcast
  <2>3. \A i \in Nat : \A t \in DOMAIN Awaits : At(i, t, b) => i = 1
    BY <2>1, AwaitTypes DEF TalkEvents, Awaits
  <2>4. \A i \in Nat : \A t \in DOMAIN Awaits : ~At(i, t, b)'
    <3> SUFFICES ASSUME NEW i \in Nat, NEW t \in DOMAIN Awaits, At(i, t, b)' PROVE FALSE
      OBVIOUS
    <3>1. i # 0 /\ i + 1 \in Nat /\ At(i + 1, t, b)
      BY <2>1
    <3>2. QED
      BY <2>3, <3>1
  <2>5. QED
    <3> SUFFICES ASSUME NEW i \in Nat, NEW x \in Talk, NEW t \in DOMAIN Awaits, At(i, t, x)'
                 PROVE  talk'[x] = Awaits[t] /\ \A j \in Nat : At(j, t, x)' => j = i
      BY DEF TalkEvents
    <3>1. x # b
      BY <2>4
    <3>2. talk'[x] = talk[x] /\ i + 1 \in Nat /\ At(i + 1, t, x)
      BY <2>1, <2>2, <3>1 DEF TypeOK
    <3>3. talk[x] = Awaits[t] /\ \A j \in Nat : At(j, t, x) => j = i + 1
      BY <3>2 DEF TalkEvents
    <3>4. \A j \in Nat : At(j, t, x)' => j + 1 \in Nat /\ At(j + 1, t, x)
      BY <2>1
    <3>5. QED
      BY <3>2, <3>3, <3>4
<1>16. ASSUME NEW b \in Talk, OnReplyAnswered(b)
      PROVE  TalkEvents'
  <2>1. /\ At(1, "MESSAGE_ANSWERED", b)
        /\ \A i \in Nat : \A u, m : At(i, u, m)' <=> i # 0 /\ At(i + 1, u, m)
    BY <1>16, HandlesFirst DEF OnReplyAnswered
  <2>2. talk' = [talk EXCEPT ![b] = "inviting"]
    BY <1>16 DEF OnReplyAnswered
  <2>3. \A i \in Nat : \A t \in DOMAIN Awaits : At(i, t, b) => i = 1
    BY <2>1, AwaitTypes DEF TalkEvents, Awaits
  <2>4. \A i \in Nat : \A t \in DOMAIN Awaits : ~At(i, t, b)'
    <3> SUFFICES ASSUME NEW i \in Nat, NEW t \in DOMAIN Awaits, At(i, t, b)' PROVE FALSE
      OBVIOUS
    <3>1. i # 0 /\ i + 1 \in Nat /\ At(i + 1, t, b)
      BY <2>1
    <3>2. QED
      BY <2>3, <3>1
  <2>5. QED
    <3> SUFFICES ASSUME NEW i \in Nat, NEW x \in Talk, NEW t \in DOMAIN Awaits, At(i, t, x)'
                 PROVE  talk'[x] = Awaits[t] /\ \A j \in Nat : At(j, t, x)' => j = i
      BY DEF TalkEvents
    <3>1. x # b
      BY <2>4
    <3>2. talk'[x] = talk[x] /\ i + 1 \in Nat /\ At(i + 1, t, x)
      BY <2>1, <2>2, <3>1 DEF TypeOK
    <3>3. talk[x] = Awaits[t] /\ \A j \in Nat : At(j, t, x) => j = i + 1
      BY <3>2 DEF TalkEvents
    <3>4. \A j \in Nat : At(j, t, x)' => j + 1 \in Nat /\ At(j + 1, t, x)
      BY <2>1
    <3>5. QED
      BY <3>2, <3>3, <3>4
<1>17. ASSUME NEW b \in Talk, OnTalkAnswered(b)
      PROVE  TalkEvents'
  <2>1. /\ At(1, "CALL_ANSWERED", b)
        /\ \A i \in Nat : \A u, m : At(i, u, m)' <=> i # 0 /\ At(i + 1, u, m)
    BY <1>17, HandlesFirst DEF OnTalkAnswered
  <2>2. talk' = [talk EXCEPT ![b] = "talking"]
    BY <1>17 DEF OnTalkAnswered
  <2>3. \A i \in Nat : \A t \in DOMAIN Awaits : At(i, t, b) => i = 1
    BY <2>1, AwaitTypes DEF TalkEvents, Awaits
  <2>4. \A i \in Nat : \A t \in DOMAIN Awaits : ~At(i, t, b)'
    <3> SUFFICES ASSUME NEW i \in Nat, NEW t \in DOMAIN Awaits, At(i, t, b)' PROVE FALSE
      OBVIOUS
    <3>1. i # 0 /\ i + 1 \in Nat /\ At(i + 1, t, b)
      BY <2>1
    <3>2. QED
      BY <2>3, <3>1
  <2>5. QED
    <3> SUFFICES ASSUME NEW i \in Nat, NEW x \in Talk, NEW t \in DOMAIN Awaits, At(i, t, x)'
                 PROVE  talk'[x] = Awaits[t] /\ \A j \in Nat : At(j, t, x)' => j = i
      BY DEF TalkEvents
    <3>1. x # b
      BY <2>4
    <3>2. talk'[x] = talk[x] /\ i + 1 \in Nat /\ At(i + 1, t, x)
      BY <2>1, <2>2, <3>1 DEF TypeOK
    <3>3. talk[x] = Awaits[t] /\ \A j \in Nat : At(j, t, x) => j = i + 1
      BY <3>2 DEF TalkEvents
    <3>4. \A j \in Nat : At(j, t, x)' => j + 1 \in Nat /\ At(j + 1, t, x)
      BY <2>1
    <3>5. QED
      BY <3>2, <3>3, <3>4
<1>18. CASE GiveUp
  <2>1. \A i \in Nat : \A u, m : ~At(i, u, m)'
    BY <1>18, Empties DEF GiveUp, Restart
  <2>2. QED
    BY <2>1 DEF TalkEvents
<1>19. CASE DropEvent
  <2>1. talk' = talk
    BY <1>19 DEF DropEvent
  <2>2. \A i \in Nat : \A u, m : At(i, u, m)' <=> i # 0 /\ At(i + 1, u, m)
    BY <1>19, Takes DEF DropEvent
  <2>3. QED
    BY <2>1, <2>2, ShiftedTalks
<1>20. CASE Registered
  <2>1. talk' = talk
    BY <1>20 DEF Registered
  <2>2. \A i \in Nat : \A b \in Talk : \A t \in DOMAIN Awaits : At(i, t, b)' <=> At(i, t, b)
    BY <1>20 DEF Registered, At
  <2>3. QED
    BY <2>1, <2>2 DEF TalkEvents
<1>21. CASE UNCHANGED vars
  BY <1>21 DEF vars, TalkEvents, At
<1>22. QED
  BY <1>1, <1>2, <1>3, <1>4, <1>5, <1>6, <1>7, <1>8, <1>9, <1>10, <1>11, <1>12,
     <1>13, <1>14, <1>15, <1>16, <1>17, <1>18, <1>19, <1>20, <1>21
  DEF Next, Server, ProcessEvent

\* One step keeps the target the broadcast's own.
LEMMA StepTalks == TypeOK /\ TalkEvents /\ TalkInv /\ [Next]_vars => TalkInv'
<1> SUFFICES ASSUME TypeOK, TalkEvents, TalkInv, [Next]_vars PROVE TalkInv'
  OBVIOUS
<1> USE DEF idVars, talkVars, callVars, histVars
<1>1. ASSUME NEW c \in Call, NEW k \in Kind, Invite(c, k)
      PROVE  TalkInv'
  BY <1>1 DEF Invite, TalkInv
<1>2. ASSUME NEW c \in Call, Cancel(c)
      PROVE  TalkInv'
  BY <1>2 DEF Cancel, TalkInv
<1>3. ASSUME NEW c \in Call, Ack(c)
      PROVE  TalkInv'
  BY <1>3 DEF Ack, TalkInv
<1>4. ASSUME NEW c \in Call, Bye(c)
      PROVE  TalkInv'
  BY <1>4 DEF Bye, TalkInv
<1>5. ASSUME NEW c \in Call, Release(c)
      PROVE  TalkInv'
  BY <1>5 DEF Release, TalkInv
<1>6. ASSUME NEW b \in Talk, Broadcast(b)
      PROVE  TalkInv'
  BY <1>6 DEF Broadcast, TalkInv, Talking, TypeOK
<1>7. ASSUME NEW b \in Talk, ReplyAnswered(b)
      PROVE  TalkInv'
  BY <1>7 DEF ReplyAnswered, TalkInv, Talking, TypeOK
<1>8. ASSUME NEW b \in Talk, TalkAnswered(b)
      PROVE  TalkInv'
  BY <1>8 DEF TalkAnswered, TalkInv, Talking, TypeOK
<1>9. ASSUME NEW b \in Talk, TalkBye(b)
      PROVE  TalkInv'
  BY <1>9 DEF TalkBye, TalkInv, Talking, TypeOK
<1>10. ASSUME NEW b \in Talk, TalkRelease(b)
      PROVE  TalkInv'
  BY <1>10 DEF TalkRelease, TalkInv, Talking, TypeOK
<1>11. ASSUME NEW c \in Call, OnInvite(c)
      PROVE  TalkInv'
  BY <1>11 DEF OnInvite, TalkInv
<1>12. ASSUME NEW c \in Call, OnAck(c)
      PROVE  TalkInv'
  BY <1>12 DEF OnAck, TalkInv
<1>13. ASSUME NEW c \in Call \cup {0}, OnClosed(c)
      PROVE  TalkInv'
  BY <1>13 DEF OnClosed, TalkInv
<1>14. CASE OnReleased
  BY <1>14 DEF OnReleased, Restart, TalkInv, Talking
<1>15. ASSUME NEW b \in Talk, OnBroadcast(b)
      PROVE  TalkInv'
  <2>1. talk[b] = "notified"
    BY <1>15, HandlesFirst, AwaitTypes DEF OnBroadcast, TalkEvents
  <2>2. QED
    BY <1>15, <2>1 DEF OnBroadcast, TalkInv, Talking, TypeOK
<1>16. ASSUME NEW b \in Talk, OnReplyAnswered(b)
      PROVE  TalkInv'
  <2>1. talk[b] = "accepted"
    BY <1>16, HandlesFirst, AwaitTypes DEF OnReplyAnswered, TalkEvents
  <2>2. QED
    BY <1>16, <2>1 DEF OnReplyAnswered, TalkInv, Talking, TypeOK
<1>17. ASSUME NEW b \in Talk, OnTalkAnswered(b)
      PROVE  TalkInv'
  <2>1. talk[b] = "answered"
    BY <1>17, HandlesFirst, AwaitTypes DEF OnTalkAnswered, TalkEvents
  <2>2. QED
    BY <1>17, <2>1 DEF OnTalkAnswered, TalkInv, Talking, TypeOK
<1>18. CASE GiveUp
  BY <1>18 DEF GiveUp, Restart, TalkInv, Talking
<1>19. CASE DropEvent
  BY <1>19 DEF DropEvent, TalkInv
<1>20. CASE Registered
  BY <1>20 DEF Registered, TalkInv
<1>21. CASE UNCHANGED vars
  BY <1>21 DEF vars, TalkInv
<1>22. QED
  BY <1>1, <1>2, <1>3, <1>4, <1>5, <1>6, <1>7, <1>8, <1>9, <1>10, <1>11, <1>12,
     <1>13, <1>14, <1>15, <1>16, <1>17, <1>18, <1>19, <1>20, <1>21
  DEF Next, Server, ProcessEvent

-----------------------------------------------------------------------------
LEMMA InitIInv == Init => IInv
<1> SUFFICES ASSUME Init PROVE IInv
  OBVIOUS
<1> USE DEF Init
<1>1. \A i \in Nat : \A u, m : ~At(i, u, m)
  BY DEF At
<1>2. TypeOK
  <2>1. events \in Seq(Event) /\ audio \in (Talk \cup {0}) \X (Talk \cup {0})
    OBVIOUS
  <2>2. phase \in [Call -> Phase] /\ kind \in [Call -> Kind] /\ talk \in [Talk -> TalkPhase]
    BY DEF Phase, TalkPhase, Kind
  <2>3. giveups \in 0..MaxGiveUp
    BY CallBounds
  <2>4. QED
    BY <2>1, <2>2, <2>3 DEF TypeOK
<1>3. Offline /\ TalkEvents
  BY <1>1 DEF Offline, TalkEvents
<1>4. CallInv
  BY <1>1 DEF CallInv, Calls, Alone, InProgress, Closes, Acks, Named, Current, Dids
<1>5. TalkInv
  BY DEF TalkInv, Talking
<1>6. QED
  BY <1>2, <1>3, <1>4, <1>5 DEF IInv

LEMMA StepIInv == IInv /\ [Next]_vars => IInv'
  BY StepTypes, StepOffline, StepCalls, StepTalkEvents, StepTalks DEF IInv

LEMMA Invariant == Spec => []IInv
  BY InitIInv, StepIInv, PTL DEF Spec

\* The types hold for any number of calls, broadcasts and restarts.
THEOREM TypeCorrect == Spec => []TypeOK
<1>1. IInv => TypeOK
  BY DEF IInv
<1>2. QED
  BY <1>1, Invariant, PTL

\* With a server that has one call at a time the ids are exact, however far the
\* event loop lags behind.
THEOREM IdsExactAlways == Spec => []IdsExact
<1>1. IInv => IdsExact
  <2> SUFFICES ASSUME IInv, Serial
               PROVE  /\ \A c \in Call :
                           phase[c] = "confirmed" /\ kind[c] \in Session /\ ~Waiting("CALL_ACK", c)
                             => g_call_id = c
                      /\ g_call_id # 0 =>
                           phase[g_call_id] = "confirmed" \/ Waiting("CALL_CLOSED", g_call_id)
                      /\ \A s \in Session :
                           g_did[s] # 0 => g_did[s] = g_call_id /\ kind[g_call_id] = s
    BY DEF IdsExact
  <2>1. Named /\ Current /\ Dids
    BY DEF IInv, CallInv, Calls
  <2>2. \A t, n : (\E i \in Nat : At(i, t, n)) <=> Waiting(t, n)
    BY DEF At, Waiting, IInv, TypeOK
  <2>3. QED
    BY <2>1, <2>2 DEF Named, Current, Dids
<1>2. QED
  BY <1>1, Invariant, PTL

\* With one broadcast at a time the device plays the one it answered.
THEOREM AudioMatchesAlways == Spec => []AudioMatches
<1>1. IInv => AudioMatches
  BY DEF IInv, TalkInv, AudioMatches
<1>2. QED
  BY <1>1, Invariant, PTL
=============================================================================
