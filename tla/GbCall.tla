------------------------------- MODULE GbCall -------------------------------
(***************************************************************************)
(* The calls of the SIP client (anySipClient/src/main/cpp/gb_lib.cpp): the *)
(* event loop dt_eXosip_processEvent, the five global ids it keeps of the  *)
(* media calls the server opens, and the voice broadcast in which the      *)
(* device calls the server back.                                           *)
(*                                                                         *)
(* eXosip's own thread answers the network and puts events in a FIFO; the  *)
(* event loop takes them one at a time, so what it reads of a call may be  *)
(* older than the call.  A released call, or the keep-alive thread giving  *)
(* up (module GbSession), quits the whole context: every call on it is     *)
(* gone, the events not yet taken are thrown away, and the globals stay.   *)
(* Until the new context is registered the registration loop takes events  *)
(* out of the FIFO and drops them.                                         *)
(*                                                                         *)
(* eXosip numbers calls and dialogs from counters that outlive a context;  *)
(* a media call has one dialog, so one number stands for its cid and its   *)
(* did.  0 is no call.                                                     *)
(***************************************************************************)
EXTENDS Integers, Sequences

CONSTANTS
  MaxCall,     \* bound: media calls, numbered in the order of their INVITE
  MaxTalk,     \* bound: voice broadcasts
  MaxGiveUp    \* bound: restarts by the keep-alive thread

ASSUME CallBounds == MaxCall \in Nat /\ MaxTalk \in Nat /\ MaxGiveUp \in Nat

Call == 1..MaxCall
Talk == 1..MaxTalk

\* Session names the code knows; "Other" is any other name, "NoSdp" an INVITE
\* from which eXosip_get_remote_sdp gets nothing.
Session == {"Play", "Playback", "Download"}
Kind == Session \cup {"Other", "NoSdp"}

VARIABLES
  g_call_id,  \* g_call_id
  g_did,      \* g_did_realPlay, g_did_backPlay, g_did_fileDown
  target_id,  \* the broadcast whose TargetID the global buffer holds
  push,       \* the media call whose address the app streams to
  audio,      \* last rtmp address played: the broadcast and the target used
  up,         \* the event loop runs (FALSE: the stack is registering)
  events,     \* eXosip's FIFO: pairs of an event type and a number
  phase,      \* where each media call is
  kind,       \* the session name in the INVITE of each media call
  talk,       \* where each broadcast is
  giveups,    \* restarts by the keep-alive thread so far
  overlapped, \* the server has had two media calls at a time
  crossed,    \* the server has had two broadcasts at a time
  lost        \* a restart has cut a media call or thrown events away

idVars   == <<g_call_id, g_did>>
talkVars == <<target_id, audio, talk>>
callVars == <<phase, kind>>
histVars == <<overlapped, crossed, lost>>
vars == <<idVars, talkVars, callVars, histVars, push, up, events, giveups>>

InProgress == {"ringing", "answered", "confirmed"}
Phase == {"none", "refused", "closed", "ended"} \cup InProgress
Talking == {"notified", "replied", "accepted", "inviting", "answered", "talking"}
TalkPhase == {"none", "closed", "ended"} \cup Talking

Waiting(type, n) == \E i \in 1..Len(events) : events[i] = <<type, n>>

Init ==
  /\ g_call_id = 0 /\ g_did = [s \in Session |-> 0]
  /\ target_id = 0 /\ audio = <<0, 0>> /\ talk = [b \in Talk |-> "none"]
  /\ push = 0
  /\ up = FALSE /\ events = <<>> /\ giveups = 0
  /\ phase = [c \in Call |-> "none"] /\ kind = [c \in Call |-> "Other"]
  /\ overlapped = FALSE /\ crossed = FALSE /\ lost = FALSE

Post(type, n) == events' = Append(events, <<type, n>>)

(***************************************************************************)
(* The server and eXosip: what puts events in the FIFO.                    *)
(***************************************************************************)
Invite(c, k) ==
  /\ phase[c] = "none" /\ \A d \in Call : d < c => phase[d] # "none"
  /\ phase' = [phase EXCEPT ![c] = "ringing"]
  /\ kind' = [kind EXCEPT ![c] = k]
  /\ overlapped' = (overlapped \/ \E d \in Call : phase[d] \in InProgress)
  /\ Post("CALL_INVITE", c)
  /\ UNCHANGED <<idVars, talkVars, crossed, lost, push, up, giveups>>

Cancel(c) ==
  /\ phase[c] = "ringing"
  /\ phase' = [phase EXCEPT ![c] = "closed"]
  /\ UNCHANGED <<idVars, talkVars, kind, histVars, push, up, events, giveups>>

Ack(c) ==
  /\ phase[c] = "answered"
  /\ phase' = [phase EXCEPT ![c] = "confirmed"]
  /\ Post("CALL_ACK", c)
  /\ UNCHANGED <<idVars, talkVars, kind, histVars, push, up, giveups>>

Bye(c) ==
  /\ phase[c] \in {"answered", "confirmed"}
  /\ phase' = [phase EXCEPT ![c] = "closed"]
  /\ Post("CALL_CLOSED", c)
  /\ UNCHANGED <<idVars, talkVars, kind, histVars, push, up, giveups>>

\* eXosip releases a call that is over, or answered and never acknowledged.
Release(c) ==
  /\ phase[c] \in {"refused", "closed", "answered"}
  /\ phase' = [phase EXCEPT ![c] = "ended"]
  /\ Post("CALL_RELEASED", c)
  /\ UNCHANGED <<idVars, talkVars, kind, histVars, push, up, giveups>>

Broadcast(b) ==
  /\ talk[b] = "none"
  /\ talk' = [talk EXCEPT ![b] = "notified"]
  /\ crossed' = (crossed \/ \E a \in Talk : talk[a] \in Talking)
  /\ Post("MESSAGE_NEW", b)
  /\ UNCHANGED <<idVars, target_id, audio, callVars, overlapped, lost, push, up, giveups>>

\* The server accepts, or refuses, the device's reply to the broadcast.
ReplyAnswered(b) ==
  /\ talk[b] = "replied"
  /\ \/ /\ talk' = [talk EXCEPT ![b] = "accepted"]
        /\ Post("MESSAGE_ANSWERED", b)
     \/ /\ talk' = [talk EXCEPT ![b] = "ended"]
        /\ UNCHANGED events
  /\ UNCHANGED <<idVars, target_id, audio, callVars, histVars, push, up, giveups>>

TalkAnswered(b) ==
  /\ talk[b] = "inviting"
  /\ \/ /\ talk' = [talk EXCEPT ![b] = "answered"]
        /\ Post("CALL_ANSWERED", b)
     \/ /\ talk' = [talk EXCEPT ![b] = "closed"]
        /\ UNCHANGED events
  /\ UNCHANGED <<idVars, target_id, audio, callVars, histVars, push, up, giveups>>

TalkBye(b) ==
  /\ talk[b] = "talking"
  /\ talk' = [talk EXCEPT ![b] = "closed"]
  /\ Post("CALL_CLOSED", 0)
  /\ UNCHANGED <<idVars, target_id, audio, callVars, histVars, push, up, giveups>>

TalkRelease(b) ==
  /\ talk[b] = "closed"
  /\ talk' = [talk EXCEPT ![b] = "ended"]
  /\ Post("CALL_RELEASED", 0)
  /\ UNCHANGED <<idVars, target_id, audio, callVars, histVars, push, up, giveups>>

(***************************************************************************)
(* The event loop.  Taken(type, n): this iteration handles that event.     *)
(***************************************************************************)
Taken(type, n) ==
  /\ up /\ events # <<>> /\ Head(events) = <<type, n>>
  /\ events' = Tail(events)

\* Faulty variant: when no answer can be built the call is left ringing.
OnInviteSilent(c) ==
  /\ Taken("CALL_INVITE", c)
  /\ \E p \in {"answered", phase[c]} :
       phase' = [phase EXCEPT ![c] = IF @ = "ringing" THEN p ELSE @]
  /\ UNCHANGED <<idVars, talkVars, kind, histVars, push, up, giveups>>

\* EXOSIP_CALL_INVITE: 200 with our SDP, or 603 when no answer can be built.
OnInvite(c) ==
  /\ Taken("CALL_INVITE", c)
  /\ \/ /\ phase[c] = "ringing"
        /\ \E p \in {"answered", "refused"} : phase' = [phase EXCEPT ![c] = p]
     \/ \* cancelled meanwhile: there is nothing left to answer
        /\ phase[c] # "ringing" /\ UNCHANGED phase
  /\ UNCHANGED <<idVars, talkVars, kind, histVars, push, up, giveups>>

\* Faulty variant: the dialog is stored under whatever name the session has.
OnAckAnyName(c) ==
  /\ Taken("CALL_ACK", c)
  /\ g_call_id' = c /\ push' = c
  /\ g_did' = [s \in Session \cup {kind[c]} |-> IF s = kind[c] THEN c ELSE g_did[s]]
  /\ UNCHANGED <<talkVars, callVars, histVars, up, giveups>>

\* dt_eXosip_paraseInviteBody, on the ACK.  A call that is closed already may
\* have lost its description.
OnAck(c) ==
  /\ Taken("CALL_ACK", c)
  /\ \/ /\ kind[c] # "NoSdp"
        /\ g_call_id' = c
        /\ g_did' = [s \in Session |-> IF s = kind[c] THEN c ELSE g_did[s]]
        /\ push' = c
     \/ /\ kind[c] = "NoSdp" \/ phase[c] # "confirmed"
        /\ UNCHANGED <<idVars, push>>
  /\ UNCHANGED <<talkVars, callVars, histVars, up, giveups>>

\* Faulty variant: the call id is not cleared with the last dialog id.
OnClosedKeepsCall(c) ==
  /\ Taken("CALL_CLOSED", c)
  /\ g_did' = [s \in Session |-> IF c # 0 /\ g_did[s] = c THEN 0 ELSE g_did[s]]
  /\ UNCHANGED <<g_call_id, talkVars, callVars, histVars, push, up, giveups>>

\* EXOSIP_CALL_CLOSED: the first id that names the call is cleared, and the
\* call id with the last of them.
OnClosed(c) ==
  /\ Taken("CALL_CLOSED", c)
  /\ g_did' = [s \in Session |-> IF c # 0 /\ g_did[s] = c THEN 0 ELSE g_did[s]]
  /\ g_call_id' = IF \A s \in Session : g_did'[s] = 0 THEN 0 ELSE g_call_id
  /\ UNCHANGED <<talkVars, callVars, histVars, push, up, giveups>>

\* A new context: nothing of the old one is left but the globals.
Restart ==
  /\ up' = FALSE
  /\ events' = <<>>
  /\ phase' = [c \in Call |-> IF phase[c] = "none" THEN "none" ELSE "ended"]
  /\ talk' = [b \in Talk |-> IF talk[b] = "none" THEN "none" ELSE "ended"]
  /\ UNCHANGED <<idVars, target_id, audio, kind, overlapped, crossed, push>>

\* EXOSIP_CALL_RELEASED of any call, media or broadcast.
OnReleased ==
  /\ up /\ events # <<>> /\ Head(events)[1] = "CALL_RELEASED"
  /\ lost' = (lost \/ Len(events) > 1 \/ \E c \in Call : phase[c] \in InProgress)
  /\ Restart
  /\ UNCHANGED giveups

\* The keep-alive thread gives up on the registration.
GiveUp ==
  /\ up /\ giveups < MaxGiveUp
  /\ giveups' = giveups + 1
  /\ lost' = (lost \/ events # <<>> \/ \E c \in Call : phase[c] \in InProgress)
  /\ Restart

\* Faulty variant: the first TargetID is kept for good.
OnBroadcastFirst(b) ==
  /\ Taken("MESSAGE_NEW", b)
  /\ target_id' = IF target_id = 0 THEN b ELSE target_id
  /\ talk' = [talk EXCEPT ![b] = "replied"]
  /\ UNCHANGED <<idVars, audio, callVars, histVars, push, up, giveups>>

\* A Broadcast message: its TargetID is kept, and the device replies.
OnBroadcast(b) ==
  /\ Taken("MESSAGE_NEW", b)
  /\ target_id' = b
  /\ talk' = [talk EXCEPT ![b] = "replied"]
  /\ UNCHANGED <<idVars, audio, callVars, histVars, push, up, giveups>>

\* The reply was accepted: the device calls the server.
OnReplyAnswered(b) ==
  /\ Taken("MESSAGE_ANSWERED", b)
  /\ talk' = [talk EXCEPT ![b] = "inviting"]
  /\ UNCHANGED <<idVars, target_id, audio, callVars, histVars, push, up, giveups>>

\* The server's 200: the address is built from the target kept and played.
OnTalkAnswered(b) ==
  /\ Taken("CALL_ANSWERED", b)
  /\ audio' = <<b, target_id>>
  /\ talk' = [talk EXCEPT ![b] = "talking"]
  /\ UNCHANGED <<idVars, target_id, callVars, histVars, push, up, giveups>>

(***************************************************************************)
(* dt_eXosip_register on the new context.                                  *)
(***************************************************************************)
DropEvent ==
  /\ ~up /\ events # <<>>
  /\ events' = Tail(events)
  /\ UNCHANGED <<idVars, talkVars, callVars, histVars, push, up, giveups>>

Registered ==
  /\ ~up /\ up' = TRUE
  /\ UNCHANGED <<idVars, talkVars, callVars, histVars, push, events, giveups>>

Server ==
  \/ \E c \in Call :
       \/ \E k \in Kind : Invite(c, k)
       \/ Cancel(c) \/ Ack(c) \/ Bye(c) \/ Release(c)
  \/ \E b \in Talk :
       Broadcast(b) \/ ReplyAnswered(b) \/ TalkAnswered(b) \/ TalkBye(b) \/ TalkRelease(b)

ProcessEvent ==
  \/ \E c \in Call : OnInvite(c) \/ OnAck(c)
  \/ \E c \in Call \cup {0} : OnClosed(c)
  \/ OnReleased
  \/ \E b \in Talk : OnBroadcast(b) \/ OnReplyAnswered(b) \/ OnTalkAnswered(b)

Next == Server \/ ProcessEvent \/ GiveUp \/ DropEvent \/ Registered

Spec == Init /\ [][Next]_vars

(***************************************************************************)
(* The thread of the event loop is scheduled; whether and when the server  *)
(* calls, answers or hangs up is its own business.                         *)
(***************************************************************************)
FairSpec == Spec /\ WF_vars(ProcessEvent)

-----------------------------------------------------------------------------
Event ==
  ({"CALL_INVITE", "CALL_ACK", "CALL_CLOSED", "CALL_RELEASED"} \X (Call \cup {0}))
    \cup ({"MESSAGE_NEW", "MESSAGE_ANSWERED", "CALL_ANSWERED"} \X Talk)

\* Every variable has its type.
TypeOK ==
  /\ g_call_id \in Call \cup {0} /\ g_did \in [Session -> Call \cup {0}]
  /\ target_id \in Talk \cup {0} /\ audio \in (Talk \cup {0}) \X (Talk \cup {0})
  /\ push \in Call \cup {0} /\ up \in BOOLEAN /\ events \in Seq(Event)
  /\ phase \in [Call -> Phase] /\ kind \in [Call -> Kind] /\ talk \in [Talk -> TalkPhase]
  /\ giveups \in 0..MaxGiveUp
  /\ overlapped \in BOOLEAN /\ crossed \in BOOLEAN /\ lost \in BOOLEAN

(***************************************************************************)
(* A server that has one media call at a time, and no restart has cut one. *)
(***************************************************************************)
Serial == ~overlapped /\ ~lost

(***************************************************************************)
(* With such a server the ids are exact although the loop lags behind the  *)
(* network: an acknowledged call of a session the code knows is named as   *)
(* soon as its ACK is handled, also after the BYE of a broadcast (which    *)
(* does take the name of any other call), no id outlives the handling of   *)
(* its BYE, and the dialog ids agree with the call id and the session.     *)
(***************************************************************************)
IdsExact ==
  Serial =>
    /\ \A c \in Call :
         phase[c] = "confirmed" /\ kind[c] \in Session /\ ~Waiting("CALL_ACK", c)
           => g_call_id = c
    /\ g_call_id # 0 =>
         phase[g_call_id] = "confirmed" \/ Waiting("CALL_CLOSED", g_call_id)
    /\ \A s \in Session : g_did[s] # 0 => g_did[s] = g_call_id /\ kind[g_call_id] = s

(***************************************************************************)
(* If the server never has two broadcasts at a time, the sound the device  *)
(* plays is that of the broadcast it answered, across restarts too: the    *)
(* one global TargetID cannot have been overwritten in between.            *)
(***************************************************************************)
AudioMatches == ~crossed => audio[1] = audio[2]

(***************************************************************************)
(* A ringing call is answered, refused or cancelled, unless the stack is   *)
(* registering, which drops the INVITE.                                    *)
(***************************************************************************)
InviteHandled ==
  \A c \in Call :
    (up /\ Waiting("CALL_INVITE", c)) ~> (~Waiting("CALL_INVITE", c) /\ (phase[c] # "ringing" \/ ~up))

=============================================================================
