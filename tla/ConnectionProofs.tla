-------------------------- MODULE ConnectionProofs --------------------------
(***************************************************************************)
(* Proofs about what keeps a client connected: the heartbeat that notices a *)
(* tunnel that is gone, and the client's reconnect loop.                    *)
(*                                                                          *)
(* Heartbeat, for any intervals, delays and queues within the assumptions.  *)
(* A dead peer is noticed in time because unread pings are an interval      *)
(* apart, so the deadline passes before they fill the window and the        *)
(* heartbeat waits in a write (BeatInv).  No alarm is false because the     *)
(* next ping, or its pong wherever it is, is young enough for the deadline  *)
(* that waits for it (NextPing, NextPong).                                  *)
(*                                                                          *)
(* ClientReconnect, for any servers, caps, backoff constants and integer    *)
(* widths.  The counter and the retries of an outage agree at every attempt *)
(* although a lost tunnel leaves the counter behind, because the one error  *)
(* that comes from a tunnel resets it (CountInv).  The baseline is the      *)
(* session's own parameters from the check on, and agrees with the first    *)
(* one in all that may not change (ParamsInv).                              *)
(***************************************************************************)
EXTENDS Heartbeat, ClientReconnect, Integers, TLAPS

(* The heartbeat. *)

Frame == [kind : {"pong", "addrs"}, age : Nat]

\* Both sides run and the path delivers; the server reads; the client does or will.
Live == client = "up" /\ server = "up" /\ ~cut
ServerReads == server = "up" /\ ~cut
ClientReads == Present /\ ~cut

BeatType ==
  /\ client \in {"setup", "up", "timed_out", "closed", "ended"}
  /\ server \in {"up", "hung", "timed_out", "closed", "ended"}
  /\ cut \in BOOLEAN
  /\ ticker \in 0..HEARTBEAT_INTERVAL /\ publish \in Nat
  /\ c_deadline \in 0..HEARTBEAT_TIMEOUT /\ s_deadline \in 0..HEARTBEAT_TIMEOUT
  /\ pings \in Seq(Nat) /\ pongs \in Seq(Frame) /\ control \in Seq(Frame)
  /\ unread \in Nat /\ pong_rx \in Nat /\ changes \in 0..MaxChanges
  /\ setup \in Nat /\ c_silent \in Nat /\ s_silent \in Nat

\* Nothing is under way to the server before the heartbeat starts.
Before ==
  client = "setup" => pings = <<>> /\ unread = 0 /\ pong_rx = 0 /\ c_silent = 0

\* No frame under way is late, and none is younger than the silence of its sender.
InTime ==
  /\ Live => c_silent = 0
  /\ ServerReads =>
       /\ Present => s_silent = 0
       /\ unread = Len(pings)
       /\ \A i \in 1..Len(pings) : s_silent <= pings[i] /\ pings[i] <= MaxDelay
       /\ \A i \in 1..Len(control) : control[i].age <= MaxDelay
  /\ ClientReads =>
       \A i \in 1..Len(pongs) : c_silent <= pongs[i].age /\ pongs[i].age <= MaxDelay

\* The time from the first of n pings to the one after the last.
Span(n) == n * HEARTBEAT_INTERVAL

\* Pings are an interval apart.
Spaced ==
  Live => \A i \in 1..Len(pings) : Span(Len(pings) - i + 1) <= pings[i] + ticker

\* What has not been read was sent during the silence and MaxDelay before it.
Window == client = "up" => Span(unread) <= MaxDelay + c_silent + ticker

\* A deadline runs out when the timeout and MaxDelay have passed in silence.
Quiet ==
  /\ client = "up" => /\ c_deadline + c_silent <= HEARTBEAT_TIMEOUT + MaxDelay
                      /\ pong_rx > 0 => c_silent <= MaxDelay
  /\ server = "up" => s_deadline + s_silent <= HEARTBEAT_TIMEOUT + MaxDelay

BeatInv == BeatType /\ Before /\ InTime /\ Spaced /\ Window /\ Quiet

\* The longest the server waits from one ping's sending, or its response, to the next.
Gap == IF setup > HEARTBEAT_INTERVAL THEN setup ELSE HEARTBEAT_INTERVAL

\* The server's deadline was re-armed no earlier than the ping before the next was
\* sent, and armed with the response.
NextPing ==
  /\ client = "setup" /\ server = "up" => s_deadline + setup = HEARTBEAT_TIMEOUT
  /\ Live => IF pings = <<>>
             THEN s_deadline + Gap >= HEARTBEAT_TIMEOUT + ticker
             ELSE s_deadline + Gap + pings[1] >= HEARTBEAT_TIMEOUT
  /\ server = "timed_out" => cut \/ ~Present \/ SlowSetup

\* Publications alone do not fill the control queue when a ping waits for its pong.
RoomForPong ==
  ServerReads /\ pings # <<>> =>
    \/ Len(control) < CONTROL_CHANNEL_SIZE
    \/ \E i \in 1..Len(control) : control[i].kind = "pong"

\* One of these frames is the pong that re-arms the deadline in time.
PongAmong(s) ==
  \E i \in 1..Len(s) :
    /\ s[i].kind = "pong"
    /\ c_deadline + s[i].age + MaxDelay + HEARTBEAT_INTERVAL >= HEARTBEAT_TIMEOUT

\* Wherever the answer to the next ping is, it comes in time.
NextPong ==
  /\ Live =>
       \/ /\ pong_rx > 0
          /\ c_deadline + 2 * MaxDelay + HEARTBEAT_INTERVAL >= HEARTBEAT_TIMEOUT
       \/ PongAmong(pongs)
       \/ PongAmong(control)
       \/ pings # <<>> /\ c_deadline + pings[1] + HEARTBEAT_INTERVAL >= HEARTBEAT_TIMEOUT
       \/ pings = <<>> /\ c_deadline + HEARTBEAT_INTERVAL >= HEARTBEAT_TIMEOUT + ticker
  /\ client = "timed_out" => cut \/ server # "up"

\* Without a pong the queue holds the changes and one publication of the interval.
FewAddrs ==
  ServerReads =>
    \/ \E i \in 1..Len(control) : control[i].kind = "pong"
    \/ Len(control) <= changes
    \/ /\ Len(control) <= changes + 1
       /\ \E i \in 1..Len(control) :
            control[i].age + publish >= SERVER_ADDR_PUBLISH_INTERVAL

\* The constants one by one.
LEMMA Units ==
  /\ HEARTBEAT_TIMEOUT \in Nat /\ SERVER_ADDR_PUBLISH_INTERVAL \in Nat
  /\ MaxDelay \in Nat /\ MaxChanges \in Nat
  /\ HEARTBEAT_INTERVAL \in Nat \ {0} /\ CONTROL_CHANNEL_SIZE \in Nat \ {0}
  /\ PONG_CHANNEL \in Nat \ {0} /\ STREAM_WINDOW \in Nat \ {0}
  BY UnitsAssumption, Zenon

\* Aging changes no length.
LEMMA OlderFacts ==
  /\ \A s \in Seq(Nat) : /\ Older(s) \in Seq(Nat) /\ Len(Older(s)) = Len(s)
                         /\ \A i \in 1..Len(s) : Older(s)[i] = s[i] + 1
  /\ \A s \in Seq(Frame) :
       /\ OlderFrames(s) \in Seq(Frame) /\ Len(OlderFrames(s)) = Len(s)
       /\ \A i \in 1..Len(s) : /\ OlderFrames(s)[i].age = s[i].age + 1
                               /\ OlderFrames(s)[i].kind = s[i].kind
<1>1. ASSUME NEW s \in Seq(Nat)
      PROVE  /\ Older(s) \in Seq(Nat) /\ Len(Older(s)) = Len(s)
             /\ \A i \in 1..Len(s) : Older(s)[i] = s[i] + 1
  BY DEF Older
<1>2. ASSUME NEW s \in Seq(Frame)
      PROVE  /\ OlderFrames(s) \in Seq(Frame) /\ Len(OlderFrames(s)) = Len(s)
             /\ \A i \in 1..Len(s) : /\ OlderFrames(s)[i].age = s[i].age + 1
                                     /\ OlderFrames(s)[i].kind = s[i].kind
  <2>1. OlderFrames(s) = [i \in 1..Len(s) |-> [s[i] EXCEPT !.age = @ + 1]]
    BY Zenon DEF OlderFrames
  <2>2. \A i \in 1..Len(s) : /\ s[i] \in Frame
                             /\ [s[i] EXCEPT !.age = @ + 1] \in Frame
                             /\ [s[i] EXCEPT !.age = @ + 1].age = s[i].age + 1
                             /\ [s[i] EXCEPT !.age = @ + 1].kind = s[i].kind
    <3>1. ASSUME NEW f \in Frame
          PROVE  /\ [f EXCEPT !.age = @ + 1] \in Frame
                 /\ [f EXCEPT !.age = @ + 1].age = f.age + 1
                 /\ [f EXCEPT !.age = @ + 1].kind = f.kind
      BY <3>1 DEF Frame
    <3>2. \A i \in 1..Len(s) : s[i] \in Frame
      BY <1>2
    <3> QED
      BY <3>1, <3>2, Zenon
  <2>3. /\ OlderFrames(s) \in Seq(Frame) /\ Len(OlderFrames(s)) = Len(s)
        /\ \A i \in 1..Len(s) : OlderFrames(s)[i] = [s[i] EXCEPT !.age = @ + 1]
    BY <2>1, <2>2
  <2> QED
    BY <2>2, <2>3, Zenon
<1> QED
  BY <1>1, <1>2, Zenon

\* What a span is, without the product.
LEMMA SpanFacts ==
  /\ Span(0) = 0 /\ Span(1) = HEARTBEAT_INTERVAL
  /\ \A n \in Nat : Span(n) \in Nat /\ Span(n + 1) = Span(n) + HEARTBEAT_INTERVAL
  /\ \A m, n \in Nat : m <= n => Span(m) <= Span(n)
<1>1. \A n \in Nat : Span(n) \in Nat /\ Span(n + 1) = Span(n) + HEARTBEAT_INTERVAL
  BY Units DEF Span
<1>2. ASSUME NEW m \in Nat, NEW n \in Nat, m <= n
      PROVE  Span(m) <= Span(n)
  <2>1. /\ n - m \in Nat
        /\ n * HEARTBEAT_INTERVAL
             = m * HEARTBEAT_INTERVAL + (n - m) * HEARTBEAT_INTERVAL
    BY <1>2, Units
  <2>2. (n - m) * HEARTBEAT_INTERVAL \in Nat /\ m * HEARTBEAT_INTERVAL \in Nat
    BY <2>1, Units
  <2> QED
    BY <2>1, <2>2 DEF Span
<1>3. Span(0) = 0 /\ Span(1) = HEARTBEAT_INTERVAL
  BY Units DEF Span
<1> QED
  BY <1>1, <1>2, <1>3, Zenon

\* The heartbeat never waits for the window: it gives up first.
LEMMA NeverBlocked ==
  BeatInv /\ client = "up" => ~Blocked
<1> SUFFICES ASSUME BeatInv, client = "up", unread = STREAM_WINDOW
             PROVE  FALSE
  BY Zenon DEF Blocked
<1>1. /\ c_silent \in Nat /\ ticker \in Nat /\ ticker <= HEARTBEAT_INTERVAL
      /\ c_silent <= HEARTBEAT_TIMEOUT + MaxDelay
  BY Units DEF BeatInv, BeatType, Quiet
<1>2. Span(STREAM_WINDOW) <= MaxDelay + c_silent + ticker
  BY Zenon DEF BeatInv, Window
<1>3. Span(STREAM_WINDOW) > HEARTBEAT_TIMEOUT + 2 * MaxDelay + HEARTBEAT_INTERVAL
  BY WindowAssumption, Units, Zenon DEF Span
<1>4. Span(STREAM_WINDOW) \in Nat
  BY SpanFacts, Units, Zenon
<1> QED
  BY <1>1, <1>2, <1>3, <1>4, Units

\* Where the client waits for nothing, its timers run and it has read its pongs.
LEMMA TickTimers ==
  ASSUME BeatInv, Tick
  PROVE  /\ client = "up" => /\ ticker > 0 /\ c_deadline > 0 /\ pong_rx = 0
                            /\ ticker' = ticker - 1 /\ c_deadline' = c_deadline - 1
         /\ server = "up" => /\ s_deadline > 0 /\ publish > 0
                            /\ s_deadline' = s_deadline - 1 /\ publish' = publish - 1
  BY NeverBlocked, Zenon DEF Tick, MayPass, Sooner

\* The frames of the server are frames.
LEMMA FrameTypes ==
  /\ Pong(0) \in Frame /\ Pong(0).kind = "pong" /\ Pong(0).age = 0
  /\ Addrs(0) \in Frame /\ Addrs(0).kind = "addrs" /\ Addrs(0).age = 0
  BY Zenon DEF Frame, Pong, Addrs

\* So each has an age.
LEMMA FrameAges ==
  ASSUME NEW s \in Seq(Frame)
  PROVE  \A i \in 1..Len(s) : s[i].age \in Nat
<1>1. \A f \in Frame : f.age \in Nat
  BY Zenon DEF Frame
<1>2. \A i \in 1..Len(s) : s[i] \in Frame
  OBVIOUS
<1> QED
  BY <1>1, <1>2, Zenon

\* Types, for every step.
LEMMA BeatTypeKept ==
  BeatInv /\ [HeartbeatNext]_heartbeatVars => BeatType'
<1> SUFFICES ASSUME BeatInv, [HeartbeatNext]_heartbeatVars
             PROVE  BeatType'
  BY Zenon
<1>1. CASE SendPing
  BY <1>1, Units DEF SendPing, BeatInv, InTime, ServerReads, BeatType, sides, silences
<1>2. CASE ReadFrame
  BY <1>2, Units
     DEF ReadFrame, BeatInv, InTime, ServerReads, BeatType, timers, sides, silences
<1>3. CASE TakePong
  BY <1>3, Units DEF TakePong, BeatInv, InTime, ServerReads, BeatType, sides, silences
<1>4. CASE ClientTimesOut
  BY <1>4, Units, Zenon
     DEF ClientTimesOut, BeatInv, InTime, ServerReads, BeatType, frames, timers, silences
<1>5. CASE ClientSeesClose
  BY <1>5, Units, Zenon
     DEF ClientSeesClose, BeatInv, InTime, ServerReads, BeatType, frames, timers, silences
<1>6. CASE ClientEnds
  BY <1>6, Units, Zenon
     DEF ClientEnds, BeatInv, InTime, ServerReads, BeatType, frames, timers, silences
<1>7. CASE ServerEnds
  BY <1>7, Units, Zenon
     DEF ServerEnds, BeatInv, InTime, ServerReads, BeatType, frames, timers, silences
<1>8. CASE GetPing
  <2>1. pings \in Seq(Nat) /\ pings # <<>> /\ unread = Len(pings)
    BY <1>8, Zenon DEF GetPing, BeatInv, BeatType, InTime, ServerReads
  <2>2. pings' \in Seq(Nat) /\ unread' \in Nat
    BY <1>8, <2>1 DEF GetPing
  <2>3. control' \in Seq(Frame)
    BY <1>8, FrameTypes DEF GetPing, BeatInv, BeatType
  <2> QED
    BY <1>8, <2>2, <2>3, Units DEF GetPing, BeatInv, BeatType, sides, silences
<1>9. CASE PublishAddrs
  <2>1. control' \in Seq(Frame)
    BY <1>9, FrameTypes DEF PublishAddrs, publish_server_addrs, BeatInv, BeatType
  <2>2. changes' \in 0..MaxChanges /\ publish' \in Nat
    BY <1>9, Units DEF PublishAddrs, BeatInv, BeatType
  <2> QED
    BY <1>9, <2>1, <2>2, Zenon DEF PublishAddrs, silences, BeatInv, BeatType
<1>10. CASE WriteFrames
  BY <1>10, Units
     DEF WriteFrames, BeatInv, InTime, ServerReads, BeatType, timers, sides, silences
<1>11. CASE ServerTimesOut
  BY <1>11, Units, Zenon
     DEF ServerTimesOut, BeatInv, InTime, ServerReads, BeatType, frames, timers, silences
<1>12. CASE ServerSeesClose
  BY <1>12, Units, Zenon
     DEF ServerSeesClose, BeatInv, InTime, ServerReads, BeatType, frames, timers, silences
<1>13. CASE ServerHangs
  BY <1>13, Units, Zenon
     DEF ServerHangs, BeatInv, InTime, ServerReads, BeatType, frames, timers, silences
<1>14. CASE PathCut
  BY <1>14, Units, Zenon
     DEF PathCut, BeatInv, InTime, ServerReads, BeatType, frames, timers, silences
<1>15. CASE Tick
  <2>1. /\ pings' \in Seq(Nat) /\ pongs' \in Seq(Frame) /\ control' \in Seq(Frame)
        /\ UNCHANGED <<client, server, cut, changes, unread, pong_rx>>
    <3>1. <<>> \in Seq(Nat) /\ <<>> \in Seq(Frame)
      OBVIOUS
    <3> QED
      BY <1>15, <3>1, OlderFacts, Zenon DEF Tick, BeatInv, BeatType
  <2>2. /\ ticker' = Sooner(ticker) /\ publish' = Sooner(publish)
        /\ c_deadline' = Sooner(c_deadline) /\ s_deadline' = Sooner(s_deadline)
        /\ setup' \in {setup, setup + 1} /\ c_silent' \in {c_silent + 1, 0}
        /\ s_silent' \in {s_silent + 1, 0}
    BY <1>15, Zenon DEF Tick
  <2>3. /\ ticker' \in 0..HEARTBEAT_INTERVAL /\ publish' \in Nat
        /\ c_deadline' \in 0..HEARTBEAT_TIMEOUT /\ s_deadline' \in 0..HEARTBEAT_TIMEOUT
        /\ setup' \in Nat /\ c_silent' \in Nat /\ s_silent' \in Nat
    BY <2>2, Units DEF BeatInv, BeatType, Sooner
  <2> QED
    BY <2>1, <2>3, Zenon DEF BeatInv, BeatType
<1>16. CASE UNCHANGED heartbeatVars
  BY <1>16, Zenon DEF heartbeatVars, BeatInv, InTime, ServerReads, BeatType
<1>17. CASE StartHeartbeat
  BY <1>17, Units DEF StartHeartbeat, BeatInv, BeatType, silences, frames
<1> QED
  BY <1>1, <1>2, <1>3, <1>4, <1>5, <1>6, <1>7, <1>8, <1>9, <1>10, <1>11, <1>12,
     <1>13, <1>14, <1>15, <1>16, <1>17, Zenon
     DEF HeartbeatNext

\* What is due happens before time passes, so no frame is ever late.
LEMMA InTimeKept ==
  BeatInv /\ [HeartbeatNext]_heartbeatVars => InTime'
<1> SUFFICES ASSUME BeatInv, [HeartbeatNext]_heartbeatVars
             PROVE  InTime'
  OBVIOUS
<1>1. CASE SendPing
  <2>1. /\ client = "up" /\ pings \in Seq(Nat) /\ unread \in Nat
        /\ pings' = Append(pings, 0) /\ unread' = unread + 1
        /\ UNCHANGED <<client, server, cut, c_silent, s_silent, pongs, control>>
    BY <1>1, Zenon DEF SendPing, BeatInv, BeatType, sides, silences
  <2>2. /\ Len(pings') = Len(pings) + 1 /\ pings'[Len(pings) + 1] = 0
        /\ \A i \in 1..Len(pings) : pings'[i] = pings[i]
    BY <2>1
  <2>3. ASSUME ServerReads
        PROVE  /\ s_silent = 0 /\ unread' = Len(pings')
               /\ \A i \in 1..Len(pings') : s_silent <= pings'[i] /\ pings'[i] <= MaxDelay
    <3>1. /\ s_silent = 0 /\ unread = Len(pings)
          /\ \A i \in 1..Len(pings) : s_silent <= pings[i] /\ pings[i] <= MaxDelay
      BY <2>1, <2>3, Zenon DEF BeatInv, InTime, Present
    <3> QED
      BY <2>1, <2>2, <3>1, Units
  <2> QED
    BY <2>1, <2>3, Zenon DEF BeatInv, InTime, Live, ServerReads, ClientReads, Present
<1>2. CASE ReadFrame
  BY <1>2, Units
     DEF ReadFrame, InTime, Live, ServerReads, ClientReads, Present, BeatInv, BeatType,
         timers, sides, silences
<1>3. CASE TakePong
  BY <1>3, Units, Zenon
     DEF TakePong, InTime, Live, ServerReads, ClientReads, Present, BeatInv, BeatType,
         sides, silences
<1>4. CASE ClientTimesOut
  BY <1>4, Units, Zenon
     DEF ClientTimesOut, InTime, Live, ServerReads, ClientReads, Present, BeatInv,
         BeatType, frames, timers, silences
<1>5. CASE ClientSeesClose
  BY <1>5, Units, Zenon
     DEF ClientSeesClose, InTime, Live, ServerReads, ClientReads, Present, BeatInv,
         BeatType, frames, timers, silences
<1>6. CASE ClientEnds
  BY <1>6, Units, Zenon
     DEF ClientEnds, InTime, Live, ServerReads, ClientReads, Present, BeatInv, BeatType,
         frames, timers, silences
<1>7. CASE ServerEnds
  BY <1>7, Units, Zenon
     DEF ServerEnds, InTime, Live, ServerReads, ClientReads, Present, BeatInv, BeatType,
         frames, timers, silences
<1>8. CASE GetPing
  BY <1>8, Units
     DEF GetPing, InTime, Live, ServerReads, ClientReads, Present, BeatInv, BeatType,
         Pong, sides, silences
<1>9. CASE PublishAddrs
  <2>1. /\ control \in Seq(Frame)
        /\ UNCHANGED <<client, server, cut, c_silent, s_silent, pings, pongs, unread>>
    BY <1>9, Zenon DEF PublishAddrs, silences, BeatInv, BeatType
  <2>2. ASSUME ServerReads
        PROVE  \A i \in 1..Len(control') : control'[i].age <= MaxDelay
    <3>1. \A i \in 1..Len(control) : control[i].age <= MaxDelay
      BY <2>2, Zenon DEF BeatInv, InTime
    <3>2. CASE control' = control
      BY <3>1, <3>2, Zenon
    <3>3. CASE control' = Append(control, Addrs(0))
      <4>1. /\ Len(control') = Len(control) + 1 /\ control'[Len(control) + 1] = Addrs(0)
            /\ \A i \in 1..Len(control) : control'[i] = control[i]
        BY <2>1, <3>3, FrameTypes
      <4>2. control'[Len(control) + 1].age <= MaxDelay
        BY <4>1, FrameTypes, Units
      <4> QED
        BY <2>1, <3>1, <4>1, <4>2
    <3> QED
      BY <1>9, <3>2, <3>3, Zenon DEF PublishAddrs, publish_server_addrs
  <2> QED
    BY <2>1, <2>2, Zenon DEF BeatInv, InTime, Live, ServerReads, ClientReads, Present
<1>10. CASE WriteFrames
  <2>1. /\ server = "up" /\ ~cut /\ control' = <<>> /\ pongs' = pongs \o control
        /\ control \in Seq(Frame) /\ pongs \in Seq(Frame)
    BY <1>10, Zenon DEF WriteFrames, BeatInv, BeatType
  <2>2. UNCHANGED <<client, server, cut, c_silent, s_silent, pings, unread>>
    BY <1>10, Zenon DEF WriteFrames, sides, silences
  <2>3. \A i \in 1..Len(control) : control[i].age \in Nat /\ control[i].age <= MaxDelay
    BY <2>1, FrameAges, Zenon DEF BeatInv, InTime, ServerReads
  <2>4. ASSUME Present, NEW i \in 1..Len(pongs')
        PROVE  c_silent <= pongs'[i].age /\ pongs'[i].age <= MaxDelay
    <3>1. /\ c_silent = 0
          /\ \A k \in 1..Len(pongs) : c_silent <= pongs[k].age /\ pongs[k].age <= MaxDelay
      BY <2>1, <2>4, Zenon DEF BeatInv, Before, InTime, Live, ClientReads, Present
    <3>2. CASE i <= Len(pongs)
      BY <2>1, <3>1, <3>2
    <3>3. CASE i > Len(pongs)
      <4>1. i - Len(pongs) \in 1..Len(control) /\ pongs'[i] = control[i - Len(pongs)]
        BY <2>1, <3>3
      <4> QED
        BY <2>3, <3>1, <4>1
    <3> QED
      BY <2>1, <3>2, <3>3
  <2>5. /\ Live' => c_silent' = 0
        /\ ServerReads' =>
             /\ Present' => s_silent' = 0
             /\ unread' = Len(pings')
             /\ \A i \in 1..Len(pings') : s_silent' <= pings'[i] /\ pings'[i] <= MaxDelay
    BY <2>2, Zenon DEF BeatInv, InTime, Live, ServerReads, Present
  <2>6. \A i \in 1..Len(control') : control'[i].age <= MaxDelay
    BY <2>1
  <2> QED
    BY <2>2, <2>4, <2>5, <2>6, Zenon DEF InTime, ClientReads, Present
<1>11. CASE ServerTimesOut
  BY <1>11, Units, Zenon
     DEF ServerTimesOut, InTime, Live, ServerReads, ClientReads, Present, BeatInv,
         BeatType, frames, timers, silences
<1>12. CASE ServerSeesClose
  BY <1>12, Units, Zenon
     DEF ServerSeesClose, InTime, Live, ServerReads, ClientReads, Present, BeatInv,
         BeatType, frames, timers, silences
<1>13. CASE ServerHangs
  BY <1>13, Units, Zenon
     DEF ServerHangs, InTime, Live, ServerReads, ClientReads, Present, BeatInv, BeatType,
         frames, timers, silences
<1>14. CASE PathCut
  BY <1>14, Units, Zenon
     DEF PathCut, InTime, Live, ServerReads, ClientReads, Present, BeatInv, BeatType,
         frames, timers, silences
<1>15. CASE Tick
  <2>1. /\ UNCHANGED <<client, server, cut, unread>>
        /\ c_silent \in Nat /\ s_silent \in Nat
        /\ pings \in Seq(Nat) /\ pongs \in Seq(Frame) /\ control \in Seq(Frame)
    BY <1>15, Zenon DEF Tick, BeatInv, BeatType
  <2>2. (Live' => c_silent' = 0) /\ (ServerReads' /\ Present' => s_silent' = 0)
    BY <1>15, <2>1 DEF Tick, Live, ServerReads, Present
  <2>3. /\ c_silent' <= c_silent + 1 /\ c_silent' \in Nat
        /\ s_silent' <= s_silent + 1 /\ s_silent' \in Nat
    BY <1>15, <2>1 DEF Tick
  <2>4. ASSUME ServerReads
        PROVE  /\ unread' = Len(pings')
               /\ \A i \in 1..Len(pings') : s_silent' <= pings'[i] /\ pings'[i] <= MaxDelay
    <3>1. pings' = Older(pings) /\ unread = Len(pings)
      BY <1>15, <2>4, Zenon DEF Tick, ServerReads, BeatInv, InTime
    <3>2. \A i \in 1..Len(pings) :
            s_silent <= pings[i] /\ pings[i] < MaxDelay /\ pings[i] \in Nat
      BY <1>15, <2>1, <2>4 DEF Tick, MayPass, ServerReads, BeatInv, InTime
    <3>3. /\ Len(pings') = Len(pings)
          /\ \A i \in 1..Len(pings) : pings'[i] = pings[i] + 1
      BY <2>1, <3>1, OlderFacts, Zenon
    <3>4. \A i \in 1..Len(pings) : s_silent' <= pings[i] + 1 /\ pings[i] + 1 <= MaxDelay
      BY <2>1, <2>3, <3>2, Units
    <3>5. unread' = Len(pings')
      BY <2>1, <3>1, <3>3, Zenon
    <3> QED
      BY <3>3, <3>4, <3>5, Zenon
  <2>5. ASSUME ServerReads
        PROVE  \A i \in 1..Len(control') : control'[i].age <= MaxDelay
    <3>1. control' = OlderFrames(control)
      BY <1>15, <2>5, Zenon DEF Tick, ServerReads
    <3>2. \A i \in 1..Len(control) : control[i].age < MaxDelay /\ control[i].age \in Nat
      BY <1>15, <2>1, <2>5, FrameAges, Zenon DEF Tick, MayPass, ServerReads
    <3>3. /\ Len(control') = Len(control)
          /\ \A i \in 1..Len(control) : control'[i].age = control[i].age + 1
      BY <2>1, <3>1, OlderFacts, Zenon
    <3> QED
      BY <3>2, <3>3, Units
  <2>6. ASSUME ClientReads
        PROVE  \A i \in 1..Len(pongs') :
                 c_silent' <= pongs'[i].age /\ pongs'[i].age <= MaxDelay
    <3>1. CASE client = "setup"
      <4>1. pongs' = pongs /\ c_silent' = 0 /\ c_silent = 0
        BY <1>15, <2>6, <3>1, Zenon DEF Tick, ClientReads, Present, BeatInv, Before
      <4> QED
        BY <2>6, <4>1, Zenon DEF BeatInv, InTime
    <3>2. CASE client = "up"
      <4>1. pongs' = OlderFrames(pongs)
        BY <1>15, <2>6, <3>2, Zenon DEF Tick, ClientReads, Present
      <4>2. \A i \in 1..Len(pongs) : /\ c_silent <= pongs[i].age /\ pongs[i].age < MaxDelay
                                     /\ pongs[i].age \in Nat
        BY <1>15, <2>1, <2>6, <3>2, FrameAges, Zenon
           DEF Tick, MayPass, ClientReads, Present, BeatInv, InTime
      <4>3. /\ Len(pongs') = Len(pongs)
            /\ \A i \in 1..Len(pongs) : pongs'[i].age = pongs[i].age + 1
        BY <2>1, <4>1, OlderFacts, Zenon
      <4>4. \A i \in 1..Len(pongs) : /\ c_silent' <= pongs[i].age + 1
                                     /\ pongs[i].age + 1 <= MaxDelay
        BY <2>1, <2>3, <4>2, Units
      <4> QED
        BY <4>3, <4>4, Zenon
    <3> QED
      BY <2>6, <3>1, <3>2, Zenon DEF ClientReads, Present
  <2> QED
    BY <2>1, <2>2, <2>4, <2>5, <2>6, Zenon DEF InTime, ServerReads, ClientReads, Present
<1>16. CASE UNCHANGED heartbeatVars
  BY <1>16, Zenon
     DEF heartbeatVars, InTime, Live, ServerReads, ClientReads, Present, BeatInv, BeatType
<1>17. CASE StartHeartbeat
  BY <1>17, Zenon
     DEF StartHeartbeat, BeatInv, Before, InTime, Live, ServerReads, ClientReads,
         Present, silences, frames
<1> QED
  BY <1>1, <1>2, <1>3, <1>4, <1>5, <1>6, <1>7, <1>8, <1>9, <1>10, <1>11, <1>12,
     <1>13, <1>14, <1>15, <1>16, <1>17
     DEF HeartbeatNext

\* Only the heartbeat sends pings, so none is under way before it starts.
LEMMA BeforeKept ==
  BeatInv /\ [HeartbeatNext]_heartbeatVars => Before'
<1> SUFFICES ASSUME BeatInv, [HeartbeatNext]_heartbeatVars, client' = "setup"
             PROVE  Before'
  BY Zenon DEF Before
<1>1. CASE Tick
  <2>1. /\ UNCHANGED <<client, unread, pong_rx>> /\ c_silent' = 0
        /\ pings' \in {Older(pings), <<>>}
    BY <1>1, Zenon DEF Tick
  <2>2. Older(<<>>) = <<>>
    BY DEF Older
  <2> QED
    BY <2>1, <2>2, Zenon DEF BeatInv, Before
<1>2. CASE UNCHANGED heartbeatVars
  BY <1>2, Zenon DEF BeatInv, Before, heartbeatVars
<1>3. CASE HeartbeatNext /\ ~Tick
  <2>1. client = "setup" /\ UNCHANGED <<pings, unread, pong_rx, c_silent>>
    BY <1>3, Zenon
       DEF HeartbeatNext, StartHeartbeat, SendPing, ReadFrame, TakePong, ClientTimesOut,
           ClientSeesClose, ClientEnds, ServerEnds, GetPing, PublishAddrs, WriteFrames,
           ServerTimesOut, ServerSeesClose, ServerHangs, PathCut, BeatInv, Before, frames,
           timers, sides, silences
  <2> QED
    BY <2>1, Zenon DEF BeatInv, Before
<1> QED
  BY <1>1, <1>2, <1>3, Zenon

\* Each ping follows the last by an interval.
LEMMA SpacedKept ==
  BeatInv /\ [HeartbeatNext]_heartbeatVars => Spaced'
<1> SUFFICES ASSUME BeatInv, [HeartbeatNext]_heartbeatVars
             PROVE  Spaced'
  OBVIOUS
<1>1. CASE SendPing
  <2>1. /\ pings' = Append(pings, 0) /\ pings \in Seq(Nat)
        /\ ticker = 0 /\ ticker' = HEARTBEAT_INTERVAL /\ (Live' <=> Live)
    BY <1>1, Zenon DEF SendPing, BeatInv, BeatType, Live, sides
  <2>2. ASSUME Live, NEW i \in 1..Len(pings')
        PROVE  Span(Len(pings') - i + 1) <= pings'[i] + ticker'
    <3>1. CASE i = Len(pings) + 1
      BY <2>1, <3>1, SpanFacts, Units
    <3>2. CASE i # Len(pings) + 1
      <4>1. /\ i \in 1..Len(pings) /\ pings'[i] = pings[i] /\ pings[i] \in Nat
            /\ Len(pings) - i + 1 \in Nat
            /\ Len(pings') - i + 1 = (Len(pings) - i + 1) + 1
        BY <2>1, <3>2
      <4>2. Span(Len(pings) - i + 1) <= pings[i] + ticker
        BY <2>2, <4>1, Zenon DEF BeatInv, Spaced
      <4>3. /\ Span(Len(pings') - i + 1) = Span(Len(pings) - i + 1) + HEARTBEAT_INTERVAL
            /\ Span(Len(pings) - i + 1) \in Nat
        BY <4>1, SpanFacts, Zenon
      <4> QED
        BY <2>1, <4>1, <4>2, <4>3, Units
    <3> QED
      BY <3>1, <3>2, Zenon
  <2> QED
    BY <2>1, <2>2, Zenon DEF Spaced
<1>2. CASE ReadFrame
  BY <1>2, Units, Zenon
     DEF ReadFrame, Spaced, Live, BeatInv, InTime, ServerReads, BeatType, timers,
         sides
<1>3. CASE TakePong
  BY <1>3, Units, Zenon
     DEF TakePong, Spaced, Live, BeatInv, InTime, ServerReads, BeatType, sides
<1>4. CASE ClientTimesOut
  BY <1>4, Units, Zenon
     DEF ClientTimesOut, Spaced, Live, BeatInv, InTime, ServerReads, BeatType,
         frames, timers
<1>5. CASE ClientSeesClose
  BY <1>5, Units, Zenon
     DEF ClientSeesClose, Spaced, Live, BeatInv, InTime, ServerReads, BeatType,
         frames, timers
<1>6. CASE ClientEnds
  BY <1>6, Units, Zenon
     DEF ClientEnds, Spaced, Live, BeatInv, InTime, ServerReads, BeatType,
         frames, timers
<1>7. CASE ServerEnds
  BY <1>7, Units, Zenon
     DEF ServerEnds, Spaced, Live, BeatInv, InTime, ServerReads, BeatType,
         frames, timers
<1>8. CASE GetPing
  BY <1>8, Units
     DEF GetPing, Spaced, Live, BeatInv, InTime, ServerReads, BeatType, Pong,
         sides
<1>9. CASE PublishAddrs
  BY <1>9, Units, Zenon
     DEF PublishAddrs, Spaced, Live, BeatInv, InTime, ServerReads, BeatType,
         publish_server_addrs
<1>10. CASE WriteFrames
  BY <1>10, Units, Zenon
     DEF WriteFrames, Spaced, Live, BeatInv, InTime, ServerReads, BeatType,
         timers, sides
<1>11. CASE ServerTimesOut
  BY <1>11, Units, Zenon
     DEF ServerTimesOut, Spaced, Live, BeatInv, InTime, ServerReads, BeatType,
         frames, timers
<1>12. CASE ServerSeesClose
  BY <1>12, Units, Zenon
     DEF ServerSeesClose, Spaced, Live, BeatInv, InTime, ServerReads, BeatType,
         frames, timers
<1>13. CASE ServerHangs
  BY <1>13, Units, Zenon
     DEF ServerHangs, Spaced, Live, BeatInv, InTime, ServerReads, BeatType,
         frames, timers
<1>14. CASE PathCut
  BY <1>14, Units, Zenon
     DEF PathCut, Spaced, Live, BeatInv, InTime, ServerReads, BeatType, frames,
         timers
<1>15. CASE Tick
  <2>1. ASSUME Live'
        PROVE  /\ pings' = Older(pings) /\ pings \in Seq(Nat) /\ Live
               /\ ticker \in Nat /\ ticker > 0 /\ ticker' = ticker - 1
    BY <1>15, <2>1, TickTimers DEF Tick, Live, BeatInv, BeatType
  <2>2. ASSUME Live', NEW i \in 1..Len(pings')
        PROVE  Span(Len(pings') - i + 1) <= pings'[i] + ticker'
    <3>1. /\ i \in 1..Len(pings) /\ Len(pings') = Len(pings) /\ pings'[i] = pings[i] + 1
          /\ pings[i] \in Nat
      <4>1. /\ Len(pings') = Len(pings) /\ pings \in Seq(Nat)
            /\ \A k \in 1..Len(pings) : pings'[k] = pings[k] + 1
        BY <2>1, <2>2, OlderFacts, Zenon
      <4> QED
        BY <2>2, <4>1
    <3>2. Span(Len(pings) - i + 1) <= pings[i] + ticker
      BY <2>1, <2>2, <3>1, Zenon DEF BeatInv, Spaced
    <3> QED
      BY <2>1, <2>2, <3>1, <3>2
  <2> QED
    BY <2>2, Zenon DEF Spaced
<1>16. CASE UNCHANGED heartbeatVars
  BY <1>16, Zenon DEF heartbeatVars, Spaced, Live, BeatInv, InTime, ServerReads, BeatType
<1>17. CASE StartHeartbeat
  <2>1. pings' = <<>>
    BY <1>17, Zenon DEF StartHeartbeat, BeatInv, Before, frames
  <2> QED
    BY <2>1 DEF Spaced
<1> QED
  BY <1>1, <1>2, <1>3, <1>4, <1>5, <1>6, <1>7, <1>8, <1>9, <1>10, <1>11, <1>12,
     <1>13, <1>14, <1>15, <1>16, <1>17
     DEF HeartbeatNext

\* Unread pings span at most the silence and what was under way before it.
LEMMA WindowKept ==
  BeatInv /\ [HeartbeatNext]_heartbeatVars => Window'
<1> SUFFICES ASSUME BeatInv, [HeartbeatNext]_heartbeatVars
             PROVE  Window'
  OBVIOUS
<1>1. CASE SendPing
  <2>1. /\ ticker = 0 /\ ticker' = HEARTBEAT_INTERVAL /\ unread' = unread + 1
        /\ unread \in Nat /\ c_silent' = c_silent /\ client' = client /\ c_silent \in Nat
    BY <1>1, Zenon DEF SendPing, BeatInv, BeatType, sides, silences
  <2>2. Span(unread') = Span(unread) + HEARTBEAT_INTERVAL /\ Span(unread) \in Nat
    BY <2>1, SpanFacts, Zenon
  <2> QED
    BY <2>1, <2>2, Units DEF BeatInv, Window
<1>2. CASE ReadFrame
  BY <1>2, Units, Zenon
     DEF ReadFrame, Window, Spaced, Live, BeatInv, InTime, ServerReads, BeatType,
         timers, sides, silences
<1>3. CASE TakePong
  BY <1>3, Units, Zenon
     DEF TakePong, Window, Spaced, Live, BeatInv, InTime, ServerReads, BeatType,
         sides, silences
<1>4. CASE ClientTimesOut
  BY <1>4, Units, Zenon
     DEF ClientTimesOut, Window, Spaced, Live, BeatInv, InTime, ServerReads,
         BeatType, frames, timers, silences
<1>5. CASE ClientSeesClose
  BY <1>5, Units, Zenon
     DEF ClientSeesClose, Window, Spaced, Live, BeatInv, InTime, ServerReads,
         BeatType, frames, timers, silences
<1>6. CASE ClientEnds
  BY <1>6, Units, Zenon
     DEF ClientEnds, Window, Spaced, Live, BeatInv, InTime, ServerReads,
         BeatType, frames, timers, silences
<1>7. CASE ServerEnds
  BY <1>7, Units, Zenon
     DEF ServerEnds, Window, Spaced, Live, BeatInv, InTime, ServerReads,
         BeatType, frames, timers, silences
<1>8. CASE GetPing
  <2>1. /\ UNCHANGED <<ticker, c_silent, client>> /\ ticker \in Nat /\ c_silent \in Nat
        /\ unread \in Nat /\ unread' = unread - 1 /\ unread = Len(pings) /\ pings # <<>>
        /\ pings \in Seq(Nat)
    BY <1>8 DEF GetPing, BeatInv, BeatType, InTime, ServerReads, sides, silences
  <2>2. unread' \in Nat
    BY <2>1
  <2>3. Span(unread') <= Span(unread) /\ Span(unread) \in Nat /\ Span(unread') \in Nat
    BY <2>1, <2>2, SpanFacts
  <2> QED
    BY <2>1, <2>3, Units DEF BeatInv, Window
<1>9. CASE PublishAddrs
  BY <1>9, Units, Zenon
     DEF PublishAddrs, silences, Window, Spaced, Live, BeatInv, InTime, ServerReads,
         BeatType, publish_server_addrs
<1>10. CASE WriteFrames
  BY <1>10, Units, Zenon
     DEF WriteFrames, Window, Spaced, Live, BeatInv, InTime, ServerReads,
         BeatType, timers, sides, silences
<1>11. CASE ServerTimesOut
  BY <1>11, Units, Zenon
     DEF ServerTimesOut, Window, Spaced, Live, BeatInv, InTime, ServerReads,
         BeatType, frames, timers, silences
<1>12. CASE ServerSeesClose
  BY <1>12, Units, Zenon
     DEF ServerSeesClose, Window, Spaced, Live, BeatInv, InTime, ServerReads,
         BeatType, frames, timers, silences
<1>13. CASE ServerHangs
  BY <1>13, Units, Zenon
     DEF ServerHangs, Window, Spaced, Live, BeatInv, InTime, ServerReads,
         BeatType, frames, timers, silences
<1>14. CASE PathCut
  BY <1>14, Units, Zenon
     DEF PathCut, Window, Spaced, Live, BeatInv, InTime, ServerReads, BeatType,
         frames, timers, silences
<1>15. CASE Tick
  <2> SUFFICES ASSUME client' = "up"
               PROVE  Span(unread') <= MaxDelay + c_silent' + ticker'
    BY Zenon DEF Window
  <2>1. /\ client = "up" /\ ticker \in Nat /\ ticker > 0 /\ ticker' = ticker - 1
        /\ c_silent \in Nat /\ unread' = unread /\ unread \in Nat
    BY <1>15, TickTimers DEF Tick, BeatInv, BeatType
  <2>2. CASE ~Live
    <3>1. c_silent' = c_silent + 1
      BY <1>15, <2>1, <2>2, Zenon DEF Tick, Live
    <3> QED
      BY <2>1, <3>1, Units, SpanFacts DEF BeatInv, Window
  <2>3. CASE Live
    <3>1. /\ Live' /\ c_silent' = 0 /\ unread' = Len(pings') /\ pings' \in Seq(Nat)
          /\ \A i \in 1..Len(pings') : pings'[i] <= MaxDelay
      BY <1>15, <2>1, <2>3, InTimeKept, BeatTypeKept, Zenon
         DEF Tick, Live, HeartbeatNext, InTime, ServerReads, BeatType
    <3>2. CASE Len(pings') = 0
      BY <2>1, <3>1, <3>2, SpanFacts, Units
    <3>3. CASE Len(pings') # 0
      <4>1. 1 \in 1..Len(pings') /\ Len(pings') - 1 + 1 = Len(pings')
        BY <3>1, <3>3
      <4>2. Span(Len(pings')) <= pings'[1] + ticker'
        BY <1>15, <3>1, <4>1, SpacedKept, Zenon DEF Spaced, HeartbeatNext
      <4>3. pings'[1] \in Nat /\ pings'[1] <= MaxDelay
        BY <3>1, <4>1
      <4>4. Span(Len(pings')) \in Nat
        BY <3>1, SpanFacts
      <4> QED
        BY <2>1, <3>1, <4>2, <4>3, <4>4, Units
    <3> QED
      BY <3>2, <3>3, Zenon
  <2> QED
    BY <2>2, <2>3, Zenon
<1>16. CASE UNCHANGED heartbeatVars
  BY <1>16, Zenon
     DEF heartbeatVars, Window, Spaced, Live, BeatInv, InTime, ServerReads, BeatType
<1>17. CASE StartHeartbeat
  <2>1. Span(unread') = 0 /\ c_silent' = 0 /\ ticker' = 0
    BY <1>17, SpanFacts, Zenon DEF StartHeartbeat, BeatInv, Before, frames, silences
  <2> QED
    BY <2>1, Units DEF Window
<1> QED
  BY <1>1, <1>2, <1>3, <1>4, <1>5, <1>6, <1>7, <1>8, <1>9, <1>10, <1>11, <1>12,
     <1>13, <1>14, <1>15, <1>16, <1>17
     DEF HeartbeatNext

\* Only what was under way when the silence began re-arms a deadline.
LEMMA QuietKept ==
  BeatInv /\ [HeartbeatNext]_heartbeatVars => Quiet'
<1> SUFFICES ASSUME BeatInv, [HeartbeatNext]_heartbeatVars
             PROVE  Quiet'
  OBVIOUS
<1>1. CASE SendPing
  BY <1>1, Units, Zenon
     DEF SendPing, Quiet, Live, BeatInv, InTime, ServerReads, ClientReads, Present,
         BeatType, sides, silences
<1>2. CASE ReadFrame
  <2>1. client = "up" /\ ~cut /\ pongs # <<>> /\ pongs \in Seq(Frame)
    BY <1>2, Zenon DEF ReadFrame, BeatInv, BeatType
  <2>2. 1 \in 1..Len(pongs) /\ pongs[1].age \in Nat
    BY <2>1, FrameAges
  <2>3. c_silent <= pongs[1].age /\ pongs[1].age <= MaxDelay
    BY <2>1, <2>2, Zenon DEF BeatInv, InTime, ClientReads, Present
  <2>4. c_silent \in Nat /\ c_silent <= MaxDelay
    BY <2>2, <2>3, Units DEF BeatInv, BeatType
  <2> QED
    BY <1>2, <2>4, Zenon DEF ReadFrame, BeatInv, Quiet, sides, silences, timers
<1>3. CASE TakePong
  BY <1>3, Units
     DEF TakePong, Quiet, Live, BeatInv, InTime, ServerReads, ClientReads, Present,
         BeatType, sides, silences
<1>4. CASE ClientTimesOut
  BY <1>4, Units, Zenon
     DEF ClientTimesOut, Quiet, Live, BeatInv, InTime, ServerReads, ClientReads, Present,
         BeatType, frames, timers, silences
<1>5. CASE ClientSeesClose
  BY <1>5, Units, Zenon
     DEF ClientSeesClose, Quiet, Live, BeatInv, InTime, ServerReads, ClientReads, Present,
         BeatType, frames, timers, silences
<1>6. CASE ClientEnds
  BY <1>6, Units, Zenon
     DEF ClientEnds, Quiet, Live, BeatInv, InTime, ServerReads, ClientReads, Present,
         BeatType, frames, timers, silences
<1>7. CASE ServerEnds
  BY <1>7, Units, Zenon
     DEF ServerEnds, Quiet, Live, BeatInv, InTime, ServerReads, ClientReads, Present,
         BeatType, frames, timers, silences
<1>8. CASE GetPing
  <2>1. /\ ServerReads /\ pings \in Seq(Nat) /\ pings # <<>> /\ s_silent \in Nat
        /\ UNCHANGED <<client, server, c_silent, s_silent, c_deadline, pong_rx>>
        /\ s_deadline' = HEARTBEAT_TIMEOUT
    BY <1>8, Zenon DEF GetPing, ServerReads, BeatInv, BeatType, sides, silences
  <2>2. s_silent <= pings[1] /\ pings[1] <= MaxDelay /\ pings[1] \in Nat
    BY <2>1 DEF BeatInv, InTime
  <2>3. s_deadline' + s_silent' <= HEARTBEAT_TIMEOUT + MaxDelay
    BY <2>1, <2>2, Units
  <2> QED
    BY <2>1, <2>3, Zenon DEF BeatInv, Quiet
<1>9. CASE PublishAddrs
  BY <1>9, Units, Zenon
     DEF PublishAddrs, silences, Quiet, Live, BeatInv, InTime, ServerReads,
         ClientReads, Present,
         BeatType, publish_server_addrs
<1>10. CASE WriteFrames
  BY <1>10, Units, Zenon
     DEF WriteFrames, Quiet, Live, BeatInv, InTime, ServerReads, ClientReads, Present,
         BeatType, timers, sides, silences
<1>11. CASE ServerTimesOut
  BY <1>11, Units, Zenon
     DEF ServerTimesOut, Quiet, Live, BeatInv, InTime, ServerReads, ClientReads, Present,
         BeatType, frames, timers, silences
<1>12. CASE ServerSeesClose
  BY <1>12, Units, Zenon
     DEF ServerSeesClose, Quiet, Live, BeatInv, InTime, ServerReads, ClientReads, Present,
         BeatType, frames, timers, silences
<1>13. CASE ServerHangs
  BY <1>13, Units, Zenon
     DEF ServerHangs, Quiet, Live, BeatInv, InTime, ServerReads, ClientReads, Present,
         BeatType, frames, timers, silences
<1>14. CASE PathCut
  BY <1>14, Units, Zenon
     DEF PathCut, Quiet, Live, BeatInv, InTime, ServerReads, ClientReads, Present,
         BeatType, frames, timers, silences
<1>15. CASE Tick
  <2>1. /\ UNCHANGED <<client, server, pong_rx>>
        /\ c_silent' <= c_silent + 1 /\ c_silent \in Nat /\ c_silent' \in Nat
        /\ s_silent' <= s_silent + 1 /\ s_silent \in Nat /\ s_silent' \in Nat
        /\ c_deadline \in Nat /\ s_deadline \in Nat
    <3>1. /\ UNCHANGED <<client, server, pong_rx>>
          /\ c_silent' \in {c_silent + 1, 0} /\ s_silent' \in {s_silent + 1, 0}
      BY <1>15, Zenon DEF Tick
    <3> QED
      BY <3>1 DEF BeatInv, BeatType
  <2>2. client = "up" => pong_rx = 0 /\ c_deadline > 0 /\ c_deadline' = c_deadline - 1
    BY <1>15, TickTimers, Zenon
  <2>3. server = "up" => s_deadline > 0 /\ s_deadline' = s_deadline - 1
    BY <1>15, TickTimers, Zenon
  <2> QED
    BY <2>1, <2>2, <2>3, Units DEF BeatInv, Quiet
<1>16. CASE UNCHANGED heartbeatVars
  BY <1>16, Zenon
     DEF heartbeatVars, Quiet, Live, BeatInv, InTime, ServerReads, ClientReads,
         Present, BeatType
<1>17. CASE StartHeartbeat
  <2>1. /\ c_silent' = 0 /\ pong_rx' = 0 /\ c_deadline' = HEARTBEAT_TIMEOUT
        /\ UNCHANGED <<server, s_deadline, s_silent>>
    BY <1>17, Zenon DEF StartHeartbeat, BeatInv, Before, frames, silences
  <2> QED
    BY <2>1, Units DEF BeatInv, Quiet
<1> QED
  BY <1>1, <1>2, <1>3, <1>4, <1>5, <1>6, <1>7, <1>8, <1>9, <1>10, <1>11, <1>12,
     <1>13, <1>14, <1>15, <1>16, <1>17
     DEF HeartbeatNext

\* The invariant behind both timeouts.
THEOREM BeatAlways == HeartbeatSpec => []BeatInv
<1>1. ASSUME HeartbeatInit
      PROVE  BeatInv
  <2>1. BeatType
    <3>1. <<>> \in Seq(Nat) /\ <<>> \in Seq(Frame)
      OBVIOUS
    <3>2. /\ 0 \in 0..HEARTBEAT_INTERVAL /\ 0 \in 0..MaxChanges /\ 0 \in Nat
          /\ 0 \in 0..HEARTBEAT_TIMEOUT
          /\ HEARTBEAT_TIMEOUT \in 0..HEARTBEAT_TIMEOUT
      BY Units
    <3> QED
      BY <1>1, <3>1, <3>2, Zenon DEF HeartbeatInit, BeatType
  <2>2. Before /\ InTime /\ Spaced
    BY <1>1, Units DEF HeartbeatInit, Before, InTime, Spaced
  <2>3. Window /\ Quiet
    BY <1>1, Units, SpanFacts DEF HeartbeatInit, Window, Quiet
  <2> QED
    BY <2>1, <2>2, <2>3, Zenon DEF BeatInv
<1>2. BeatInv /\ [HeartbeatNext]_heartbeatVars => BeatInv'
  BY BeatTypeKept, BeforeKept, InTimeKept, SpacedKept, WindowKept, QuietKept,
     Zenon DEF BeatInv
<1> QED
  BY <1>1, <1>2, PTL DEF HeartbeatSpec

\* A client whose server is gone or whose path is cut, and a session whose client is,
\* end within the timeout and MaxDelay, for any constants within the assumptions: the
\* deadline of run_heartbeat is polled although the ping is written in its select!.
THEOREM AlwaysDeadPeerNoticed == HeartbeatSpec => []DeadPeerNoticed
<1>1. BeatInv => DeadPeerNoticed
  BY Units DEF BeatInv, BeatType, Quiet, DeadPeerNoticed
<1> QED
  BY <1>1, BeatAlways, PTL

\* The next ping reaches the server before its deadline.
LEMMA NextPingKept ==
  BeatInv /\ NextPing /\ [HeartbeatNext]_heartbeatVars => NextPing'
<1> SUFFICES ASSUME BeatInv /\ NextPing, [HeartbeatNext]_heartbeatVars
             PROVE  NextPing'
  BY Zenon
<1>1. CASE SendPing
  <2>1. /\ pings \in Seq(Nat) /\ pings' = Append(pings, 0) /\ ticker = 0
        /\ UNCHANGED <<client, server, cut, s_deadline, setup>>
        /\ s_deadline \in Nat /\ setup \in Nat /\ client = "up"
    BY <1>1 DEF SendPing, BeatInv, BeatType, sides, silences
  <2>2. /\ pings' # <<>> /\ (pings = <<>> => pings'[1] = 0)
        /\ (pings # <<>> => pings'[1] = pings[1])
    BY <2>1
  <2> QED
    BY <2>1, <2>2, Units DEF NextPing, Live, Gap, Present, SlowSetup
<1>2. CASE ReadFrame
  BY <1>2, Units, Zenon
     DEF ReadFrame, NextPing, Live, Gap, Present, SlowSetup, BeatInv, BeatType,
         timers, sides, silences
<1>3. CASE TakePong
  BY <1>3, Units, Zenon
     DEF TakePong, NextPing, Live, Gap, Present, SlowSetup, BeatInv, BeatType, sides,
         silences
<1>4. CASE ClientTimesOut
  BY <1>4, Units, Zenon
     DEF ClientTimesOut, NextPing, Live, Gap, Present, SlowSetup, BeatInv, BeatType,
         frames, timers, silences
<1>5. CASE ClientSeesClose
  BY <1>5, Units, Zenon
     DEF ClientSeesClose, NextPing, Live, Gap, Present, SlowSetup, BeatInv, BeatType,
         frames, timers, silences
<1>6. CASE ClientEnds
  BY <1>6, Units, Zenon
     DEF ClientEnds, NextPing, Live, Gap, Present, SlowSetup, BeatInv, BeatType,
         frames, timers, silences
<1>7. CASE ServerEnds
  BY <1>7, Units, Zenon
     DEF ServerEnds, NextPing, Live, Gap, Present, SlowSetup, BeatInv, BeatType,
         frames, timers, silences
<1>8. CASE GetPing
  <2>1. /\ pings \in Seq(Nat) /\ pings' = Tail(pings) /\ pings # <<>>
        /\ UNCHANGED <<client, server, cut, ticker, setup>> /\ setup \in Nat
        /\ ticker \in 0..HEARTBEAT_INTERVAL /\ s_deadline' = HEARTBEAT_TIMEOUT
        /\ client # "setup"
    BY <1>8, Zenon DEF GetPing, BeatInv, BeatType, Before, sides, silences
  <2>2. pings' # <<>> => pings'[1] \in Nat
    BY <2>1
  <2>3. CASE pings' = <<>>
    BY <2>1, <2>3, Units DEF NextPing, Live, Gap, Present, SlowSetup
  <2>4. CASE pings' # <<>>
    <3>1. Gap' \in Nat
      BY <2>1, Units DEF Gap
    <3>2. HEARTBEAT_TIMEOUT + Gap' + pings'[1] >= HEARTBEAT_TIMEOUT
      BY <2>2, <2>4, <3>1, Units
    <3> QED
      BY <2>1, <2>4, <3>2, Zenon DEF NextPing, Live, Present, SlowSetup
  <2> QED
    BY <2>3, <2>4, Zenon
<1>9. CASE PublishAddrs
  BY <1>9, Units, Zenon
     DEF PublishAddrs, silences, NextPing, Live, Gap, Present, SlowSetup, BeatInv,
         BeatType
<1>10. CASE WriteFrames
  BY <1>10, Units, Zenon
     DEF WriteFrames, NextPing, Live, Gap, Present, SlowSetup, BeatInv, BeatType,
         timers, sides, silences
<1>11. CASE ServerTimesOut
  <2>1. /\ s_deadline = 0 /\ server = "up" /\ server' # "up"
        /\ cut \/ (pings # <<>> => Head(pings) < MaxDelay)
        /\ UNCHANGED <<client, cut, setup>> /\ ticker \in Nat /\ setup \in Nat
        /\ pings \in Seq(Nat)
    BY <1>11 DEF ServerTimesOut, BeatInv, BeatType, silences
  <2>2. CASE client = "setup"
    <3>1. SlowSetup
      BY <2>1, <2>2, Units DEF NextPing, SlowSetup
    <3> QED
      BY <2>1, <3>1, Zenon DEF NextPing, Live, SlowSetup
  <2>3. CASE Live
    <3>1. pings # <<>> => pings[1] \in Nat /\ pings[1] < MaxDelay
      BY <2>1, <2>3 DEF Live
    <3>2. SlowSetup
      BY <2>1, <2>3, <3>1, Units, TimeoutAssumption DEF NextPing, Gap, SlowSetup
    <3> QED
      BY <2>1, <3>2, Zenon DEF NextPing, Live, SlowSetup
  <2>4. CASE cut \/ ~Present
    BY <2>1, <2>4, Zenon DEF NextPing, Live, Present
  <2> QED
    BY <2>1, <2>2, <2>3, <2>4, Zenon DEF Live, Present
<1>12. CASE ServerSeesClose
  BY <1>12, Units, Zenon
     DEF ServerSeesClose, NextPing, Live, Gap, Present, SlowSetup, BeatInv, BeatType,
         frames, timers, silences
<1>13. CASE ServerHangs
  BY <1>13, Units, Zenon
     DEF ServerHangs, NextPing, Live, Gap, Present, SlowSetup, BeatInv, BeatType,
         frames, timers, silences
<1>14. CASE PathCut
  BY <1>14, Units, Zenon
     DEF PathCut, NextPing, Live, Gap, Present, SlowSetup, BeatInv, BeatType, frames,
         timers, silences
<1>15. CASE Tick
  <2>1. ASSUME Live'
        PROVE  /\ Live /\ ticker > 0 /\ ticker' = ticker - 1 /\ ticker \in Nat
               /\ s_deadline > 0 /\ s_deadline' = s_deadline - 1 /\ s_deadline \in Nat
               /\ pings \in Seq(Nat) /\ pings' = Older(pings) /\ setup' = setup
               /\ Gap \in Nat /\ Gap' = Gap
    BY <1>15, <2>1, TickTimers, Units DEF Tick, Live, BeatInv, BeatType, Gap
  <2>2. ASSUME Live', pings = <<>>
        PROVE  pings' = <<>> /\ s_deadline' + Gap' >= HEARTBEAT_TIMEOUT + ticker'
    <3>1. Len(pings') = 0 /\ pings' \in Seq(Nat)
      BY <2>1, <2>2, OlderFacts, Zenon
    <3> QED
      BY <2>1, <2>2, <3>1, Units DEF NextPing
  <2>3. ASSUME Live', pings # <<>>
        PROVE  pings' # <<>> /\ s_deadline' + Gap' + pings'[1] >= HEARTBEAT_TIMEOUT
    <3>1. 1 \in 1..Len(pings) /\ pings[1] \in Nat
      BY <2>1, <2>3
    <3>2. Len(pings') = Len(pings) /\ pings'[1] = pings[1] + 1
      BY <2>1, <2>3, <3>1, OlderFacts, Zenon
    <3> QED
      BY <2>1, <2>3, <3>1, <3>2, Units DEF NextPing
  <2>4. UNCHANGED <<client, server, cut>> /\ setup' \in {setup, setup + 1} /\ setup \in Nat
    BY <1>15, Zenon DEF Tick, BeatInv, BeatType
  <2>5. ASSUME client' = "setup", server' = "up"
        PROVE  s_deadline' + setup' = HEARTBEAT_TIMEOUT
    <3>1. /\ client = "setup" /\ server = "up" /\ setup' = setup + 1
          /\ s_deadline' = s_deadline - 1 /\ s_deadline \in Nat
      BY <1>15, <2>4, <2>5, TickTimers DEF Tick, BeatInv, BeatType
    <3> QED
      BY <2>4, <3>1, Units DEF NextPing
  <2>6. SlowSetup => SlowSetup'
    <3>1. setup' = setup \/ setup' = setup + 1
      BY <2>4, Zenon
    <3>2. \A n \in Nat : n + MaxDelay >= HEARTBEAT_TIMEOUT
                        => (n + 1) + MaxDelay >= HEARTBEAT_TIMEOUT
      BY Units
    <3> QED
      BY <2>4, <3>1, <3>2, Zenon DEF SlowSetup
  <2> QED
    BY <2>2, <2>3, <2>4, <2>5, <2>6, Zenon DEF NextPing, Present
<1>16. CASE UNCHANGED heartbeatVars
  BY <1>16, Zenon
     DEF heartbeatVars, NextPing, Live, Gap, Present, SlowSetup, BeatInv, BeatType
<1>17. CASE StartHeartbeat
  <2>1. /\ client = "setup" /\ client' = "up" /\ ticker' = 0 /\ pings' = <<>>
        /\ UNCHANGED <<server, cut, s_deadline, setup>>
        /\ s_deadline \in Nat /\ setup \in Nat
    BY <1>17 DEF StartHeartbeat, BeatInv, BeatType, Before, frames, silences
  <2>2. server = "up" => s_deadline' + Gap' >= HEARTBEAT_TIMEOUT + ticker'
    BY <2>1, Units DEF NextPing, Gap
  <2> QED
    BY <2>1, <2>2, Zenon DEF NextPing, Live, Present, SlowSetup
<1> QED
  BY <1>1, <1>2, <1>3, <1>4, <1>5, <1>6, <1>7, <1>8, <1>9, <1>10, <1>11, <1>12,
     <1>13, <1>14, <1>15, <1>16, <1>17, Zenon
     DEF HeartbeatNext

\* The server's half of the promise, without a condition on the queue: a session whose
\* client is there and whose path delivers is closed by run_heartbeat_responder's
\* timeout only when setup and the first ping's way take the whole deadline.
THEOREM SessionNeverTimedOut ==
  HeartbeatSpec => [](server = "timed_out" => cut \/ ~Present \/ SlowSetup)
<1>1. HeartbeatInit => NextPing
  BY Units DEF HeartbeatInit, NextPing, Live
<1>2. NextPing => (server = "timed_out" => cut \/ ~Present \/ SlowSetup)
  BY Zenon DEF NextPing
<1> QED
  BY <1>1, <1>2, BeatAlways, NextPingKept, PTL DEF HeartbeatSpec

\* The pong of the next ping reaches the client before its deadline.
LEMMA NextPongKept ==
  BeatInv /\ RoomForPong /\ NextPong /\ [HeartbeatNext]_heartbeatVars => NextPong'
<1> SUFFICES ASSUME BeatInv /\ RoomForPong /\ NextPong, [HeartbeatNext]_heartbeatVars
             PROVE  NextPong'
  BY Zenon
<1>1. CASE SendPing
  <2>1. /\ pings \in Seq(Nat) /\ pings' = Append(pings, 0) /\ ticker = 0
        /\ UNCHANGED <<client, server, cut, c_deadline, pongs, control, pong_rx>>
        /\ c_deadline \in Nat
    BY <1>1 DEF SendPing, BeatInv, BeatType, sides
  <2>2. /\ pings' # <<>> /\ (pings = <<>> => pings'[1] = 0)
        /\ (pings # <<>> => pings'[1] = pings[1])
    BY <2>1
  <2>3. (PongAmong(pongs) => PongAmong(pongs)') /\ (PongAmong(control) => PongAmong(control)')
    BY <2>1, Zenon DEF PongAmong
  <2>4. ASSUME pings = <<>>, c_deadline + HEARTBEAT_INTERVAL >= HEARTBEAT_TIMEOUT + ticker
        PROVE  c_deadline' + pings'[1] + HEARTBEAT_INTERVAL >= HEARTBEAT_TIMEOUT
    BY <2>1, <2>2, <2>4, Units
  <2> QED
    BY <2>1, <2>2, <2>3, <2>4, Zenon DEF NextPong, Live
<1>2. CASE ReadFrame
  <2>1. /\ client = "up" /\ ~cut /\ pongs # <<>> /\ pongs \in Seq(Frame)
        /\ pong_rx \in Nat
        /\ pongs' = Tail(pongs) /\ c_deadline \in Nat
        /\ UNCHANGED <<client, server, cut, c_deadline, ticker, pings, control>>
    BY <1>2 DEF ReadFrame, BeatInv, BeatType, sides, timers
  <2>2. /\ pong_rx' \in Nat /\ pong_rx' >= pong_rx
        /\ pongs[1].kind = "pong" => pong_rx' > 0
    BY <1>2, <2>1, Units DEF ReadFrame
  <2>3. ASSUME PongAmong(pongs), Live
        PROVE  \/ /\ pong_rx' > 0
                  /\ c_deadline + 2 * MaxDelay + HEARTBEAT_INTERVAL >= HEARTBEAT_TIMEOUT
               \/ PongAmong(pongs)'
    <3>1. PICK i \in 1..Len(pongs) :
            /\ pongs[i].kind = "pong"
            /\ c_deadline + pongs[i].age + MaxDelay + HEARTBEAT_INTERVAL >= HEARTBEAT_TIMEOUT
      BY <2>3, Zenon DEF PongAmong
    <3>2. pongs[i].age \in Nat /\ pongs[i].age <= MaxDelay
      BY <2>1, <3>1, FrameAges, Zenon DEF BeatInv, InTime, ClientReads, Present
    <3>3. c_deadline + 2 * MaxDelay + HEARTBEAT_INTERVAL >= HEARTBEAT_TIMEOUT
      <4>1. \A d, a \in Nat :
              /\ a <= MaxDelay
              /\ d + a + MaxDelay + HEARTBEAT_INTERVAL >= HEARTBEAT_TIMEOUT
              => d + 2 * MaxDelay + HEARTBEAT_INTERVAL >= HEARTBEAT_TIMEOUT
        BY Units
      <4> QED
        BY <2>1, <3>1, <3>2, <4>1, Zenon
    <3>4. CASE i = 1
      BY <2>2, <3>1, <3>3, <3>4, Zenon
    <3>5. CASE i # 1
      <4>1. i - 1 \in 1..Len(pongs') /\ pongs'[i - 1] = pongs[i]
        BY <2>1, <3>5
      <4> QED
        BY <2>1, <3>1, <4>1, Zenon DEF PongAmong
    <3> QED
      BY <3>4, <3>5, Zenon
  <2>4. PongAmong(control) => PongAmong(control)'
    BY <2>1, Zenon DEF PongAmong
  <2> QED
    BY <2>1, <2>2, <2>3, <2>4 DEF NextPong, Live
<1>3. CASE TakePong
  BY <1>3, Units DEF TakePong, NextPong, PongAmong, Live, BeatInv, BeatType, sides
<1>4. CASE ClientTimesOut
  <2>1. client = "up" /\ c_deadline = 0 /\ UNCHANGED <<server, cut>> /\ client' # "up"
    BY <1>4, Zenon DEF ClientTimesOut
  <2>2. ASSUME Live
        PROVE  FALSE
    <3>1. /\ \A i \in 1..Len(pongs) : pongs[i].age \in Nat /\ pongs[i].age <= MaxDelay
          /\ \A i \in 1..Len(control) : control[i].age \in Nat /\ control[i].age <= MaxDelay
      BY <2>2, FrameAges, Zenon
         DEF BeatInv, BeatType, InTime, Live, ServerReads, ClientReads, Present
    <3>2. ~PongAmong(pongs) /\ ~PongAmong(control)
      <4>1. \A age \in 0..MaxDelay :
              ~(c_deadline + age + MaxDelay + HEARTBEAT_INTERVAL >= HEARTBEAT_TIMEOUT)
        BY <2>1, Units, TimeoutAssumption
      <4>2. /\ \A i \in 1..Len(pongs) : pongs[i].age \in 0..MaxDelay
            /\ \A i \in 1..Len(control) : control[i].age \in 0..MaxDelay
        BY <3>1, Units
      <4> QED
        BY <4>1, <4>2, Zenon DEF PongAmong
    <3>3. pings \in Seq(Nat) /\ ticker \in Nat
      BY DEF BeatInv, BeatType
    <3>4. pings # <<>> => pings[1] \in Nat /\ pings[1] <= MaxDelay
      BY <2>2, <3>3 DEF BeatInv, InTime, Live, ServerReads
    <3> QED
      BY <2>1, <2>2, <3>2, <3>3, <3>4, Units, TimeoutAssumption DEF NextPong
  <2> QED
    BY <2>1, <2>2, Zenon DEF NextPong, Live
<1>5. CASE ClientSeesClose
  BY <1>5, Units, Zenon
     DEF ClientSeesClose, NextPong, PongAmong, Live, BeatInv, BeatType, frames,
         timers
<1>6. CASE ClientEnds
  BY <1>6, Units, Zenon
     DEF ClientEnds, NextPong, PongAmong, Live, BeatInv, BeatType, frames, timers
<1>7. CASE ServerEnds
  BY <1>7, Units, Zenon
     DEF ServerEnds, NextPong, PongAmong, Live, BeatInv, BeatType, frames, timers
<1>8. CASE GetPing
  <2>1. /\ server = "up" /\ ~cut /\ pings # <<>> /\ pings \in Seq(Nat)
        /\ control \in Seq(Frame)
        /\ c_deadline \in Nat
        /\ UNCHANGED <<client, server, cut, c_deadline, pongs, pong_rx>>
    BY <1>8 DEF GetPing, BeatInv, BeatType, sides
  <2>2. /\ \A i \in 1..Len(control) : i \in 1..Len(control') /\ control'[i] = control[i]
        /\ \E i \in 1..Len(control') : control'[i].kind = "pong" /\ control'[i].age \in Nat
    <3>1. CASE Len(control) < CONTROL_CHANNEL_SIZE
      <4>1. control' = Append(control, Pong(0))
        BY <1>8, <3>1, Zenon DEF GetPing
      <4>2. /\ Len(control') = Len(control) + 1 /\ control'[Len(control) + 1] = Pong(0)
            /\ \A i \in 1..Len(control) : control'[i] = control[i]
        BY <2>1, <4>1, FrameTypes
      <4>3. /\ Len(control) + 1 \in 1..Len(control')
            /\ \A i \in 1..Len(control) : i \in 1..Len(control')
        BY <2>1, <4>2
      <4>4. control'[Len(control) + 1].kind = "pong" /\ control'[Len(control) + 1].age \in Nat
        BY <4>2, FrameTypes
      <4> QED
        BY <4>2, <4>3, <4>4, Zenon
    <3>2. CASE ~(Len(control) < CONTROL_CHANNEL_SIZE)
      <4>1. control' = control
        BY <1>8, <3>2, Zenon DEF GetPing
      <4> QED
        BY <2>1, <3>2, <4>1, FrameAges, Zenon DEF RoomForPong, ServerReads
    <3> QED
      BY <3>1, <3>2, Zenon
  <2>3. PongAmong(control) => PongAmong(control)'
    BY <2>1, <2>2, Zenon DEF PongAmong
  <2>4. PongAmong(pongs) => PongAmong(pongs)'
    BY <2>1, Zenon DEF PongAmong
  <2>5. pings[1] \in Nat /\ pings[1] <= MaxDelay
    BY <2>1 DEF BeatInv, InTime, ServerReads
  <2>6. c_deadline + pings[1] + HEARTBEAT_INTERVAL >= HEARTBEAT_TIMEOUT => PongAmong(control)'
    <3>1. PICK i \in 1..Len(control') : control'[i].kind = "pong" /\ control'[i].age \in Nat
      BY <2>2, Zenon
    <3>2. c_deadline + pings[1] + HEARTBEAT_INTERVAL >= HEARTBEAT_TIMEOUT =>
            c_deadline' + control'[i].age + MaxDelay + HEARTBEAT_INTERVAL >= HEARTBEAT_TIMEOUT
      <4>1. \A c, p, a \in Nat :
              p <= MaxDelay /\ c + p + HEARTBEAT_INTERVAL >= HEARTBEAT_TIMEOUT
                => c + a + MaxDelay + HEARTBEAT_INTERVAL >= HEARTBEAT_TIMEOUT
        BY Units
      <4>2. c_deadline \in Nat /\ c_deadline' = c_deadline
        BY <2>1, Zenon
      <4> QED
        BY <2>5, <3>1, <4>1, <4>2, Zenon
    <3> QED
      BY <3>1, <3>2, Zenon DEF PongAmong
  <2> QED
    BY <2>1, <2>3, <2>4, <2>6, Zenon DEF NextPong, Live
<1>9. CASE PublishAddrs
  <2>1. /\ control \in Seq(Frame)
        /\ UNCHANGED <<client, server, cut, c_deadline, ticker, pings, pongs, pong_rx>>
    BY <1>9, Zenon DEF PublishAddrs, BeatInv, BeatType
  <2>2. \A i \in 1..Len(control) : i \in 1..Len(control') /\ control'[i] = control[i]
    BY <1>9, <2>1, FrameTypes DEF PublishAddrs, publish_server_addrs
  <2>3. PongAmong(control) => PongAmong(control)'
    BY <2>1, <2>2, Zenon DEF PongAmong
  <2>4. PongAmong(pongs) => PongAmong(pongs)'
    BY <2>1, Zenon DEF PongAmong
  <2> QED
    BY <2>1, <2>3, <2>4, Zenon DEF NextPong, Live
<1>10. CASE WriteFrames
  <2>1. /\ control \in Seq(Frame) /\ pongs \in Seq(Frame) /\ pongs' = pongs \o control
        /\ UNCHANGED <<client, server, cut, c_deadline, ticker, pings, pong_rx>>
    BY <1>10, Zenon DEF WriteFrames, BeatInv, BeatType, sides, timers
  <2>2. /\ \A i \in 1..Len(pongs) : i \in 1..Len(pongs') /\ pongs'[i] = pongs[i]
        /\ \A i \in 1..Len(control) :
             Len(pongs) + i \in 1..Len(pongs') /\ pongs'[Len(pongs) + i] = control[i]
    BY <2>1
  <2>3. PongAmong(pongs) => PongAmong(pongs)'
    BY <2>1, <2>2, Zenon DEF PongAmong
  <2>4. PongAmong(control) => PongAmong(pongs)'
    BY <2>1, <2>2, Zenon DEF PongAmong
  <2> QED
    BY <2>1, <2>3, <2>4, Zenon DEF NextPong, Live
<1>11. CASE ServerTimesOut
  BY <1>11, Units, Zenon
     DEF ServerTimesOut, NextPong, PongAmong, Live, BeatInv, BeatType, frames,
         timers
<1>12. CASE ServerSeesClose
  BY <1>12, Units, Zenon
     DEF ServerSeesClose, NextPong, PongAmong, Live, BeatInv, BeatType, frames,
         timers
<1>13. CASE ServerHangs
  BY <1>13, Units, Zenon
     DEF ServerHangs, NextPong, PongAmong, Live, BeatInv, BeatType, frames,
         timers
<1>14. CASE PathCut
  BY <1>14, Units, Zenon
     DEF PathCut, NextPong, PongAmong, Live, BeatInv, BeatType, frames, timers
<1>15. CASE Tick
  <2>1. UNCHANGED <<client, server, cut>>
    BY <1>15, Zenon DEF Tick
  <2>2. ASSUME Live
        PROVE  /\ ticker > 0 /\ ticker' = ticker - 1 /\ ticker \in Nat /\ pong_rx = 0
               /\ c_deadline > 0 /\ c_deadline' = c_deadline - 1 /\ c_deadline \in Nat
               /\ pings \in Seq(Nat) /\ pings' = Older(pings)
               /\ pongs \in Seq(Frame) /\ pongs' = OlderFrames(pongs)
               /\ control \in Seq(Frame) /\ control' = OlderFrames(control)
    BY <1>15, <2>2, TickTimers DEF Tick, Live, BeatInv, BeatType
  <2>3. ASSUME Live, PongAmong(pongs)
        PROVE  PongAmong(pongs)'
    <3>1. PICK i \in 1..Len(pongs) :
            /\ pongs[i].kind = "pong"
            /\ c_deadline + pongs[i].age + MaxDelay + HEARTBEAT_INTERVAL >= HEARTBEAT_TIMEOUT
      BY <2>3, Zenon DEF PongAmong
    <3>2. pongs[i].age \in Nat
      BY <2>2, <2>3, FrameAges, Zenon
    <3>3. /\ i \in 1..Len(pongs') /\ pongs'[i].kind = "pong"
          /\ pongs'[i].age = pongs[i].age + 1
      <4>1. /\ Len(pongs') = Len(pongs)
            /\ \A j \in 1..Len(pongs) : /\ pongs'[j].age = pongs[j].age + 1
                                        /\ pongs'[j].kind = pongs[j].kind
        BY <2>2, <2>3, OlderFacts
      <4> QED
        BY <3>1, <4>1, Zenon
    <3>4. c_deadline' + pongs'[i].age + MaxDelay + HEARTBEAT_INTERVAL >= HEARTBEAT_TIMEOUT
      BY <2>2, <2>3, <3>1, <3>2, <3>3, Units
    <3> QED
      BY <3>3, <3>4, Zenon DEF PongAmong
  <2>4. ASSUME Live, PongAmong(control)
        PROVE  PongAmong(control)'
    <3>1. PICK i \in 1..Len(control) :
            /\ control[i].kind = "pong"
            /\ c_deadline + control[i].age + MaxDelay + HEARTBEAT_INTERVAL >= HEARTBEAT_TIMEOUT
      BY <2>4 DEF PongAmong
    <3>2. control[i].age \in Nat
      BY <2>2, <2>4, FrameAges, Zenon
    <3>3. /\ i \in 1..Len(control') /\ control'[i].kind = "pong"
          /\ control'[i].age = control[i].age + 1
      <4>1. /\ Len(control') = Len(control)
            /\ \A j \in 1..Len(control) : /\ control'[j].age = control[j].age + 1
                                        /\ control'[j].kind = control[j].kind
        BY <2>2, <2>4, OlderFacts
      <4> QED
        BY <3>1, <4>1, Zenon
    <3>4. c_deadline' + control'[i].age + MaxDelay + HEARTBEAT_INTERVAL >= HEARTBEAT_TIMEOUT
      BY <2>2, <2>4, <3>1, <3>2, <3>3, Units
    <3> QED
      BY <3>3, <3>4 DEF PongAmong
  <2>5. ASSUME Live
        PROVE  /\ pings = <<>> => pings' = <<>>
               /\ pings # <<>> => pings' # <<>> /\ pings[1] \in Nat /\ pings'[1] = pings[1] + 1
    <3>1. /\ pings \in Seq(Nat) /\ pings' \in Seq(Nat) /\ Len(pings') = Len(pings)
          /\ \A i \in 1..Len(pings) : pings'[i] = pings[i] + 1
      BY <2>2, <2>5, OlderFacts, Zenon
    <3> QED
      BY <3>1
  <2>6. ASSUME Live, pings # <<>>,
               c_deadline + pings[1] + HEARTBEAT_INTERVAL >= HEARTBEAT_TIMEOUT
        PROVE  pings' # <<>> /\ c_deadline' + pings'[1] + HEARTBEAT_INTERVAL >= HEARTBEAT_TIMEOUT
    <3>1. /\ c_deadline \in Nat /\ c_deadline > 0 /\ c_deadline' = c_deadline - 1
          /\ pings[1] \in Nat /\ pings' # <<>> /\ pings'[1] = pings[1] + 1
      BY <2>2, <2>5, <2>6, Zenon
    <3> QED
      BY <2>6, <3>1, Units
  <2>7. ASSUME Live, pings = <<>>,
               c_deadline + HEARTBEAT_INTERVAL >= HEARTBEAT_TIMEOUT + ticker
        PROVE  pings' = <<>> /\ c_deadline' + HEARTBEAT_INTERVAL >= HEARTBEAT_TIMEOUT + ticker'
    BY <2>2, <2>5, <2>7, Units
  <2>8. Live => pong_rx = 0
    BY <2>2, Zenon
  <2> QED
    BY <2>1, <2>3, <2>4, <2>6, <2>7, <2>8 DEF NextPong, Live
<1>16. CASE UNCHANGED heartbeatVars
  BY <1>16, Zenon DEF heartbeatVars, NextPong, PongAmong, Live, BeatInv, BeatType
<1>17. CASE StartHeartbeat
  <2>1. /\ pings' = <<>> /\ client' = "up"
        /\ c_deadline' + HEARTBEAT_INTERVAL >= HEARTBEAT_TIMEOUT + ticker'
    BY <1>17, Units DEF StartHeartbeat, BeatInv, Before, frames
  <2> QED
    BY <2>1, Zenon DEF NextPong
<1> QED
  BY <1>1, <1>2, <1>3, <1>4, <1>5, <1>6, <1>7, <1>8, <1>9, <1>10, <1>11, <1>12,
     <1>13, <1>14, <1>15, <1>16, <1>17, Zenon
     DEF HeartbeatNext

\* While both sides run and the path delivers, neither gives up, as long as address
\* publications alone do not fill the queue in front of a pong, and setup leaves the
\* first ping its way.
THEOREM AlwaysNoFalseAlarm ==
  HeartbeatSpec /\ []RoomForPong => []NoFalseAlarm
<1>1. HeartbeatInit => NextPong
  BY Units DEF HeartbeatInit, NextPong, Live
<1>2. NextPong /\ (server = "timed_out" => cut \/ ~Present \/ SlowSetup) => NoFalseAlarm
  BY Zenon DEF NextPong, NoFalseAlarm
<1> QED
  BY <1>1, <1>2, BeatAlways, NextPongKept, SessionNeverTimedOut, PTL DEF HeartbeatSpec

\* The interval publishes once while the queue waits to be written.
LEMMA FewAddrsKept ==
  ASSUME SERVER_ADDR_PUBLISH_INTERVAL > MaxDelay,
         BeatInv, FewAddrs, [HeartbeatNext]_heartbeatVars
  PROVE  FewAddrs'
<1>1. CASE SendPing
  BY <1>1, Units, Zenon DEF SendPing, FewAddrs, ServerReads, BeatInv, BeatType, sides
<1>2. CASE ReadFrame
  BY <1>2, Units, Zenon
     DEF ReadFrame, FewAddrs, ServerReads, BeatInv, BeatType, timers, sides
<1>3. CASE TakePong
  BY <1>3, Units, Zenon DEF TakePong, FewAddrs, ServerReads, BeatInv, BeatType, sides
<1>4. CASE ClientTimesOut
  BY <1>4, Units, Zenon
     DEF ClientTimesOut, FewAddrs, ServerReads, BeatInv, BeatType, frames, timers
<1>5. CASE ClientSeesClose
  BY <1>5, Units, Zenon
     DEF ClientSeesClose, FewAddrs, ServerReads, BeatInv, BeatType, frames,
         timers
<1>6. CASE ClientEnds
  BY <1>6, Units, Zenon
     DEF ClientEnds, FewAddrs, ServerReads, BeatInv, BeatType, frames, timers
<1>7. CASE ServerEnds
  BY <1>7, Units, Zenon
     DEF ServerEnds, FewAddrs, ServerReads, BeatInv, BeatType, frames, timers
<1>8. CASE GetPing
  <2>1. /\ control \in Seq(Frame) /\ server = "up" /\ ~cut
        /\ UNCHANGED <<server, cut, changes, publish>>
    BY <1>8, Zenon DEF GetPing, BeatInv, BeatType, sides
  <2>2. CASE control' = control
    BY <2>1, <2>2, Zenon DEF FewAddrs, ServerReads
  <2>3. CASE control' = Append(control, Pong(0))
    <3>1. Len(control') = Len(control) + 1 /\ control'[Len(control) + 1] = Pong(0)
      BY <2>1, <2>3, FrameTypes
    <3> QED
      BY <2>1, <3>1, FrameTypes DEF FewAddrs
  <2> QED
    BY <1>8, <2>2, <2>3, Zenon DEF GetPing
<1>9. CASE PublishAddrs
  <2> SUFFICES ASSUME ~cut
               PROVE  FewAddrs'
    BY <1>9, Zenon DEF PublishAddrs, FewAddrs, ServerReads
  <2>1. /\ control \in Seq(Frame) /\ server = "up" /\ UNCHANGED <<server, cut>>
        /\ changes \in Nat /\ publish \in Nat
    BY <1>9 DEF PublishAddrs, BeatInv, BeatType
  <2>2. \A i \in 1..Len(control) : control[i].age \in Nat /\ control[i].age <= MaxDelay
    BY <2>1, FrameAges, Zenon DEF BeatInv, InTime, ServerReads
  <2>3. CASE control' = control
    <3>1. changes' \in Nat /\ changes' >= changes /\ publish' \in Nat /\ publish' >= publish
      BY <1>9, <2>1, Units DEF PublishAddrs
    <3> QED
      BY <2>1, <2>2, <2>3, <3>1, Units DEF FewAddrs, ServerReads
  <2>4. CASE control' = Append(control, Addrs(0))
    <3>1. /\ Len(control') = Len(control) + 1 /\ control'[Len(control) + 1].age = 0
          /\ \A i \in 1..Len(control) : i \in 1..Len(control') /\ control'[i] = control[i]
          /\ Len(control) + 1 \in 1..Len(control')
      BY <2>1, <2>4, FrameTypes
    <3>2. CASE \E i \in 1..Len(control) : control[i].kind = "pong"
      BY <3>1, <3>2, Zenon DEF FewAddrs
    <3>3. CASE publish = 0 /\ ~\E i \in 1..Len(control) : control[i].kind = "pong"
      <4>1. changes' = changes /\ publish' = SERVER_ADDR_PUBLISH_INTERVAL
        BY <1>9, <2>1, <3>3 DEF PublishAddrs
      <4>2. Len(control) <= changes
        BY <2>1, <2>2, <3>3, Units DEF FewAddrs, ServerReads
      <4>3. Len(control') <= changes' + 1
        BY <2>1, <3>1, <4>1, <4>2
      <4>4. control'[Len(control) + 1].age + publish' >= SERVER_ADDR_PUBLISH_INTERVAL
        BY <3>1, <4>1, Units
      <4> QED
        BY <3>1, <4>3, <4>4, Zenon DEF FewAddrs
    <3>4. CASE publish > 0 /\ ~\E i \in 1..Len(control) : control[i].kind = "pong"
      <4>1. changes' = changes + 1 /\ publish' = publish
        BY <1>9, <2>1, <3>4 DEF PublishAddrs
      <4>2. CASE Len(control) <= changes
        BY <2>1, <3>1, <4>1, <4>2 DEF FewAddrs
      <4>3. CASE ~(Len(control) <= changes)
        <5>1. /\ Len(control) <= changes + 1
              /\ \E i \in 1..Len(control) :
                   control[i].age + publish >= SERVER_ADDR_PUBLISH_INTERVAL
          BY <2>1, <3>4, <4>3, Zenon DEF FewAddrs, ServerReads
        <5> QED
          BY <2>1, <3>1, <4>1, <5>1 DEF FewAddrs
      <4> QED
        BY <4>2, <4>3, Zenon
    <3> QED
      BY <2>1, <3>2, <3>3, <3>4
  <2> QED
    BY <1>9, <2>3, <2>4, Zenon DEF PublishAddrs, publish_server_addrs
<1>10. CASE WriteFrames
  BY <1>10, Units
     DEF WriteFrames, FewAddrs, ServerReads, BeatInv, BeatType, timers, sides
<1>11. CASE ServerTimesOut
  BY <1>11, Units, Zenon
     DEF ServerTimesOut, FewAddrs, ServerReads, BeatInv, BeatType, frames, timers
<1>12. CASE ServerSeesClose
  BY <1>12, Units, Zenon
     DEF ServerSeesClose, FewAddrs, ServerReads, BeatInv, BeatType, frames,
         timers
<1>13. CASE ServerHangs
  BY <1>13, Units, Zenon
     DEF ServerHangs, FewAddrs, ServerReads, BeatInv, BeatType, frames, timers
<1>14. CASE PathCut
  BY <1>14, Units, Zenon
     DEF PathCut, FewAddrs, ServerReads, BeatInv, BeatType, frames, timers
<1>15. CASE Tick
  <2> SUFFICES ASSUME ServerReads
               PROVE  FewAddrs'
    BY <1>15, Zenon DEF Tick, FewAddrs, ServerReads
  <2>1. /\ control \in Seq(Frame) /\ control' = OlderFrames(control)
        /\ publish \in Nat /\ publish > 0 /\ publish' = publish - 1
        /\ UNCHANGED <<server, cut, changes>>
    BY <1>15, TickTimers, Zenon DEF Tick, ServerReads, BeatInv, BeatType
  <2>2. /\ Len(control') = Len(control)
        /\ \A i \in 1..Len(control) :
             /\ control[i].age \in Nat /\ control'[i].age = control[i].age + 1
             /\ control'[i].kind = control[i].kind
    BY <2>1, OlderFacts, FrameAges, Zenon
  <2>3. \A i \in 1..Len(control) : control'[i].age + publish' = control[i].age + publish
    <3>1. \A a \in Nat : (a + 1) + publish' = a + publish
      BY <2>1
    <3> QED
      BY <2>2, <3>1, Zenon
  <2> QED
    BY <2>1, <2>2, <2>3, Zenon DEF FewAddrs
<1>16. CASE UNCHANGED heartbeatVars
  BY <1>16, Zenon DEF heartbeatVars, FewAddrs, ServerReads, BeatInv, BeatType
<1>17. CASE StartHeartbeat
  BY <1>17, Zenon
     DEF StartHeartbeat, FewAddrs, ServerReads, frames
<1> QED
  BY <1>1, <1>2, <1>3, <1>4, <1>5, <1>6, <1>7, <1>8, <1>9, <1>10, <1>11, <1>12,
     <1>13, <1>14, <1>15, <1>16, <1>17, Zenon
     DEF HeartbeatNext

\* They do not where the queue holds more than the changes and one publication:
\* CONTROL_CHANNEL_SIZE is 1024, and the publisher's interval is far above MaxDelay.
THEOREM PublicationsLeaveRoom ==
  ASSUME SERVER_ADDR_PUBLISH_INTERVAL > MaxDelay, CONTROL_CHANNEL_SIZE > MaxChanges + 1
  PROVE  HeartbeatSpec => []RoomForPong
<1>1. HeartbeatInit => FewAddrs
  BY Units DEF HeartbeatInit, FewAddrs
<1>2. BeatInv /\ FewAddrs => RoomForPong
  <2> SUFFICES ASSUME BeatInv, FewAddrs, ServerReads
               PROVE  \/ Len(control) < CONTROL_CHANNEL_SIZE
                      \/ \E i \in 1..Len(control) : control[i].kind = "pong"
    BY Zenon DEF RoomForPong
  <2>1. Len(control) \in Nat /\ changes \in 0..MaxChanges
    BY DEF BeatInv, BeatType
  <2> QED
    BY <2>1, Units DEF FewAddrs
<1>3. BeatInv /\ FewAddrs /\ [HeartbeatNext]_heartbeatVars => FewAddrs'
  BY FewAddrsKept, Zenon
<1> QED
  BY <1>1, <1>2, <1>3, BeatAlways, PTL DEF HeartbeatSpec

-----------------------------------------------------------------------------
(* The reconnect loop. *)

\* The steps of connect before the tunnel, and all.
Attempt == {"connect", "handshake", "check", "setup", "routes"}
Places == Attempt \cup {"tunnel", "ended", "failed", "backoff", "exited"}

\* What an attempt may fail with.
AttemptErrors == {"Network", "Signaling"} \cup Fatal

\* The counter of an outage and the retries made in it.
CountInv ==
  /\ pc \in Places /\ max_attempts \in Caps
  /\ failures \in 0..U32MAX /\ retried \in 0..U32MAX
  /\ max_attempts # 0 => retried <= max_attempts
  /\ pc \in Attempt => failures = retried
  /\ pc \in {"tunnel", "ended"} => retried = 0
  /\ pc = "ended" => err \in {"ConnectionLost", "TunDevice"}
  /\ pc = "failed" => /\ err \in Recoverable \cup Fatal
                      /\ IF err = "ConnectionLost" THEN retried = 0
                         ELSE err \in Recoverable => failures = retried
  /\ pc = "backoff" => /\ failures >= 1 /\ failures = Least(retried + 1, U32MAX)
                       /\ max_attempts # 0 => failures <= max_attempts
  /\ err = "MaxReconnectAttemptsExceeded" => pc = "exited"

\* Both families complete or absent: what create_tun_device can build.
Complete(p) ==
  /\ (p.assigned_ip = None) = (p.network = None)
  /\ (p.assigned_ip6 = None) = (p.network6 = None)
  /\ (p.network = None) = (p.server_ip = None)
  /\ (p.network6 = None) = (p.server_ip6 = None)

\* The baseline, the session's parameters and the device.
ParamsInv ==
  /\ pc \in {"check", "setup", "routes", "tunnel", "ended"} =>
       info # None /\ Complete(info)
  /\ pc \in {"setup", "routes", "tunnel", "ended"} => info = established
  /\ established # None => /\ first # None /\ Complete(established)
                           /\ non_ip_fields_eq(established, first)
  /\ first # None => established # None
  /\ tun # None => pc \in {"routes", "tunnel"} /\ tun = info

\* What the status handle shows.
StatusInv ==
  /\ status = [connected |-> status.connected, info |-> status.info,
               reconnect |-> status.reconnect]
  /\ status.connected \in BOOLEAN
  /\ StatusHonest

-----------------------------------------------------------------------------
(* The cap and the backoff. *)

\* The counter after a failed attempt or a lost tunnel is the number of retries of
\* this outage and one, whatever the counter was.
LEMMA FailuresCount ==
  ASSUME CountInv, pc = "failed", Retries
  PROVE  /\ Failures = Least(retried + 1, U32MAX)
         /\ Failures \in 1..U32MAX
BY BackoffAssumption DEF CountInv, Retries, Failures, Least

\* An attempt that fails leaves the counter with the retries.
LEMMA FailCounts ==
  ASSUME CountInv, pc \in Attempt, NEW e \in AttemptErrors, Fail(e),
         UNCHANGED <<max_attempts, failures, retried>>
  PROVE  CountInv'
BY Zenon DEF CountInv, Fail, Attempt, Places, AttemptErrors, Recoverable, Fatal

\* Every step keeps the counter of an outage with its retries.
LEMMA CountStep ==
  ASSUME CountInv, [Next]_vars
  PROVE  CountInv'
<1> USE DEF Attempt, Places, Recoverable, Fatal, AttemptErrors
<1>1. CASE connect_with_timeout
  <2>1. CASE Fail("Signaling")
    BY <1>1, <2>1, FailCounts, Zenon DEF connect_with_timeout
  <2>2. CASE pc' = "handshake" /\ err' = err
    BY <1>1, <2>2, Zenon DEF connect_with_timeout, CountInv
  <2> QED
    BY <1>1, <2>1, <2>2, Zenon DEF connect_with_timeout
<1>2. CASE perform_handshake
  <2>1. ASSUME NEW e \in AttemptErrors, Fail(e)
        PROVE  CountInv'
    BY <1>2, <2>1, FailCounts, Zenon DEF perform_handshake
  <2>2. CASE pc' = "check" /\ err' = err
    BY <1>2, <2>2, Zenon DEF perform_handshake, CountInv
  <2> QED
    BY <1>2, <2>1, <2>2, Zenon DEF perform_handshake
<1>3. CASE check_params_against
  <2>1. CASE Fail("ServerConfigChanged")
    BY <1>3, <2>1, FailCounts, Zenon DEF check_params_against
  <2>2. CASE pc' = "setup" /\ err' = err
    BY <1>3, <2>2, Zenon DEF check_params_against, CountInv
  <2> QED
    BY <1>3, <2>1, <2>2, Zenon DEF check_params_against
<1>4. CASE BuildDevice
  <2>1. ASSUME NEW e \in AttemptErrors, Fail(e)
        PROVE  CountInv'
    BY <1>4, <2>1, FailCounts, Zenon DEF BuildDevice
  <2>2. CASE pc' = "routes" /\ err' = err
    BY <1>4, <2>2, Zenon DEF BuildDevice, CountInv
  <2> QED
    BY <1>4, <2>1, <2>2, Zenon DEF BuildDevice
<1>5. CASE InstallRoutes
  <2>1. CASE Fail("TunDevice") /\ retried' = retried
    BY <1>5, <2>1, FailCounts, Zenon DEF InstallRoutes
  <2>2. CASE pc' = "tunnel" /\ err' = err /\ retried' = 0
    BY <1>5, <2>2, BackoffAssumption DEF InstallRoutes, CountInv
  <2> QED
    BY <1>5, <2>1, <2>2, Zenon DEF InstallRoutes
<1>6. CASE RunTunnelEnds
  BY <1>6, Zenon DEF RunTunnelEnds, CountInv
<1>7. CASE ConnectReturns
  BY <1>7 DEF ConnectReturns, Fail, CountInv
<1>8. CASE HandleError
  <2>1. CASE Retries /\ ~Exceeds(Failures)
    <3>1. /\ Failures = Least(retried + 1, U32MAX) /\ Failures \in 1..U32MAX
      BY <1>8, <2>1, FailuresCount, Zenon DEF HandleError
    <3>2. /\ pc = "failed" /\ failures' = Failures /\ pc' = "backoff"
          /\ UNCHANGED <<err, max_attempts, retried>>
      BY <1>8, <2>1, Zenon DEF HandleError
    <3>3. max_attempts # 0 => Failures <= max_attempts
      BY <2>1, <3>1, BackoffAssumption DEF Exceeds, CountInv
    <3> QED
      BY <3>1, <3>2, <3>3 DEF CountInv
  <2>2. CASE Retries /\ Exceeds(Failures)
    BY <1>8, <2>2, FailuresCount DEF HandleError, CountInv
  <2>3. CASE ~Retries
    BY <1>8, <2>3, Zenon DEF HandleError, CountInv
  <2> QED
    BY <2>1, <2>2, <2>3, Zenon
<1>9. CASE WakeUp
  BY <1>9, BackoffAssumption, ErrorAssumption, Zenon DEF WakeUp, CountInv, Least
<1>10. CASE Shutdown
  BY <1>10, Zenon DEF Shutdown, CountInv
<1>11. CASE ServerChanges \/ Done \/ UNCHANGED vars
  BY <1>11, Zenon DEF ServerChanges, Done, vars, CountInv
<1> QED
  BY <1>1, <1>2, <1>3, <1>4, <1>5, <1>6, <1>7, <1>8, <1>9, <1>10, <1>11, Zenon
     DEF Next, Client

\* The client gives up after the last retry only.
GivesUp == err = "MaxReconnectAttemptsExceeded" /\ max_attempts # 0 => retried = max_attempts

\* Every step that gives up has made all retries.
LEMMA GivesUpStep ==
  ASSUME CountInv, GivesUp, [Next]_vars
  PROVE  GivesUp'
<1>1. CASE HandleError /\ Retries /\ Exceeds(Failures)
  <2>1. Failures = Least(retried + 1, U32MAX)
    BY <1>1, FailuresCount, Zenon DEF HandleError
  <2>2. max_attempts # 0 /\ Failures > max_attempts
    BY <1>1, Zenon DEF Exceeds
  <2>3. retried = max_attempts
    BY <2>1, <2>2, BackoffAssumption DEF CountInv, Least
  <2> QED
    BY <1>1, <2>3, Zenon DEF HandleError, GivesUp
<1>2. CASE HandleError /\ ~(Retries /\ Exceeds(Failures))
  BY <1>2, Zenon DEF HandleError, GivesUp
<1>3. ASSUME err' # "MaxReconnectAttemptsExceeded"
      PROVE  GivesUp'
  BY <1>3, Zenon DEF GivesUp
<1>4. ASSUME UNCHANGED <<err, max_attempts, retried>>
      PROVE  GivesUp'
  BY <1>4, Zenon DEF GivesUp
<1>5. CASE connect_with_timeout \/ perform_handshake \/ check_params_against \/ BuildDevice
  BY <1>3, <1>4, <1>5, Zenon
     DEF connect_with_timeout, perform_handshake, check_params_against,
       BuildDevice, Fail
<1>6. CASE InstallRoutes \/ RunTunnelEnds \/ ConnectReturns \/ WakeUp \/ Shutdown
  <2>1. pc \in {"routes", "tunnel", "ended", "backoff"} \/ Shutdown
    BY <1>6, Zenon DEF InstallRoutes, RunTunnelEnds, ConnectReturns, WakeUp
  <2>2. err # "MaxReconnectAttemptsExceeded"
    BY <2>1, Zenon DEF CountInv, Shutdown
  <2>3. err' # "MaxReconnectAttemptsExceeded"
    BY <1>6, <2>2, ErrorAssumption, Zenon
       DEF InstallRoutes, RunTunnelEnds, ConnectReturns, WakeUp, Shutdown, Fail
  <2> QED
    BY <1>3, <2>3, Zenon
<1>7. CASE ServerChanges \/ Done \/ UNCHANGED vars
  BY <1>4, <1>7, Zenon DEF ServerChanges, Done, vars
<1> QED
  BY <1>1, <1>2, <1>5, <1>6, <1>7, Zenon DEF Next, Client

\* Saturating or not, the delay of calculate_backoff is the exact one, cut off at
\* the maximum.
LEMMA BackoffExact ==
  ASSUME NEW n \in Nat \ {0}, NEW jitter \in 0..(BACKOFF_JITTER - 1)
  PROVE  LET exact == BACKOFF_BASE * 2 ^ (n - 1)
         IN  /\ calculate_backoff(n, jitter) >= Least(exact, BACKOFF_MAX)
             /\ calculate_backoff(n, jitter) <= Least(exact + BACKOFF_JITTER - 1, BACKOFF_MAX)
<1> DEFINE power == 2 ^ (n - 1)
<1>1. power \in Int
  BY SMT
<1> HIDE DEF power
<1> DEFINE exact == BACKOFF_BASE * power
           multiplier == Least(power, U64MAX)
           base_delay == Least(BACKOFF_BASE * multiplier, U64MAX)
<1>2. /\ BACKOFF_BASE \in Nat \ {0} /\ BACKOFF_MAX \in Nat /\ BACKOFF_JITTER \in Nat \ {0}
      /\ U64MAX \in Nat /\ BACKOFF_MAX <= U64MAX
  BY BackoffAssumption, Zenon
<1>3. exact \in Int
  BY <1>1, <1>2
<1>4. base_delay = Least(exact, U64MAX)
  <2>1. CASE power < U64MAX
    BY <1>1, <1>2, <2>1, Zenon DEF Least
  <2>2. CASE power >= U64MAX
    <3>1. multiplier = U64MAX
      BY <1>1, <1>2, <2>2 DEF Least
    <3>2. BACKOFF_BASE * U64MAX >= U64MAX /\ exact >= power
      BY <1>1, <1>2, <2>2
    <3> QED
      BY <1>1, <1>2, <1>3, <2>2, <3>1, <3>2 DEF Least
  <2> QED
    BY <1>1, <1>2, <2>1, <2>2
<1>5. calculate_backoff(n, jitter) = Least(Least(base_delay + jitter, U64MAX), BACKOFF_MAX)
  BY Zenon DEF calculate_backoff, power
<1> HIDE DEF base_delay, exact
<1>6. /\ calculate_backoff(n, jitter) >= Least(exact, BACKOFF_MAX)
      /\ calculate_backoff(n, jitter) <= Least(exact + BACKOFF_JITTER - 1, BACKOFF_MAX)
  BY <1>2, <1>3, <1>4, <1>5 DEF Least
<1> QED
  BY <1>6, Zenon DEF exact, power

\* The delay slept is always that of the schedule.
LEMMA BackoffStep ==
  ASSUME CountInv, BackoffSchedule, [Next]_vars
  PROVE  BackoffSchedule'
<1>1. CASE HandleError /\ Retries /\ ~Exceeds(Failures)
  <2>1. Failures \in 1..U32MAX
    BY <1>1, FailuresCount, Zenon DEF HandleError
  <2>2. PICK jitter \in 0..(BACKOFF_JITTER - 1) :
          delay' = calculate_backoff(Failures, jitter) /\ failures' = Failures
    BY <1>1, Zenon DEF HandleError
  <2>3. Failures \in Nat \ {0}
    BY <2>1, BackoffAssumption
  <2> QED
    BY <2>2, <2>3, BackoffExact, Zenon DEF BackoffSchedule
<1>2. ASSUME pc' # "backoff"
      PROVE  BackoffSchedule'
  BY <1>2, Zenon DEF BackoffSchedule
<1>3. ASSUME UNCHANGED <<pc, failures, delay>>
      PROVE  BackoffSchedule'
  BY <1>3, Zenon DEF BackoffSchedule
<1>4. CASE HandleError /\ ~(Retries /\ ~Exceeds(Failures))
  BY <1>2, <1>4, Zenon DEF HandleError
<1>5. CASE \/ connect_with_timeout \/ perform_handshake \/ check_params_against
           \/ BuildDevice \/ InstallRoutes \/ RunTunnelEnds \/ ConnectReturns \/ WakeUp
           \/ Shutdown
  BY <1>2, <1>5, Zenon DEF connect_with_timeout, perform_handshake, check_params_against,
       BuildDevice, InstallRoutes, RunTunnelEnds, ConnectReturns, WakeUp, Shutdown, Fail
<1>6. CASE ServerChanges \/ Done \/ UNCHANGED vars
  BY <1>3, <1>6, Zenon DEF ServerChanges, Done, vars
<1> QED
  BY <1>1, <1>4, <1>5, <1>6, Zenon DEF Next, Client

-----------------------------------------------------------------------------
(* The parameters of a session and its device. *)

\* What perform_handshake lets through has each family complete or not at all.
LEMMA AcceptedComplete ==
  ASSUME NEW srv \in Accepting
  PROVE  ServerInfo[srv] # None /\ Complete(ServerInfo[srv])
<1>1. Usable(Response(srv))
  BY Zenon DEF Accepting
<1>2. ServerInfo[srv] = [f \in Fields4 \cup Fields6 |-> Response(srv)[f]]
  BY Zenon DEF ServerInfo
<1>3. \A f \in Fields4 \cup Fields6 : ServerInfo[srv][f] = Response(srv)[f]
  BY <1>2, Zenon
<1> QED
  BY <1>1, <1>3, InfoAssumption, Zenon
     DEF Usable, Family, NoFamily, Complete, Fields4, Fields6

\* An attempt or a session that ends has neither device nor parameters.
LEMMA FailDrops ==
  ASSUME ParamsInv, NEW e, Fail(e), UNCHANGED <<established, first>>
  PROVE  ParamsInv'
BY Zenon DEF ParamsInv, Fail

\* Every step keeps the device to the parameters of its session, and those to the
\* baseline.
LEMMA ParamsStep ==
  ASSUME ParamsInv, [Next]_vars
  PROVE  ParamsInv'
<1>1. CASE connect_with_timeout
  <2>1. CASE Fail("Signaling")
    BY <1>1, <2>1, FailDrops, Zenon DEF connect_with_timeout
  <2>2. CASE pc' = "handshake" /\ UNCHANGED <<tun, info>>
    BY <1>1, <2>2, Zenon DEF connect_with_timeout, ParamsInv
  <2> QED
    BY <1>1, <2>1, <2>2, Zenon DEF connect_with_timeout
<1>2. CASE perform_handshake
  <2>1. ASSUME NEW e, Fail(e)
        PROVE  ParamsInv'
    BY <1>2, <2>1, FailDrops, Zenon DEF perform_handshake
  <2>2. ASSUME NEW srv \in Accepting, info' = ServerInfo[srv], pc' = "check",
               tun' = tun
        PROVE  ParamsInv'
    BY <1>2, <2>2, AcceptedComplete, Zenon DEF perform_handshake, ParamsInv
  <2> QED
    BY <1>2, <2>1, <2>2, Zenon DEF perform_handshake
<1>3. CASE check_params_against
  <2>1. CASE Fail("ServerConfigChanged") /\ UNCHANGED <<established, first>>
    BY <2>1, FailDrops, Zenon
  <2>2. CASE /\ established # None => non_ip_fields_eq(established, info)
             /\ established' = info /\ first' = (IF first = None THEN info ELSE first)
             /\ pc' = "setup" /\ UNCHANGED <<tun, info>>
    <3>1. pc = "check" /\ info # None /\ Complete(info) /\ tun = None
      BY <1>3, Zenon DEF check_params_against, ParamsInv
    <3>2. first' # None /\ non_ip_fields_eq(info, first')
      <4>1. CASE first = None
        BY <2>2, <3>1, <4>1, Zenon DEF non_ip_fields_eq
      <4>2. CASE first # None
        BY <2>2, <4>2, Zenon DEF ParamsInv, non_ip_fields_eq
      <4> QED
        BY <4>1, <4>2, Zenon
    <3> QED
      BY <2>2, <3>1, <3>2, Zenon DEF ParamsInv
  <2> QED
    BY <1>3, <2>1, <2>2, Zenon DEF check_params_against
<1>4. CASE BuildDevice
  <2>1. ASSUME NEW e, Fail(e)
        PROVE  ParamsInv'
    BY <1>4, <2>1, FailDrops, Zenon DEF BuildDevice
  <2>2. CASE pc' = "routes" /\ tun' = info /\ info' = info
    BY <1>4, <2>2, Zenon DEF BuildDevice, ParamsInv
  <2> QED
    BY <1>4, <2>1, <2>2, Zenon DEF BuildDevice, create_tun_device
<1>5. CASE InstallRoutes
  <2>1. CASE Fail("TunDevice")
    BY <1>5, <2>1, FailDrops, Zenon DEF InstallRoutes
  <2>2. CASE pc' = "tunnel" /\ UNCHANGED <<tun, info>>
    BY <1>5, <2>2, Zenon DEF InstallRoutes, ParamsInv
  <2> QED
    BY <1>5, <2>1, <2>2, Zenon DEF InstallRoutes
<1>6. CASE RunTunnelEnds
  BY <1>6, Zenon DEF RunTunnelEnds, ParamsInv
<1>7. CASE ConnectReturns
  <2>1. PICK e : Fail(e)
    BY <1>7, Zenon DEF ConnectReturns
  <2> QED
    BY <1>7, <2>1, FailDrops, Zenon DEF ConnectReturns
<1>8. CASE HandleError \/ WakeUp
  BY <1>8, Zenon DEF HandleError, WakeUp, ParamsInv
<1>9. CASE Shutdown
  BY <1>9, Zenon DEF Shutdown, ParamsInv
<1>10. CASE ServerChanges \/ Done \/ UNCHANGED vars
  BY <1>10, Zenon DEF ServerChanges, Done, vars, ParamsInv
<1> QED
  BY <1>1, <1>2, <1>3, <1>4, <1>5, <1>6, <1>7, <1>8, <1>9, <1>10, Zenon DEF Next, Client

-----------------------------------------------------------------------------
(* The status handle. *)

\* Every step leaves the status with what the client is doing.
LEMMA StatusStep ==
  ASSUME CountInv, StatusInv, [Next]_vars
  PROVE  StatusInv'
<1>1. ASSUME status' = status, pc \in Attempt \cup {"failed", "backoff"},
             pc' \in Attempt \cup {"failed", "exited"}
      PROVE  StatusInv'
  BY <1>1, Zenon DEF StatusInv, StatusHonest, Attempt
<1>2. CASE connect_with_timeout \/ perform_handshake \/ check_params_against \/ BuildDevice
  <2>1. status' = status /\ pc \in Attempt /\ pc' \in Attempt \cup {"failed"}
    BY <1>2, Zenon
       DEF connect_with_timeout, perform_handshake, check_params_against, BuildDevice,
         Fail, Attempt
  <2> QED
    BY <1>1, <2>1, Zenon
<1>3. CASE InstallRoutes
  <2>1. CASE Fail("TunDevice") /\ status' = status
    BY <1>1, <1>3, <2>1, Zenon DEF InstallRoutes, Fail, Attempt
  <2>2. CASE set_connected(info) /\ pc' = "tunnel" /\ info' = info
    BY <2>2, Zenon DEF set_connected, StatusInv, StatusHonest
  <2> QED
    BY <1>3, <2>1, <2>2, Zenon DEF InstallRoutes
<1>4. CASE RunTunnelEnds
  BY <1>4, Zenon DEF RunTunnelEnds, StatusInv, StatusHonest
<1>5. CASE ConnectReturns
  <2>1. /\ status' = [connected |-> FALSE, info |-> None, reconnect |-> status.reconnect]
        /\ pc' = "failed"
    BY <1>5, Zenon DEF ConnectReturns, set_disconnected, Fail, StatusInv
  <2> QED
    BY <2>1, Zenon DEF StatusInv, StatusHonest
<1>6. CASE HandleError
  <2>1. CASE /\ set_reconnecting(Failures, err) /\ failures' = Failures
             /\ pc' = "backoff" /\ err' = err
    <3>1. ~status.connected
      BY <1>6, Zenon DEF HandleError, StatusInv, StatusHonest
    <3>2. status' = [connected |-> FALSE, info |-> status.info,
                     reconnect |-> [failed_attempts |-> Failures, last_error |-> err]]
      BY <2>1, <3>1, Zenon DEF set_reconnecting, StatusInv
    <3> QED
      BY <2>1, <3>2, Zenon DEF StatusInv, StatusHonest
  <2>2. CASE status' = status /\ pc' = "exited"
    BY <1>1, <1>6, <2>2, Zenon DEF HandleError
  <2> QED
    BY <1>6, <2>1, <2>2, Zenon DEF HandleError
<1>7. CASE WakeUp
  BY <1>1, <1>7, Zenon DEF WakeUp, Attempt
<1>8. CASE Shutdown
  BY <1>8, Zenon DEF Shutdown, StatusInv, StatusHonest
<1>9. CASE ServerChanges \/ Done \/ UNCHANGED vars
  BY <1>9, Zenon DEF ServerChanges, Done, vars, StatusInv, StatusHonest
<1> QED
  BY <1>2, <1>3, <1>4, <1>5, <1>6, <1>7, <1>8, <1>9, Zenon DEF Next, Client

-----------------------------------------------------------------------------
(* The theorems. *)

ReconnectInv == CountInv /\ GivesUp /\ BackoffSchedule /\ ParamsInv /\ StatusInv

\* Counter, delay, parameters and status are always as the proofs expect them.
LEMMA ReconnectHolds == Spec => []ReconnectInv
<1>1. Init => ReconnectInv
  <2> SUFFICES ASSUME Init PROVE ReconnectInv
    BY Zenon
  <2>1. CountInv
    BY BackoffAssumption, ErrorAssumption DEF Init, CountInv, Places, Attempt
  <2>2. GivesUp /\ BackoffSchedule /\ ParamsInv
    BY ErrorAssumption, Zenon DEF Init, GivesUp, BackoffSchedule, ParamsInv
  <2>3. StatusInv
    BY Zenon DEF Init, StatusInv, StatusHonest
  <2> QED
    BY <2>1, <2>2, <2>3, Zenon DEF ReconnectInv
<1>2. ReconnectInv /\ [Next]_vars => ReconnectInv'
  BY CountStep, GivesUpStep, BackoffStep, ParamsStep, StatusStep, Zenon DEF ReconnectInv
<1> QED
  BY <1>1, <1>2, PTL DEF Spec

\* For any cap and any integer width, every outage is granted exactly the retries
\* configured, however many outages came before (run_with_reconnect).
THEOREM CapAlwaysPerOutage == Spec => []CapIsPerOutage
<1>1. ReconnectInv => CapIsPerOutage
  BY Zenon DEF ReconnectInv, CountInv, GivesUp, CapIsPerOutage
<1> QED
  BY <1>1, ReconnectHolds, PTL

\* For any constants with base <= maximum <= the integers' maximum, and however long
\* the outage, calculate_backoff sleeps base * 2^(n-1) plus jitter cut off at the
\* maximum.
THEOREM BackoffAlwaysScheduled == Spec => []BackoffSchedule
<1>1. ReconnectInv => BackoffSchedule
  BY Zenon DEF ReconnectInv
<1> QED
  BY <1>1, ReconnectHolds, PTL

\* For any servers and whatever they answer, a device is built for the parameters of
\* its own session, and all sessions share what the first one was assigned except
\* the addresses (check_params_against).
THEOREM TunAlwaysIdentified == Spec => []TunIdentity
<1>1. ReconnectInv => TunIdentity
  BY Zenon DEF ReconnectInv, ParamsInv, Complete, TunIdentity
<1> QED
  BY <1>1, ReconnectHolds, PTL

\* For any servers, what ClientStatusHandle shows is what the client is doing.
THEOREM StatusAlwaysHonest == Spec => []StatusHonest
<1>1. ReconnectInv => StatusHonest
  BY Zenon DEF ReconnectInv, StatusInv
<1> QED
  BY <1>1, ReconnectHolds, PTL
=============================================================================
