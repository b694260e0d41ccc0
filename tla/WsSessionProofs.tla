--------------------------- MODULE WsSessionProofs ---------------------------
(***************************************************************************)
(* The session under every reasonable heartbeat policy, every delay and    *)
(* every capacity of the channel: a silent server is noticed, a living one *)
(* is kept, and the application is told the truth.                         *)
(***************************************************************************)
EXTENDS WsSession, SequenceTheorems, TradeRangesProofs, TLAPS

(* The lesser of two numbers, as the library defines it.                   *)
LEMMA MinOfTwo ==
  ASSUME NEW a \in Int, NEW b \in Int
  PROVE  Min({a, b}) = IF a <= b THEN a ELSE b
<1>1. CASE a <= b
  <2>1. a \in {a, b} /\ \A y \in {a, b} : a <= y
    BY <1>1
  <2>2. \A x \in {a, b} : (\A y \in {a, b} : x <= y) => x = a
    BY <1>1
  <2>3. QED
    BY <2>1, <2>2, <1>1 DEF Min
<1>2. CASE ~(a <= b)
  <2>1. b \in {a, b} /\ \A y \in {a, b} : b <= y
    BY <1>2
  <2>2. \A x \in {a, b} : (\A y \in {a, b} : x <= y) => x = b
    BY <1>2
  <2>3. QED
    BY <2>1, <2>2, <1>2 DEF Min
<1>3. QED
  BY <1>1, <1>2

-----------------------------------------------------------------------------
(* The heartbeat *)

Owed == {Nothing} \cup 0..AnswerWithin

(* How silence, the ping that is due and the answer that is owed are tied  *)
(* together.  A server that talks has answered every ping within           *)
(* AnswerWithin, so the longest silence is a ping interval and an answer.  *)
SoundPeriodic(p, b, alive, owed) ==
  /\ ~b.awaiting
  /\ b.due <= p.every
  /\ b.silent <= p.silence
  /\ alive /\ owed = Nothing => b.silent + b.due <= p.every
  /\ alive /\ owed # Nothing => b.silent <= p.every + owed

SoundAfterIdle(p, b, alive, owed) ==
  /\ ~b.awaiting => b.silent <= p.idle
  /\ b.awaiting => b.due <= p.response /\ b.silent + b.due <= p.idle + p.response
  /\ alive /\ b.awaiting => owed # Nothing /\ owed + b.due >= p.response

SoundServerDriven(p, b, alive, owed) ==
  /\ ~b.awaiting
  /\ b.silent <= p.silence
  /\ alive => b.silent <= SpeaksEvery

Sound(p, b, alive, owed) ==
  /\ b \in Beats
  /\ owed \in Owed
  /\ p.kind = "Periodic" => SoundPeriodic(p, b, alive, owed)
  /\ p.kind = "AfterIdle" => SoundAfterIdle(p, b, alive, owed)
  /\ p.kind = "ServerDriven" => SoundServerDriven(p, b, alive, owed)

(* The three kinds of policies, with the types of their times.             *)
IsPeriodic(p) ==
  /\ p.kind = "Periodic"
  /\ p.every \in Nat /\ p.silence \in Nat
  /\ p.every + AnswerWithin < p.silence

IsAfterIdle(p) ==
  /\ p.kind = "AfterIdle"
  /\ p.idle \in Nat /\ p.response \in Nat
  /\ AnswerWithin < p.response

IsServerDriven(p) ==
  /\ p.kind = "ServerDriven"
  /\ p.silence \in Nat
  /\ SpeaksEvery < p.silence

LEMMA Kinds ==
  ASSUME NEW p, Reasonable(p)
  PROVE  IsPeriodic(p) \/ IsAfterIdle(p) \/ IsServerDriven(p)
BY DEF Reasonable, IsPeriodic, IsAfterIdle, IsServerDriven

LEMMA Times == AnswerWithin \in Nat /\ SpeaksEvery \in Nat
BY WsSessionAssumption

(* A new connection starts sound.                                          *)
LEMMA NewIsSound ==
  ASSUME NEW p, Reasonable(p), NEW alive \in BOOLEAN
  PROVE  Sound(p, NewBeat(p), alive, Nothing)
<1> USE DEF Sound, Beats, NewBeat, Owed, Nothing
<1>1. CASE IsPeriodic(p)
  BY <1>1, Times DEF IsPeriodic, SoundPeriodic
<1>2. CASE IsAfterIdle(p)
  BY <1>2, Times DEF IsAfterIdle, SoundAfterIdle
<1>3. CASE IsServerDriven(p)
  BY <1>3, Times DEF IsServerDriven, SoundServerDriven
<1>4. QED
  BY <1>1, <1>2, <1>3, Kinds

(* Any frame leaves it sound, whether it answers a ping or not.            *)
LEMMA ActivityIsSound ==
  ASSUME NEW p, Reasonable(p), NEW b, NEW alive \in BOOLEAN, NEW owed,
         Sound(p, b, alive, owed), NEW rest \in {owed, Nothing}
  PROVE  Sound(p, MarkActivity(b), alive, rest)
<1> DEFINE m == MarkActivity(b)
<1>1. b \in Beats /\ owed \in Owed /\ rest \in Owed
  BY DEF Sound, Owed
<1>2. m \in Beats /\ m.silent = 0 /\ m.awaiting = FALSE /\ m.due = b.due
  BY <1>1 DEF MarkActivity, Beats
<1>3. b.due \in Nat /\ owed \in {-1} \cup Nat /\ rest \in {-1} \cup Nat
  BY <1>1, Times DEF Beats, Owed, Nothing
<1> HIDE DEF m
<1>4. CASE IsPeriodic(p)
  <2>1. p.kind = "Periodic" /\ p.every \in Nat /\ p.silence \in Nat
    BY <1>4 DEF IsPeriodic
  <2>2. b.due <= p.every
    BY <2>1 DEF Sound, SoundPeriodic
  <2>3. SoundPeriodic(p, m, alive, rest)
    BY <1>2, <1>3, <2>1, <2>2 DEF SoundPeriodic, Nothing
  <2>4. QED
    BY <1>1, <1>2, <2>1, <2>3 DEF Sound, m
<1>5. CASE IsAfterIdle(p)
  BY <1>1, <1>2, <1>5 DEF IsAfterIdle, Sound, SoundAfterIdle, m
<1>6. CASE IsServerDriven(p)
  BY <1>1, <1>2, <1>6, Times DEF IsServerDriven, Sound, SoundServerDriven, m
<1>7. QED
  BY <1>4, <1>5, <1>6, Kinds

(* So does a ping that is sent when it falls due.                          *)
LEMMA PingIsSound ==
  ASSUME NEW p, Reasonable(p), NEW b, NEW alive \in BOOLEAN, NEW owed,
         Sound(p, b, alive, owed), DeadlineAction(p, b) = "SendPing"
  PROVE  Sound(p, PingSent(p, b), alive, IF owed = Nothing THEN 0 ELSE owed)
<1> DEFINE m == PingSent(p, b)
           rest == IF owed = Nothing THEN 0 ELSE owed
<1>1. b \in Beats /\ owed \in Owed /\ rest \in Owed /\ rest # Nothing
  BY Times DEF Sound, Owed, Nothing
<1>2. b.silent \in Nat /\ b.due \in Nat /\ owed \in {-1} \cup Nat /\ rest \in Nat
      /\ (owed # -1 => rest = owed)
  BY <1>1, Times DEF Beats, Owed, Nothing
<1> HIDE DEF rest
<1>3. CASE IsPeriodic(p)
  <2>1. p.kind = "Periodic" /\ p.every \in Nat /\ p.silence \in Nat
    BY <1>3 DEF IsPeriodic
  <2>2. SoundPeriodic(p, b, alive, owed)
    BY <2>1 DEF Sound
  <2>3. b.due = 0
    BY <2>1 DEF DeadlineAction
  <2>4. m \in Beats /\ m.silent = b.silent /\ m.awaiting = b.awaiting /\ m.due = p.every
    BY <1>1, <2>1 DEF PingSent, Beats
  <2> HIDE DEF m
  <2>5. SoundPeriodic(p, m, alive, rest)
    BY <1>1, <1>2, <2>1, <2>2, <2>3, <2>4 DEF SoundPeriodic, Nothing
  <2>6. QED
    BY <1>1, <2>1, <2>4, <2>5 DEF Sound, m, rest
<1>4. CASE IsAfterIdle(p)
  <2>1. p.kind = "AfterIdle" /\ p.idle \in Nat /\ p.response \in Nat
    BY <1>4 DEF IsAfterIdle
  <2>2. SoundAfterIdle(p, b, alive, owed)
    BY <2>1 DEF Sound
  <2>3. b.awaiting = FALSE
    <3>1. b.awaiting \in BOOLEAN
      BY <1>1 DEF Beats
    <3>2. QED
      BY <2>1, <3>1 DEF DeadlineAction
  <2>4. m \in Beats /\ m.silent = b.silent /\ m.awaiting = TRUE /\ m.due = p.response
    BY <1>1, <2>1 DEF PingSent, Beats
  <2> HIDE DEF m
  <2>5. SoundAfterIdle(p, m, alive, rest)
    BY <1>1, <1>2, <2>1, <2>2, <2>3, <2>4 DEF SoundAfterIdle, Nothing
  <2>6. QED
    BY <1>1, <2>1, <2>4, <2>5 DEF Sound, m, rest
<1>5. CASE IsServerDriven(p)
  BY <1>5 DEF IsServerDriven, DeadlineAction
<1>6. QED
  BY <1>3, <1>4, <1>5, Kinds

(* What time does to a heartbeat.                                          *)
LEMMA LaterFields ==
  ASSUME NEW p, NEW b \in Beats, NEW d \in Nat,
         d = IF p.kind = "Periodic" \/ b.awaiting THEN b.due - 1 ELSE 0
  PROVE  /\ Later(p, b) \in Beats
         /\ Later(p, b).silent = b.silent + 1
         /\ Later(p, b).awaiting = b.awaiting
         /\ Later(p, b).due = d
<1> DEFINE x == [b EXCEPT !.silent = b.silent + 1]
<1>1. x \in Beats /\ x.silent = b.silent + 1 /\ x.awaiting = b.awaiting
  BY DEF Beats
<1>2. Later(p, b) = [x EXCEPT !.due = d]
  BY DEF Later
<1> HIDE DEF x
<1>3. QED
  BY <1>1, <1>2 DEF Beats

(* And time that passes before the next deadline, with a server that is    *)
(* prompt if it is alive.                                                  *)
LEMMA LaterIsSound ==
  ASSUME NEW p, Reasonable(p), NEW b, NEW alive \in BOOLEAN, NEW owed,
         Sound(p, b, alive, owed), NextDeadline(p, b) > 0,
         alive => owed = Nothing \/ owed < AnswerWithin,
         alive => (p.kind = "ServerDriven" => b.silent < SpeaksEvery)
  PROVE  Sound(p, Later(p, b), alive,
               IF owed = Nothing THEN owed ELSE Min({owed + 1, AnswerWithin}))
<1> DEFINE m == Later(p, b)
           rest == IF owed = Nothing THEN owed ELSE Min({owed + 1, AnswerWithin})
<1>1. b \in Beats /\ owed \in Owed
  BY DEF Sound
<1>2. b.silent \in Nat /\ b.due \in Nat /\ b.awaiting \in BOOLEAN /\ owed \in {-1} \cup Nat
  BY <1>1, Times DEF Beats, Owed, Nothing
<1>3. /\ rest \in Owed
      /\ owed = Nothing <=> rest = Nothing
      /\ alive /\ owed # Nothing => rest = owed + 1
  BY <1>1, MinOfTwo, Times DEF Owed, Nothing
<1>4. rest \in {-1} \cup Nat
  BY <1>3, Times DEF Owed, Nothing
<1> HIDE DEF rest
<1>5. CASE IsPeriodic(p)
  <2>1. p.kind = "Periodic" /\ p.every \in Nat /\ p.silence \in Nat
    BY <1>5 DEF IsPeriodic
  <2>2. SoundPeriodic(p, b, alive, owed)
    BY <2>1 DEF Sound
  <2>3. NextDeadline(p, b) = IF p.silence - b.silent <= b.due
                               THEN p.silence - b.silent ELSE b.due
    BY <1>2, <2>1, MinOfTwo DEF NextDeadline
  <2>4. p.silence - b.silent > 0 /\ b.due > 0
    BY <1>2, <2>1, <2>3
  <2>5. m \in Beats /\ m.silent = b.silent + 1 /\ m.awaiting = b.awaiting
        /\ m.due = b.due - 1
    BY <1>1, <1>2, <2>1, <2>4, LaterFields
  <2> HIDE DEF m
  <2>6. SoundPeriodic(p, m, alive, rest)
    BY <1>2, <1>3, <1>4, <2>1, <2>2, <2>4, <2>5 DEF SoundPeriodic, Nothing
  <2>7. QED
    BY <1>3, <2>1, <2>5, <2>6 DEF Sound, m, rest
<1>6. CASE IsAfterIdle(p)
  <2>1. p.kind = "AfterIdle" /\ p.idle \in Nat /\ p.response \in Nat
    BY <1>6 DEF IsAfterIdle
  <2>2. SoundAfterIdle(p, b, alive, owed)
    BY <2>1 DEF Sound
  <2>3. NextDeadline(p, b) = IF b.awaiting THEN b.due ELSE p.idle - b.silent
    BY <1>2, <2>1 DEF NextDeadline
  <2>4. (b.awaiting => b.due > 0) /\ (~b.awaiting => p.idle - b.silent > 0)
    BY <1>2, <2>1, <2>3
  <2>5. m \in Beats /\ m.silent = b.silent + 1 /\ m.awaiting = b.awaiting
        /\ m.due = IF b.awaiting THEN b.due - 1 ELSE 0
    <3> DEFINE d == IF b.awaiting THEN b.due - 1 ELSE 0
    <3>1. d \in Nat /\ d = IF p.kind = "Periodic" \/ b.awaiting THEN b.due - 1 ELSE 0
      BY <1>2, <2>1, <2>4
    <3> HIDE DEF d
    <3>2. QED
      BY <1>1, <3>1, LaterFields DEF d
  <2> HIDE DEF m
  <2>6. SoundAfterIdle(p, m, alive, rest)
    BY <1>2, <1>3, <1>4, <2>1, <2>2, <2>4, <2>5 DEF SoundAfterIdle, Nothing
  <2>7. QED
    BY <1>3, <2>1, <2>5, <2>6 DEF Sound, m, rest
<1>7. CASE IsServerDriven(p)
  <2>1. p.kind = "ServerDriven" /\ p.silence \in Nat
    BY <1>7 DEF IsServerDriven
  <2>2. SoundServerDriven(p, b, alive, owed)
    BY <2>1 DEF Sound
  <2>3. p.silence - b.silent > 0
    BY <1>2, <2>1 DEF NextDeadline
  <2>4. m \in Beats /\ m.silent = b.silent + 1 /\ m.awaiting = b.awaiting
    <3>1. ~b.awaiting /\ p.kind # "Periodic"
      BY <2>1, <2>2 DEF SoundServerDriven
    <3>2. QED
      BY <1>1, <3>1, LaterFields
  <2> HIDE DEF m
  <2>5. SoundServerDriven(p, m, alive, rest)
    BY <1>2, <2>1, <2>2, <2>3, <2>4, Times DEF SoundServerDriven
  <2>6. QED
    BY <1>3, <2>1, <2>4, <2>5 DEF Sound, m, rest
<1>8. QED
  BY <1>5, <1>6, <1>7, Kinds

(* What is sound is noticed when silent ...                                *)
LEMMA SoundIsNoticed ==
  ASSUME NEW p, Reasonable(p), NEW b, NEW alive \in BOOLEAN, NEW owed,
         Sound(p, b, alive, owed)
  PROVE  /\ b.silent <= Limit(p)
         /\ NextDeadline(p, b) <= 0 => DeadlineAction(p, b) # "Wait"
<1> USE DEF Sound, Beats, Limit, NextDeadline, DeadlineAction, Owed, Nothing
<1>1. CASE IsPeriodic(p)
  <2>1. /\ b.silent \in Nat /\ b.due \in Nat
        /\ p.kind = "Periodic" /\ p.every \in Nat /\ p.silence \in Nat
    BY <1>1 DEF IsPeriodic
  <2>2. NextDeadline(p, b) = IF p.silence - b.silent <= b.due
                               THEN p.silence - b.silent ELSE b.due
    BY <2>1, MinOfTwo
  <2>3. b.silent <= p.silence
    BY <2>1 DEF SoundPeriodic
  <2> HIDE DEF NextDeadline
  <2>4. QED
    BY <2>1, <2>2, <2>3
<1>2. CASE IsAfterIdle(p)
  BY <1>2, Times DEF IsAfterIdle, SoundAfterIdle
<1>3. CASE IsServerDriven(p)
  BY <1>3, Times DEF IsServerDriven, SoundServerDriven
<1>4. QED
  BY <1>1, <1>2, <1>3, Kinds

(* ... and kept when alive.                                                *)
LEMMA SoundIsKept ==
  ASSUME NEW p, Reasonable(p), NEW b, NEW owed, Sound(p, b, TRUE, owed)
  PROVE  DeadlineAction(p, b) # "Timeout"
<1> USE DEF Sound, Beats, DeadlineAction, Owed, Nothing
<1>1. CASE IsPeriodic(p)
  BY <1>1, Times DEF IsPeriodic, SoundPeriodic
<1>2. CASE IsAfterIdle(p)
  BY <1>2, Times DEF IsAfterIdle, SoundAfterIdle
<1>3. CASE IsServerDriven(p)
  BY <1>3, Times DEF IsServerDriven, SoundServerDriven
<1>4. QED
  BY <1>1, <1>2, <1>3, Kinds

-----------------------------------------------------------------------------
(* The heartbeat of the running I/O task *)

HeartInv ==
  /\ adapter \in Adapters
  /\ talks \in BOOLEAN
  /\ io = "Running" => Sound(policy, beat, talks, asked)

LEMMA PolicyIsReasonable ==
  ASSUME HeartInv
  PROVE  Reasonable(policy)
BY WsSessionAssumption DEF HeartInv, policy

(* The steps of the session task and the application do not touch it.      *)
LEMMA HeartUntouched ==
  ASSUME HeartInv, UNCHANGED <<adapter, talks, beat, asked>>,
         io' = io \/ io' # "Running"
  PROVE  HeartInv'
BY DEF HeartInv, policy

LEMMA HeartBeaten ==
  ASSUME HeartInv, NEW b, NEW owed, Sound(policy, b, talks, owed), Beaten(b, owed),
         UNCHANGED <<adapter, talks>>
  PROVE  HeartInv'
<1>1. policy' = policy
  BY DEF policy
<1>2. CASE DeadlineAction(policy, b) = "SendPing"
  <2>1. beat' = PingSent(policy, b) /\ asked' = IF owed = Nothing THEN 0 ELSE owed
    BY <1>2 DEF Beaten
  <2>2. Sound(policy, beat', talks, asked')
    BY <1>2, <2>1, PolicyIsReasonable, PingIsSound DEF HeartInv
  <2>3. QED
    BY <1>1, <2>2 DEF HeartInv
<1>3. CASE DeadlineAction(policy, b) # "SendPing"
  BY <1>1, <1>3 DEF HeartInv, Beaten
<1>4. QED
  BY <1>2, <1>3

LEMMA HeartRead ==
  ASSUME HeartInv, NEW owed \in {asked, Nothing}, Read(owed)
  PROVE  HeartInv'
<1>1. Sound(policy, beat, talks, asked)
  BY DEF HeartInv, Read
<1>2. Sound(policy, MarkActivity(beat), talks, owed)
  BY <1>1, PolicyIsReasonable, ActivityIsSound DEF HeartInv
<1>3. QED
  BY <1>2, HeartBeaten DEF Read

LEMMA HeartTick ==
  ASSUME HeartInv, Tick
  PROVE  HeartInv'
<1>1. policy' = policy
  BY DEF policy, Tick
<1>2. CASE io = "Running"
  <2>1. Sound(policy, beat, talks, asked) /\ NextDeadline(policy, beat) > 0
    BY <1>2 DEF HeartInv, Tick
  <2>2. /\ talks => asked = Nothing \/ asked < AnswerWithin
        /\ talks => (policy.kind = "ServerDriven" => beat.silent < SpeaksEvery)
    BY <1>2 DEF Tick, ServerIsPrompt
  <2>3. /\ beat' = Later(policy, beat)
        /\ asked' = IF asked = Nothing THEN asked ELSE Min({asked + 1, AnswerWithin})
    BY <1>2 DEF Tick
  <2>4. Sound(policy, beat', talks, asked')
    BY <2>1, <2>2, <2>3, PolicyIsReasonable, LaterIsSound DEF HeartInv
  <2>5. QED
    BY <1>1, <2>4 DEF HeartInv, Tick
<1>3. CASE io # "Running"
  BY <1>1, <1>3 DEF HeartInv, Tick
<1>4. QED
  BY <1>2, <1>3

(* The counters of the heartbeat agree with the silence there really is.   *)
THEOREM HeartInvariance == Spec => []HeartInv
<1>1. Init => HeartInv
  BY DEF Init, HeartInv
<1>2. HeartInv /\ [Next]_vars => HeartInv'
  <2> SUFFICES ASSUME HeartInv, [Next]_vars
               PROVE  HeartInv'
    OBVIOUS
  <2> USE DEF ioVars
  <2>1. ASSUME ConnectFails PROVE HeartInv'
    BY <2>1, HeartUntouched DEF ConnectFails
  <2>2. ASSUME ConnectSucceeds PROVE HeartInv'
    <3>1. /\ beat' = NewBeat(policy) /\ talks' = TRUE /\ asked' = Nothing
          /\ adapter' = adapter /\ policy' = policy
      BY <2>2 DEF ConnectSucceeds, policy
    <3>2. Sound(policy, beat', TRUE, Nothing)
      BY <3>1, PolicyIsReasonable, NewIsSound
    <3>3. QED
      BY <3>1, <3>2 DEF HeartInv
  <2>3. ASSUME Greet \/ OnTick \/ OnStable \/ Announce \/ Wake PROVE HeartInv'
    BY <2>3, HeartUntouched DEF Greet, OnTick, OnStable, Announce, Wake
  <2>4. ASSUME OnFrame \/ OnIoGone PROVE HeartInv'
    <3>1. CASE Leave
      BY <3>1, HeartUntouched DEF Leave
    <3>2. CASE \E trade : OnText(trade)
      BY <3>2, HeartUntouched DEF OnText
    <3>3. QED
      BY <2>4, <3>1, <3>2 DEF OnFrame, OnIoGone
  <2>5. ASSUME ReadTrade \/ ReadQuiet \/ ReadBad PROVE HeartInv'
    BY <2>5, HeartRead DEF ReadTrade, ReadQuiet, ReadBad
  <2>6. ASSUME AtDeadline PROVE HeartInv'
    <3>1. CASE DeadlineAction(policy, beat) = "Timeout"
      BY <2>6, <3>1 DEF AtDeadline, IoEnds, HeartInv
    <3>2. CASE DeadlineAction(policy, beat) # "Timeout"
      BY <2>6, <3>2, HeartBeaten DEF AtDeadline, HeartInv
    <3>3. QED
      BY <3>1, <3>2
  <2>7. ASSUME Breaks PROVE HeartInv'
    BY <2>7 DEF Breaks, IoEnds, HeartInv
  <2>8. ASSUME GoesSilent PROVE HeartInv'
    <3>1. /\ beat' = beat /\ asked' = asked /\ talks' = FALSE /\ io' = io
          /\ adapter' = adapter /\ policy' = policy
          /\ Sound(policy, beat, talks, asked)
      BY <2>8 DEF GoesSilent, policy, HeartInv
    <3>2. Sound(policy, beat, FALSE, asked)
      BY <3>1 DEF Sound, SoundPeriodic, SoundAfterIdle, SoundServerDriven
    <3>3. QED
      BY <3>1, <3>2 DEF HeartInv
  <2>9. ASSUME TradeUnseen \/ Receive PROVE HeartInv'
    BY <2>9, HeartUntouched DEF TradeUnseen, Receive
  <2>10. ASSUME UNCHANGED vars PROVE HeartInv'
    BY <2>10, HeartUntouched DEF vars
  <2>11. QED
    BY <2>1, <2>2, <2>3, <2>4, <2>5, <2>6, <2>7, <2>8, <2>9, <2>10, HeartTick
       DEF Next, Session, Io
<1>3. QED
  BY <1>1, <1>2, PTL DEF Spec

(* A silent server is noticed in time, whatever the policy.                *)
THEOREM SilenceNoticed == Spec => []SilenceIsNoticed
<1>1. HeartInv => SilenceIsNoticed
  BY PolicyIsReasonable, SoundIsNoticed DEF HeartInv, SilenceIsNoticed
<1>2. QED
  BY <1>1, HeartInvariance, PTL

(* A server that answers or speaks in time is never given up, whatever the *)
(* policy and however long an answer takes within the policy's limits.     *)
THEOREM LivingKept == Spec => []LivingIsKept
<1>1. HeartInv => LivingIsKept
  <2> SUFFICES ASSUME HeartInv, io = "Running", talks
               PROVE  DeadlineAction(policy, beat) # "Timeout"
    BY DEF LivingIsKept
  <2>1. Sound(policy, beat, TRUE, asked)
    BY DEF HeartInv
  <2>2. QED
    BY <2>1, PolicyIsReasonable, SoundIsKept
<1>2. QED
  BY <1>1, HeartInvariance, PTL

-----------------------------------------------------------------------------
(* Events in the channel *)

Events == [kind : {"Connected", "Disconnected", "Trades"}, trades : SUBSET Nat]

(* Does the application think it is connected when it comes to event i of  *)
(* ch, if it thinks "up" now?                                              *)
UpAt(ch, up, i) ==
  \/ \E k \in 1..(i - 1) : /\ ch[k].kind = "Connected"
                           /\ \A j \in (k + 1)..(i - 1) : ch[j].kind = "Trades"
  \/ up /\ \A j \in 1..(i - 1) : ch[j].kind = "Trades"

LEMMA UpFirst ==
  ASSUME NEW ch, NEW up \in BOOLEAN
  PROVE  UpAt(ch, up, 1) <=> up
BY DEF UpAt

LEMMA UpLocal ==
  ASSUME NEW ch, NEW more, NEW up \in BOOLEAN, NEW i \in Nat,
         \A j \in 1..(i - 1) : ch[j] = more[j]
  PROVE  UpAt(more, up, i) <=> UpAt(ch, up, i)
<1>1. \A k \in 1..(i - 1) : ch[k] = more[k] /\ \A j \in (k + 1)..(i - 1) : ch[j] = more[j]
  OBVIOUS
<1>2. QED
  BY <1>1 DEF UpAt

LEMMA UpNext ==
  ASSUME NEW ch, NEW up \in BOOLEAN, NEW i \in Nat \ {0},
         ch[i].kind \in {"Connected", "Disconnected", "Trades"}
  PROVE  UpAt(ch, up, i + 1) <=> (\/ ch[i].kind = "Connected"
                                  \/ ch[i].kind = "Trades" /\ UpAt(ch, up, i))
<1>1. CASE ch[i].kind = "Connected"
  <2>1. i \in 1..((i + 1) - 1) /\ \A j \in (i + 1)..((i + 1) - 1) : ch[j].kind = "Trades"
    OBVIOUS
  <2>2. QED
    BY <1>1, <2>1 DEF UpAt
<1>2. CASE ch[i].kind = "Trades"
  <2>1. \A k \in 1..(i - 1) : (\A j \in (k + 1)..(i - 1) : ch[j].kind = "Trades")
                              <=> (\A j \in (k + 1)..((i + 1) - 1) : ch[j].kind = "Trades")
    BY <1>2
  <2>2. (\A j \in 1..(i - 1) : ch[j].kind = "Trades")
        <=> (\A j \in 1..((i + 1) - 1) : ch[j].kind = "Trades")
    BY <1>2
  <2>3. \A k \in 1..((i + 1) - 1) : ch[k].kind = "Connected" => k \in 1..(i - 1)
    BY <1>2
  <2>4. \A k \in 1..(i - 1) : k \in 1..((i + 1) - 1)
    OBVIOUS
  <2>5. QED
    BY <1>2, <2>1, <2>2, <2>3, <2>4 DEF UpAt
<1>3. CASE ch[i].kind = "Disconnected"
  <2>1. i \in 1..((i + 1) - 1) /\ "Disconnected" # "Connected" /\ "Disconnected" # "Trades"
    OBVIOUS
  <2>2. \A k \in 1..((i + 1) - 1) : ch[k].kind = "Connected" => i \in (k + 1)..((i + 1) - 1)
    BY <1>3, <2>1
  <2>3. QED
    BY <1>3, <2>1, <2>2 DEF UpAt
<1>4. QED
  BY <1>1, <1>2, <1>3

(* An event at the end ...                                                 *)
LEMMA UpAppend ==
  ASSUME NEW ch \in Seq(Events), NEW e \in Events, NEW up \in BOOLEAN
  PROVE  /\ \A i \in 1..(Len(ch) + 1) : UpAt(Append(ch, e), up, i) <=> UpAt(ch, up, i)
         /\ UpAt(Append(ch, e), up, Len(ch) + 2)
              <=> (e.kind = "Connected" \/ (e.kind = "Trades" /\ UpAt(ch, up, Len(ch) + 1)))
<1> DEFINE more == Append(ch, e)
<1>1. /\ \A j \in 1..Len(ch) : more[j] = ch[j]
      /\ more[Len(ch) + 1] = e
      /\ Len(ch) \in Nat
  BY AppendProperties
<1> HIDE DEF more
<1>2. \A i \in 1..(Len(ch) + 1) : UpAt(more, up, i) <=> UpAt(ch, up, i)
  <2> TAKE i \in 1..(Len(ch) + 1)
  <2>1. i \in Nat /\ \A j \in 1..(i - 1) : ch[j] = more[j]
    BY <1>1
  <2>2. QED
    BY <2>1, UpLocal
<1>3. e.kind \in {"Connected", "Disconnected", "Trades"}
  BY DEF Events
<1>4. UpAt(more, up, (Len(ch) + 1) + 1)
        <=> (e.kind = "Connected" \/ (e.kind = "Trades" /\ UpAt(more, up, Len(ch) + 1)))
  <2>1. Len(ch) + 1 \in Nat \ {0}
    BY <1>1
  <2>2. more[Len(ch) + 1].kind \in {"Connected", "Disconnected", "Trades"}
    BY <1>1, <1>3
  <2>3. QED
    BY <1>1, <2>1, <2>2, UpNext
<1>5. (Len(ch) + 1) + 1 = Len(ch) + 2 /\ Len(ch) + 1 \in 1..(Len(ch) + 1)
  BY <1>1
<1>6. QED
  BY <1>2, <1>4, <1>5 DEF more

(* ... and one read at the front.                                          *)
LEMMA UpTail ==
  ASSUME NEW ch \in Seq(Events), ch # <<>>, NEW up \in BOOLEAN, NEW now \in BOOLEAN,
         now <=> (Head(ch).kind = "Connected" \/ (Head(ch).kind = "Trades" /\ up))
  PROVE  \A i \in 1..Len(ch) : UpAt(Tail(ch), now, i) <=> UpAt(ch, up, i + 1)
<1> DEFINE rest == Tail(ch)
<1>1. /\ Len(ch) \in Nat \ {0}
      /\ \A j \in 1..(Len(ch) - 1) : rest[j] = ch[j + 1]
      /\ Head(ch) = ch[1]
      /\ \A j \in 1..Len(ch) : ch[j] \in Events
  BY HeadTailProperties
<1>2. ch[1].kind \in {"Connected", "Disconnected", "Trades"} /\ "Connected" # "Trades"
  BY <1>1 DEF Events
<1> HIDE DEF rest
<1> TAKE i \in 1..Len(ch)
<1>3. i \in Nat \ {0} /\ (i + 1) - 1 = i
  BY <1>1
<1>4. \A k \in 1..(i - 1) : rest[k] = ch[k + 1]
  BY <1>1, <1>3
<1>5. ASSUME UpAt(rest, now, i)
      PROVE  UpAt(ch, up, i + 1)
  <2>1. CASE \E k \in 1..(i - 1) : /\ rest[k].kind = "Connected"
                                   /\ \A j \in (k + 1)..(i - 1) : rest[j].kind = "Trades"
    <3>1. PICK k \in 1..(i - 1) : /\ rest[k].kind = "Connected"
                                  /\ \A j \in (k + 1)..(i - 1) : rest[j].kind = "Trades"
      BY <2>1
    <3>2. k + 1 \in 1..i /\ ch[k + 1].kind = "Connected"
      BY <1>3, <1>4, <3>1
    <3>3. ASSUME NEW j \in ((k + 1) + 1)..i
          PROVE  ch[j].kind = "Trades"
      <4>1. j - 1 \in (k + 1)..(i - 1) /\ j - 1 \in 1..(i - 1) /\ (j - 1) + 1 = j
        BY <1>3
      <4>2. QED
        BY <1>4, <3>1, <4>1
    <3>4. QED
      BY <1>3, <3>2, <3>3 DEF UpAt
  <2>2. CASE now /\ \A j \in 1..(i - 1) : rest[j].kind = "Trades"
    <3>1. ASSUME NEW j \in 2..i
          PROVE  ch[j].kind = "Trades"
      <4>1. j - 1 \in 1..(i - 1) /\ (j - 1) + 1 = j
        BY <1>3
      <4>2. QED
        BY <1>4, <2>2, <4>1
    <3>2. CASE ch[1].kind = "Connected"
      <4>1. 1 \in 1..i /\ 1 + 1 = 2
        BY <1>3
      <4>2. QED
        BY <1>3, <3>1, <3>2, <4>1 DEF UpAt
    <3>3. CASE ch[1].kind # "Connected"
      <4>1. ch[1].kind = "Trades" /\ up
        BY <1>1, <2>2, <3>3
      <4>2. \A j \in 1..i : j = 1 \/ j \in 2..i
        BY <1>3
      <4>3. QED
        BY <1>3, <3>1, <4>1, <4>2 DEF UpAt
    <3>4. QED
      BY <3>2, <3>3
  <2>3. QED
    BY <1>5, <2>1, <2>2 DEF UpAt
<1>6. ASSUME UpAt(ch, up, i + 1)
      PROVE  UpAt(rest, now, i)
  <2>1. CASE \E k \in 1..i : /\ ch[k].kind = "Connected"
                             /\ \A j \in (k + 1)..i : ch[j].kind = "Trades"
    <3>1. PICK k \in 1..i : /\ ch[k].kind = "Connected"
                            /\ \A j \in (k + 1)..i : ch[j].kind = "Trades"
      BY <2>1
    <3>2. ASSUME NEW j \in k..(i - 1)
          PROVE  rest[j].kind = "Trades"
      <4>1. j + 1 \in (k + 1)..i /\ j \in 1..(i - 1)
        BY <1>3
      <4>2. QED
        BY <1>4, <3>1, <4>1
    <3>3. CASE k = 1
      <4>1. now
        BY <1>1, <3>1, <3>3
      <4>2. \A j \in 1..(i - 1) : rest[j].kind = "Trades"
        BY <3>2, <3>3
      <4>3. QED
        BY <4>1, <4>2 DEF UpAt
    <3>4. CASE k # 1
      <4>1. k - 1 \in 1..(i - 1) /\ (k - 1) + 1 = k
        BY <1>3, <3>4
      <4>2. rest[k - 1].kind = "Connected"
        BY <1>4, <3>1, <4>1
      <4>3. QED
        BY <3>2, <4>1, <4>2 DEF UpAt
    <3>5. QED
      BY <3>3, <3>4
  <2>2. CASE up /\ \A j \in 1..i : ch[j].kind = "Trades"
    <3>1. now
      BY <1>1, <1>3, <2>2
    <3>2. ASSUME NEW j \in 1..(i - 1)
          PROVE  rest[j].kind = "Trades"
      <4>1. j + 1 \in 1..i
        BY <1>3
      <4>2. QED
        BY <1>4, <2>2, <4>1
    <3>3. QED
      BY <3>1, <3>2 DEF UpAt
  <2>3. QED
    BY <1>3, <1>6, <2>1, <2>2 DEF UpAt
<1>7. QED
  BY <1>5, <1>6 DEF rest

-----------------------------------------------------------------------------
(* Types *)

Modes == {"Connecting", "Greeting", "Up", "Leaving", "Sleeping"}

Frames == [kind : {"trade", "bad", "error"}, trade : Nat]

TaskTypes ==
  /\ mode \in Modes
  /\ sleep \in 0..MaxDelay
  /\ delay \in InitialDelay..MaxDelay
  /\ age \in 0..StableAfter
  /\ io \in {"None", "Running", "Done"}
  /\ io # "None" <=> mode \in {"Greeting", "Up"}
  /\ beat \in Beats
  /\ asked \in Owed

(* The trades on their way, in frames, in the buffer and in the channel.   *)
TradeTypes ==
  /\ made \in Nat
  /\ frames \in Seq(Frames)
  /\ \A i \in 1..Len(frames) : frames[i].kind = "trade" => frames[i].trade \in 1..made
  /\ buffer \subseteq 1..made
  /\ buffer # {} => mode = "Up" /\ adapter.buffered
  /\ channel \in Seq(Events)
  /\ Len(channel) <= Capacity

TypeInv == HeartInv /\ TaskTypes /\ TradeTypes

LEMMA Constants ==
  /\ InitialDelay \in Nat \ {0} /\ MaxDelay \in Nat /\ InitialDelay <= MaxDelay
  /\ StableAfter \in Nat /\ Capacity \in Nat \ {0} /\ AnswerWithin \in Nat
BY WsSessionAssumption

LEMMA DelayTypes ==
  ASSUME NEW d \in InitialDelay..MaxDelay
  PROVE  /\ Doubled(d) \in InitialDelay..MaxDelay
         /\ Jittered(d) \subseteq 0..MaxDelay
<1>1. Doubled(d) = IF 2 * d <= MaxDelay THEN 2 * d ELSE MaxDelay
  BY MinOfTwo, Constants DEF Doubled
<1>2. \A n \in Nat : (3 * n) \div 4 \in Nat /\ (5 * n + 3) \div 4 \in Nat
  OBVIOUS
<1>3. d \in Nat
  BY Constants
<1>4. (3 * d) \div 4 \in Nat /\ (5 * d + 3) \div 4 \in Nat
  BY <1>2, <1>3
<1>5. Min({(5 * d + 3) \div 4, MaxDelay}) <= MaxDelay
      /\ Min({(5 * d + 3) \div 4, MaxDelay}) \in Nat
  BY <1>4, MinOfTwo, Constants
<1>6. \A a \in Nat, b \in Nat : b <= MaxDelay => a..b \subseteq 0..MaxDelay
  BY Constants
<1>7. Jittered(d) \subseteq 0..MaxDelay
  BY <1>4, <1>5, <1>6 DEF Jittered
<1>8. QED
  BY <1>1, <1>7, Constants

(* What sending an event does.                                             *)
LEMMA Sending ==
  ASSUME channel \in Seq(Events), Len(channel) <= Capacity, NEW e \in Events, Send(e)
  PROVE  /\ channel' \in Seq(Events)
         /\ Len(channel') <= Capacity
         /\ \/ /\ Len(channel) < Capacity
               /\ channel' = Append(channel, e)
               /\ dropped' = dropped
            \/ /\ Len(channel) >= Capacity
               /\ channel' = channel
               /\ dropped' = dropped \cup {e.kind}
<1>1. Len(channel) \in Nat /\ Append(channel, e) \in Seq(Events)
      /\ Len(Append(channel, e)) = Len(channel) + 1
  BY AppendProperties
<1>2. QED
  BY <1>1, Constants DEF Send

LEMMA NoticesAreEvents ==
  Notice("Connected") \in Events /\ Notice("Disconnected") \in Events
BY DEF Notice, Events

LEMMA TradesAreEvents ==
  ASSUME NEW S \in SUBSET Nat
  PROVE  TradesReceived(S) \in Events
BY DEF TradesReceived, Events

LEMMA Flushing ==
  ASSUME TradeTypes, Flush
  PROVE  /\ buffer' = {}
         /\ \/ buffer = {} /\ UNCHANGED <<channel, dropped>>
            \/ buffer # {} /\ TradesReceived(buffer) \in Events /\ Send(TradesReceived(buffer))
BY TradesAreEvents DEF Flush, TradeTypes, outVars

(* A ping that is sent keeps the types.                                    *)
LEMMA BeatenTypes ==
  ASSUME NEW b \in Beats, NEW owed \in Owed, Beaten(b, owed), Reasonable(policy)
  PROVE  beat' \in Beats /\ asked' \in Owed
<1>1. CASE DeadlineAction(policy, b) = "SendPing"
  <2>1. policy.kind = "Periodic" => policy.every \in Nat
    BY DEF Reasonable
  <2>2. policy.kind = "AfterIdle" => policy.response \in Nat
    BY DEF Reasonable
  <2>3. PingSent(policy, b) \in Beats
    BY <2>1, <2>2 DEF PingSent, Beats
  <2>4. QED
    BY <1>1, <2>3, Constants DEF Beaten, Owed, Nothing
<1>2. CASE DeadlineAction(policy, b) # "SendPing"
  BY <1>2 DEF Beaten
<1>3. QED
  BY <1>1, <1>2

LEMMA ReadTypes ==
  ASSUME TypeInv, NEW owed \in {asked, Nothing}, Read(owed)
  PROVE  TaskTypes'
<1>1. MarkActivity(beat) \in Beats /\ owed \in Owed
  BY DEF TypeInv, TaskTypes, MarkActivity, Beats, Owed
<1>2. beat' \in Beats /\ asked' \in Owed
  BY <1>1, BeatenTypes, PolicyIsReasonable DEF Read, TypeInv
<1>3. UNCHANGED <<mode, sleep, delay, age, io>>
  BY DEF Read, sessionVars
<1>4. QED
  BY <1>2, <1>3 DEF TypeInv, TaskTypes

LEMMA TaskTypesPreserved ==
  ASSUME TypeInv, HeartInv', Next
  PROVE  TaskTypes'
<1> USE Constants DEF Modes
<1>1. ASSUME ConnectFails PROVE TaskTypes'
  <2>1. sleep' \in Jittered(delay) /\ delay' = Doubled(delay) /\ mode' = "Sleeping"
        /\ mode = "Connecting" /\ UNCHANGED <<age, io, beat, asked>>
    BY <1>1 DEF ConnectFails, SleepFor, ioVars
  <2>2. QED
    BY <2>1, DelayTypes DEF TypeInv, TaskTypes
<1>2. ASSUME ConnectSucceeds PROVE TaskTypes'
  <2>1. /\ mode' = "Greeting" /\ io' = "Running" /\ age' = 0 /\ asked' = Nothing
        /\ UNCHANGED <<sleep, delay>>
    BY <1>2 DEF ConnectSucceeds
  <2>2. beat' \in Beats
    BY <2>1 DEF HeartInv, Sound
  <2>3. QED
    BY <2>1, <2>2 DEF TypeInv, TaskTypes, Owed
<1>3. ASSUME Greet PROVE TaskTypes'
  BY <1>3 DEF Greet, TypeInv, TaskTypes, ioVars
<1>4. ASSUME OnTick PROVE TaskTypes'
  BY <1>4 DEF OnTick, TypeInv, TaskTypes, ioVars
<1>5. ASSUME Leave, mode = "Up" PROVE TaskTypes'
  BY <1>5, DelayTypes DEF Leave, TypeInv, TaskTypes
<1>6. ASSUME NEW trade, OnText(trade) PROVE TaskTypes'
  <2>1. delay' \in InitialDelay..MaxDelay
    BY <1>6 DEF OnText, TypeInv, TaskTypes
  <2>2. QED
    BY <1>6, <2>1 DEF OnText, TypeInv, TaskTypes, ioVars
<1>7. ASSUME OnFrame \/ OnIoGone PROVE TaskTypes'
  BY <1>5, <1>6, <1>7 DEF OnFrame, OnIoGone
<1>8. ASSUME OnStable PROVE TaskTypes'
  BY <1>8 DEF OnStable, TypeInv, TaskTypes, ioVars
<1>9. ASSUME Announce PROVE TaskTypes'
  <2>1. sleep' \in Jittered(delay) /\ mode' = "Sleeping"
        /\ mode = "Leaving" /\ UNCHANGED <<delay, age, io, beat, asked>>
    BY <1>9 DEF Announce, SleepFor, ioVars
  <2>2. QED
    BY <2>1, DelayTypes DEF TypeInv, TaskTypes
<1>10. ASSUME Wake PROVE TaskTypes'
  BY <1>10 DEF Wake, TypeInv, TaskTypes, ioVars
<1>11. ASSUME ReadTrade \/ ReadQuiet \/ ReadBad PROVE TaskTypes'
  BY <1>11, ReadTypes DEF ReadTrade, ReadQuiet, ReadBad
<1>12. ASSUME NEW last, IoEnds(last), io = "Running" PROVE TaskTypes'
  BY <1>12 DEF IoEnds, sessionVars, TypeInv, TaskTypes
<1>13. ASSUME AtDeadline PROVE TaskTypes'
  <2>1. CASE DeadlineAction(policy, beat) = "Timeout"
    BY <1>12, <1>13, <2>1 DEF AtDeadline
  <2>2. CASE DeadlineAction(policy, beat) # "Timeout"
    <3>1. Beaten(beat, asked) /\ UNCHANGED <<mode, sleep, delay, age, io>>
      BY <1>13, <2>2 DEF AtDeadline, sessionVars
    <3>2. beat' \in Beats /\ asked' \in Owed
      BY <3>1, BeatenTypes, PolicyIsReasonable DEF TypeInv, TaskTypes
    <3>3. QED
      BY <3>1, <3>2 DEF TypeInv, TaskTypes
  <2>3. QED
    BY <2>1, <2>2
<1>14. ASSUME Breaks PROVE TaskTypes'
  BY <1>12, <1>14 DEF Breaks
<1>15. ASSUME GoesSilent PROVE TaskTypes'
  BY <1>15 DEF GoesSilent, sessionVars, TypeInv, TaskTypes
<1>16. ASSUME TradeUnseen \/ Receive PROVE TaskTypes'
  BY <1>16 DEF TradeUnseen, Receive, sessionVars, ioVars, TypeInv, TaskTypes
<1>17. ASSUME Tick PROVE TaskTypes'
  <2>1. UNCHANGED <<mode, delay, io>>
    BY <1>17 DEF Tick
  <2>2. sleep' \in 0..MaxDelay
    <3>1. sleep \in Nat /\ sleep <= MaxDelay /\ (mode = "Sleeping" => sleep > 0)
          /\ sleep' = IF mode = "Sleeping" THEN sleep - 1 ELSE sleep
      BY <1>17 DEF Tick, TypeInv, TaskTypes
    <3>2. QED
      BY <3>1
  <2>3. age' \in 0..StableAfter
    BY <1>17, MinOfTwo DEF Tick, TypeInv, TaskTypes
  <2>4. beat' \in Beats
    <3>1. CASE io = "Running"
      BY <2>1, <3>1 DEF HeartInv, Sound
    <3>2. CASE io # "Running"
      BY <1>17, <3>2 DEF Tick, TypeInv, TaskTypes
    <3>3. QED
      BY <3>1, <3>2
  <2>5. asked' \in Owed
    BY <1>17, MinOfTwo DEF Tick, TypeInv, TaskTypes, Owed, Nothing
  <2>6. QED
    BY <2>1, <2>2, <2>3, <2>4, <2>5 DEF TypeInv, TaskTypes
<1>18. QED
  BY <1>1, <1>2, <1>3, <1>4, <1>7, <1>8, <1>9, <1>10, <1>11, <1>13, <1>14, <1>15, <1>16, <1>17
     DEF Next, Session, Io

LEMMA FramesAppended ==
  ASSUME TradeTypes, NEW f \in Frames, made' \in Nat, made <= made',
         frames' = Append(frames, f), f.kind = "trade" => f.trade \in 1..made'
  PROVE  /\ frames' \in Seq(Frames)
         /\ \A i \in 1..Len(frames') : frames'[i].kind = "trade" => frames'[i].trade \in 1..made'
<1>1. /\ Len(frames) \in Nat
      /\ Append(frames, f) \in Seq(Frames)
      /\ Len(Append(frames, f)) = Len(frames) + 1
      /\ \A i \in 1..Len(frames) : Append(frames, f)[i] = frames[i]
      /\ Append(frames, f)[Len(frames) + 1] = f
  BY AppendProperties DEF TradeTypes
<1>2. ASSUME NEW i \in 1..Len(frames'), frames'[i].kind = "trade"
      PROVE  frames'[i].trade \in 1..made'
  <2>1. i \in 1..Len(frames) \/ i = Len(frames) + 1
    BY <1>1
  <2>2. CASE i \in 1..Len(frames)
    <3>1. frames[i].kind = "trade" /\ frames'[i] = frames[i]
      BY <1>1, <1>2, <2>2
    <3>2. frames[i].trade \in 1..made
      BY <2>2, <3>1 DEF TradeTypes
    <3>3. QED
      BY <3>1, <3>2 DEF TradeTypes
  <2>3. CASE i = Len(frames) + 1
    BY <1>1, <1>2, <2>3
  <2>4. QED
    BY <2>1, <2>2, <2>3
<1>3. QED
  BY <1>1, <1>2

(* Steps that only take, and leave the market alone.                       *)
LEMMA TakingKeepsTrades ==
  ASSUME TradeTypes, UNCHANGED <<adapter, mode, made, buffer>>,
         frames' = frames \/ (frames # <<>> /\ frames' = Tail(frames)),
         channel' \in Seq(Events), Len(channel') <= Capacity
  PROVE  TradeTypes'
<1>1. CASE frames' = frames
  BY <1>1 DEF TradeTypes
<1>2. CASE frames # <<>> /\ frames' = Tail(frames)
  <2>1. /\ Len(frames) \in Nat \ {0}
        /\ Tail(frames) \in Seq(Frames) /\ Len(Tail(frames)) = Len(frames) - 1
        /\ \A i \in 1..(Len(frames) - 1) : Tail(frames)[i] = frames[i + 1]
    BY <1>2, HeadTailProperties DEF TradeTypes
  <2>2. \A i \in 1..(Len(frames) - 1) : i + 1 \in 1..Len(frames)
    BY <2>1
  <2>3. \A i \in 1..Len(frames') : frames'[i].kind = "trade" => frames'[i].trade \in 1..made'
    BY <1>2, <2>1, <2>2 DEF TradeTypes
  <2>4. QED
    BY <1>2, <2>1, <2>3 DEF TradeTypes
<1>3. QED
  BY <1>1, <1>2

(* Steps that empty the buffer into the channel.                           *)
LEMMA FlushingKeepsTrades ==
  ASSUME TradeTypes, Flush, UNCHANGED <<adapter, made>>, frames' = frames \/ frames' = <<>>
  PROVE  TradeTypes'
<1>1. buffer' = {} /\ channel' \in Seq(Events) /\ Len(channel') <= Capacity
  BY Flushing, Sending DEF TradeTypes
<1>2. frames' \in Seq(Frames)
      /\ \A i \in 1..Len(frames') : frames'[i].kind = "trade" => frames'[i].trade \in 1..made'
  <2>1. CASE frames' = frames
    BY <2>1 DEF TradeTypes
  <2>2. CASE frames' = <<>>
    BY <2>2 DEF TradeTypes
  <2>3. QED
    BY <2>1, <2>2
<1>3. QED
  BY <1>1, <1>2 DEF TradeTypes

(* Notices.                                                                *)
LEMMA TellingKeepsTrades ==
  ASSUME TradeTypes, NEW kind \in {"Connected", "Disconnected"}, Tell(kind), mode # "Up",
         UNCHANGED <<adapter, made, frames, buffer>>
  PROVE  TradeTypes'
<1>1. Notice(kind) \in Events /\ Send(Notice(kind))
  BY NoticesAreEvents DEF Tell
<1>2. channel' \in Seq(Events) /\ Len(channel') <= Capacity
  BY <1>1, Sending DEF TradeTypes
<1>3. buffer = {}
  BY DEF TradeTypes
<1>4. QED
  BY <1>2, <1>3 DEF TradeTypes

LEMMA TextKeepsTrades ==
  ASSUME TypeInv, frames # <<>>, Head(frames).kind = "trade", mode = "Up",
         OnText(Head(frames).trade)
  PROVE  TradeTypes'
<1> DEFINE trade == Head(frames).trade
<1>1. trade \in 1..made /\ trade \in Nat
  <2>1. Len(frames) \in Nat \ {0} /\ Head(frames) = frames[1]
    BY HeadTailProperties DEF TypeInv, TradeTypes
  <2>2. QED
    BY <2>1 DEF TypeInv, TradeTypes
<1>2. UNCHANGED <<adapter, mode, made>> /\ frames' = Tail(frames)
  BY DEF OnText
<1>3. CASE adapter.buffered
  <2>1. buffer' \subseteq 1..made /\ channel' = channel
    BY <1>1, <1>3 DEF OnText, Collected, outVars, TypeInv, TradeTypes
  <2>2. /\ Len(frames) \in Nat \ {0}
        /\ Tail(frames) \in Seq(Frames) /\ Len(Tail(frames)) = Len(frames) - 1
        /\ \A i \in 1..(Len(frames) - 1) : Tail(frames)[i] = frames[i + 1]
    BY HeadTailProperties DEF TypeInv, TradeTypes
  <2>3. \A i \in 1..(Len(frames) - 1) : i + 1 \in 1..Len(frames)
    BY <2>2
  <2>4. \A i \in 1..Len(frames') : frames'[i].kind = "trade" => frames'[i].trade \in 1..made'
    BY <1>2, <2>2, <2>3 DEF TypeInv, TradeTypes
  <2>5. QED
    BY <1>2, <1>3, <2>1, <2>2, <2>4 DEF TypeInv, TradeTypes
<1>4. CASE ~adapter.buffered
  <2>1. {trade} \in SUBSET Nat
    BY <1>1
  <2>2. TradesReceived({trade}) \in Events /\ Send(TradesReceived({trade}))
        /\ buffer' = buffer
    BY <1>4, <2>1, TradesAreEvents DEF OnText
  <2>3. channel' \in Seq(Events) /\ Len(channel') <= Capacity
    BY <2>2, Sending DEF TypeInv, TradeTypes
  <2>4. QED
    BY <1>2, <2>2, <2>3, TakingKeepsTrades DEF TypeInv
<1>5. QED
  BY <1>3, <1>4

LEMMA TradeTypesPreserved ==
  ASSUME TypeInv, Next
  PROVE  TradeTypes'
<1>0. TradeTypes /\ mode \in Modes
  BY DEF TypeInv, TaskTypes
<1> USE <1>0
<1>1. ASSUME ConnectFails PROVE TradeTypes'
  BY <1>1, TellingKeepsTrades DEF ConnectFails
<1>2. ASSUME ConnectSucceeds PROVE TradeTypes'
  BY <1>2, FlushingKeepsTrades DEF ConnectSucceeds
<1>3. ASSUME Greet PROVE TradeTypes'
  BY <1>3, TellingKeepsTrades DEF Greet
<1>4. ASSUME OnTick PROVE TradeTypes'
  BY <1>4, FlushingKeepsTrades DEF OnTick
<1>5. ASSUME Leave PROVE TradeTypes'
  BY <1>5, FlushingKeepsTrades DEF Leave
<1>6. ASSUME OnFrame \/ OnIoGone PROVE TradeTypes'
  BY <1>5, <1>6, TextKeepsTrades DEF OnFrame, OnIoGone
<1>7. ASSUME OnStable \/ Wake PROVE TradeTypes'
  <2>1. UNCHANGED <<adapter, made, frames, buffer, channel>>
        /\ (mode' = mode \/ mode = "Sleeping")
    BY <1>7 DEF OnStable, Wake, outVars
  <2>2. QED
    BY <2>1 DEF TradeTypes
<1>8. ASSUME Announce PROVE TradeTypes'
  BY <1>8, TellingKeepsTrades DEF Announce
<1>9. ASSUME ReadTrade PROVE TradeTypes'
  <2>1. /\ made' = made + 1 /\ made' \in Nat
        /\ frames' = Append(frames, Frame("trade", made'))
        /\ Frame("trade", made') \in Frames
        /\ UNCHANGED <<adapter, mode, buffer, channel>>
    BY <1>9 DEF ReadTrade, Read, sessionVars, outVars, Frame, Frames, TradeTypes
  <2>2. Frame("trade", made').trade = made'
    BY DEF Frame
  <2>3. /\ frames' \in Seq(Frames)
        /\ \A i \in 1..Len(frames') : frames'[i].kind = "trade" => frames'[i].trade \in 1..made'
    BY <2>1, <2>2, FramesAppended DEF TradeTypes
  <2>4. buffer' \subseteq 1..made'
    BY <2>1 DEF TradeTypes
  <2>5. QED
    BY <2>1, <2>3, <2>4 DEF TradeTypes
<1>10. ASSUME ReadQuiet \/ GoesSilent \/ Tick PROVE TradeTypes'
  BY <1>10 DEF ReadQuiet, Read, GoesSilent, Tick, sessionVars, outVars, TradeTypes
<1>11. ASSUME NEW f \in Frames, f.kind # "trade", frames' = Append(frames, f),
              UNCHANGED <<adapter, mode, made, buffer, channel>>
       PROVE  TradeTypes'
  <2>1. /\ frames' \in Seq(Frames)
        /\ \A i \in 1..Len(frames') : frames'[i].kind = "trade" => frames'[i].trade \in 1..made'
    BY <1>11, FramesAppended DEF TradeTypes
  <2>2. QED
    BY <1>11, <2>1 DEF TradeTypes
<1>12. Frame("bad", 0) \in Frames /\ Frame("error", 0) \in Frames
       /\ Frame("bad", 0).kind # "trade" /\ Frame("error", 0).kind # "trade"
  BY DEF Frame, Frames
<1>13. ASSUME ReadBad PROVE TradeTypes'
  <2>1. frames' = Append(frames, Frame("bad", 0))
        /\ UNCHANGED <<adapter, mode, made, buffer, channel>>
    BY <1>13 DEF ReadBad, Read, sessionVars, outVars
  <2>2. QED
    BY <1>11, <1>12, <2>1
<1>14. ASSUME NEW last \in {<<>>, <<Frame("error", 0)>>}, IoEnds(last) PROVE TradeTypes'
  <2>1. UNCHANGED <<adapter, mode, made, buffer, channel>> /\ frames' = frames \o last
    BY <1>14 DEF IoEnds, sessionVars, outVars
  <2>2. CASE last = <<>>
    <3>1. frames' = frames
      BY <2>1, <2>2 DEF TradeTypes
    <3>2. QED
      BY <2>1, <3>1 DEF TradeTypes
  <2>3. CASE last = <<Frame("error", 0)>>
    <3>1. frames' = Append(frames, Frame("error", 0))
      BY <1>12, <2>1, <2>3, AppendIsConcat DEF TradeTypes
    <3>2. QED
      BY <1>11, <1>12, <2>1, <3>1
  <2>4. QED
    BY <2>2, <2>3
<1>15. ASSUME AtDeadline PROVE TradeTypes'
  <2>1. CASE DeadlineAction(policy, beat) = "Timeout"
    BY <1>14, <1>15, <2>1 DEF AtDeadline
  <2>2. CASE DeadlineAction(policy, beat) # "Timeout"
    BY <1>15, <2>2 DEF AtDeadline, sessionVars, outVars, TradeTypes
  <2>3. QED
    BY <2>1, <2>2
<1>16. ASSUME Breaks PROVE TradeTypes'
  BY <1>14, <1>16 DEF Breaks
<1>17. ASSUME TradeUnseen PROVE TradeTypes'
  <2>1. /\ made' = made + 1 /\ made \in Nat
        /\ UNCHANGED <<adapter, mode, frames, buffer, channel>>
    BY <1>17 DEF TradeUnseen, sessionVars, outVars, TradeTypes
  <2>2. QED
    BY <2>1 DEF TradeTypes
<1>18. ASSUME Receive PROVE TradeTypes'
  <2>1. /\ channel # <<>> /\ channel' = Tail(channel)
        /\ UNCHANGED <<adapter, mode, made, frames, buffer>>
    BY <1>18 DEF Receive, sessionVars
  <2>2. channel' \in Seq(Events) /\ Len(channel') <= Capacity
    BY <2>1, HeadTailProperties, Constants DEF TradeTypes
  <2>3. QED
    BY <2>1, <2>2, TakingKeepsTrades
<1>19. QED
  BY <1>1, <1>2, <1>3, <1>4, <1>6, <1>7, <1>8, <1>9, <1>10, <1>13, <1>15, <1>16, <1>17, <1>18
     DEF Next, Session, Io

(* Every variable keeps its type, and the channel its place in the session. *)
THEOREM TypeInvariance == Spec => []TypeInv
<1>1. Init => TypeInv
  <2> SUFFICES ASSUME Init
               PROVE  TypeInv
    OBVIOUS
  <2>1. HeartInv
    BY DEF Init, HeartInv
  <2>2. NewBeat(policy) \in Beats
    BY <2>1, PolicyIsReasonable DEF NewBeat, Beats, Reasonable
  <2>3. TaskTypes
    BY <2>2, Constants DEF Init, TaskTypes, Modes, Owed
  <2>4. TradeTypes
    BY Constants DEF Init, TradeTypes
  <2>5. QED
    BY <2>1, <2>3, <2>4 DEF TypeInv
<1>2. TypeInv /\ HeartInv' /\ [Next]_vars => TypeInv'
  <2>1. ASSUME TypeInv, UNCHANGED vars
        PROVE  TypeInv'
    <3>1. HeartInv'
      BY <2>1, HeartUntouched DEF TypeInv, vars, ioVars
    <3>2. TaskTypes' /\ TradeTypes'
      BY <2>1 DEF TypeInv, TaskTypes, TradeTypes, vars, sessionVars, ioVars, outVars
    <3>3. QED
      BY <3>1, <3>2 DEF TypeInv
  <2>2. QED
    BY <2>1, TaskTypesPreserved, TradeTypesPreserved DEF TypeInv
<1>3. QED
  BY <1>1, <1>2, HeartInvariance, PTL DEF Spec

(* Every reachable state of the session, its I/O task and its channel is   *)
(* well formed.                                                            *)
THEOREM TypeCorrect == Spec => []TypeOK
<1>1. TypeInv => TypeOK
  <2> SUFFICES ASSUME TypeInv
               PROVE  TypeOK
    OBVIOUS
  <2>1. \A i \in DOMAIN frames : frames[i].kind \in {"trade", "bad", "error"}
    <3>1. \A i \in DOMAIN frames : frames[i] \in Frames
      BY DEF TypeInv, TradeTypes
    <3>2. QED
      BY <3>1 DEF Frames
  <2>2. QED
    BY <2>1 DEF TypeInv, HeartInv, TaskTypes, TradeTypes, TypeOK, Modes, Owed
<1>2. QED
  BY <1>1, TypeInvariance, PTL

-----------------------------------------------------------------------------
(* What the application is told *)

ViewTypes ==
  /\ DOMAIN view = {"up", "last", "warned", "hole", "outside", "missed"}
  /\ view.up \in BOOLEAN
  /\ view.outside \in BOOLEAN
  /\ view.missed \in BOOLEAN

(* What will be believed when all is read.                                 *)
UpInTheEnd == UpAt(channel, view.up, Len(channel) + 1)

(* Unless a notice was dropped, it is the truth; and unless it was one of  *)
(* a connection, every batch of trades will find the application told.     *)
TruthInv ==
  /\ ViewTypes
  /\ ~view.missed => (UpInTheEnd <=> mode \in {"Up", "Leaving"})
  /\ "Connected" \notin dropped =>
       /\ \A i \in 1..Len(channel) :
            channel[i].kind = "Trades" => UpAt(channel, view.up, i)
       /\ mode = "Up" => UpInTheEnd
       /\ ~view.outside

LEMMA Agreed == TypeInv => (UpInTheEnd <=> Believed)
<1> SUFFICES ASSUME TypeInv
             PROVE  UpInTheEnd <=> Believed
  OBVIOUS
<1>1. DOMAIN channel = 1..Len(channel) /\ Len(channel) \in Nat
  BY DEF TypeInv, TradeTypes
<1>2. \A i \in 1..Len(channel) :
        (\A j \in 1..Len(channel) : j > i => channel[j].kind = "Trades")
          <=> (\A j \in (i + 1)..Len(channel) : channel[j].kind = "Trades")
  BY <1>1
<1>3. (Len(channel) + 1) - 1 = Len(channel)
  BY <1>1
<1>4. QED
  BY <1>1, <1>2, <1>3 DEF UpInTheEnd, UpAt, Believed

(* Steps that leave the channel, the application and the answer to whether *)
(* there is a connection alone.                                            *)
LEMMA TruthUntouched ==
  ASSUME TruthInv, UNCHANGED <<channel, dropped, view>>,
         mode' \in {"Up", "Leaving"} <=> mode \in {"Up", "Leaving"},
         mode' = "Up" => mode = "Up"
  PROVE  TruthInv'
BY DEF TruthInv, ViewTypes, UpInTheEnd

(* Trades are sent.                                                        *)
LEMMA TradesKeepTruth ==
  ASSUME TypeInv, TruthInv, mode = "Up", mode' \in {"Up", "Leaving"}, view' = view,
         NEW S \in SUBSET Nat, Send(TradesReceived(S))
  PROVE  TruthInv'
<1> DEFINE e == TradesReceived(S)
<1>1. e \in Events /\ e.kind = "Trades"
  BY TradesAreEvents DEF TradesReceived
<1>2. channel \in Seq(Events) /\ Len(channel) <= Capacity /\ Len(channel) \in Nat
      /\ view.up \in BOOLEAN
  BY DEF TypeInv, TradeTypes, TruthInv, ViewTypes
<1> HIDE DEF e
<1>3. CASE channel' = Append(channel, e) /\ dropped' = dropped
  <2>1. /\ \A i \in 1..(Len(channel) + 1) :
             UpAt(channel', view.up, i) <=> UpAt(channel, view.up, i)
        /\ UpAt(channel', view.up, Len(channel) + 2) <=> UpInTheEnd
    <3>1. /\ \A i \in 1..(Len(channel) + 1) :
               UpAt(Append(channel, e), view.up, i) <=> UpAt(channel, view.up, i)
          /\ UpAt(Append(channel, e), view.up, Len(channel) + 2)
               <=> (e.kind = "Connected"
                      \/ (e.kind = "Trades" /\ UpAt(channel, view.up, Len(channel) + 1)))
      BY <1>1, <1>2, UpAppend
    <3>2. QED
      BY <1>1, <1>3, <3>1 DEF UpInTheEnd
  <2>2. /\ Len(channel') = Len(channel) + 1
        /\ \A i \in 1..Len(channel) : channel'[i] = channel[i]
        /\ (Len(channel) + 1) + 1 = Len(channel) + 2
    BY <1>1, <1>2, <1>3, AppendProperties
  <2>3. UpInTheEnd' <=> UpInTheEnd
    BY <2>1, <2>2 DEF UpInTheEnd
  <2>4. ASSUME "Connected" \notin dropped, NEW i \in 1..Len(channel'),
               channel'[i].kind = "Trades"
        PROVE  UpAt(channel', view.up, i)
    <3>1. CASE i \in 1..Len(channel)
      <4>1. UpAt(channel, view.up, i)
        BY <2>2, <2>4, <3>1 DEF TruthInv
      <4>2. i \in 1..(Len(channel) + 1)
        BY <1>2, <3>1
      <4>3. QED
        BY <2>1, <4>1, <4>2
    <3>2. CASE i = Len(channel) + 1
      <4>1. UpInTheEnd
        BY <2>4 DEF TruthInv
      <4>2. i \in 1..(Len(channel) + 1)
        BY <1>2, <3>2
      <4>3. QED
        BY <2>1, <3>2, <4>1, <4>2 DEF UpInTheEnd
    <3>3. QED
      BY <1>2, <2>2, <3>1, <3>2
  <2>5. ViewTypes' /\ view' = view /\ dropped' = dropped
    BY <1>3 DEF TruthInv, ViewTypes
  <2>6. QED
    BY <2>3, <2>4, <2>5 DEF TruthInv
<1>4. CASE channel' = channel /\ dropped' = dropped \cup {e.kind}
  <2>1. ("Connected" \in dropped') <=> ("Connected" \in dropped)
    BY <1>1, <1>4
  <2>2. QED
    BY <1>4, <2>1 DEF TruthInv, ViewTypes, UpInTheEnd
<1>5. QED
  BY <1>1, <1>2, <1>3, <1>4, Sending DEF e

(* A notice is sent, or lost: either way the application is judged by it.  *)
LEMMA NoticesKeepTruth ==
  ASSUME TypeInv, TruthInv, NEW kind \in {"Connected", "Disconnected"}, Tell(kind),
         mode' \in {"Up", "Leaving"} <=> kind = "Connected"
  PROVE  TruthInv'
<1> DEFINE e == Notice(kind)
           lost == Len(channel) >= Capacity
<1>1. e \in Events /\ e.kind = kind /\ kind # "Trades"
  BY NoticesAreEvents DEF Notice
<1>2. channel \in Seq(Events) /\ Len(channel) <= Capacity /\ Len(channel) \in Nat
      /\ view.up \in BOOLEAN
  BY DEF TypeInv, TradeTypes, TruthInv, ViewTypes
<1>3. Send(e) /\ view' = [view EXCEPT !.missed = lost]
  BY DEF Tell
<1> HIDE DEF e
<1>4. /\ ViewTypes' /\ view'.up = view.up /\ view'.outside = view.outside
      /\ view'.missed = lost
  <2>1. lost \in BOOLEAN
    OBVIOUS
  <2> HIDE DEF lost
  <2>2. QED
    BY <1>3, <2>1 DEF TruthInv, ViewTypes
<1>5. CASE Len(channel) < Capacity /\ channel' = Append(channel, e) /\ dropped' = dropped
  <2>1. /\ \A i \in 1..(Len(channel) + 1) :
             UpAt(channel', view.up, i) <=> UpAt(channel, view.up, i)
        /\ UpAt(channel', view.up, Len(channel) + 2) <=> kind = "Connected"
    <3>1. /\ \A i \in 1..(Len(channel) + 1) :
               UpAt(Append(channel, e), view.up, i) <=> UpAt(channel, view.up, i)
          /\ UpAt(Append(channel, e), view.up, Len(channel) + 2)
               <=> (e.kind = "Connected"
                      \/ (e.kind = "Trades" /\ UpAt(channel, view.up, Len(channel) + 1)))
      BY <1>1, <1>2, UpAppend
    <3>2. QED
      BY <1>1, <1>5, <3>1
  <2>2. /\ Len(channel') = Len(channel) + 1
        /\ \A i \in 1..Len(channel) : channel'[i] = channel[i]
        /\ channel'[Len(channel) + 1] = e
        /\ (Len(channel) + 1) + 1 = Len(channel) + 2
    BY <1>1, <1>2, <1>5, AppendProperties
  <2>3. UpInTheEnd' <=> kind = "Connected"
    BY <1>4, <2>1, <2>2 DEF UpInTheEnd
  <2>4. ASSUME "Connected" \notin dropped, NEW i \in 1..Len(channel'),
               channel'[i].kind = "Trades"
        PROVE  UpAt(channel', view'.up, i)
    <3>1. i # Len(channel) + 1
      BY <1>1, <2>2, <2>4
    <3>2. i \in 1..Len(channel) /\ i \in 1..(Len(channel) + 1)
      BY <1>2, <2>2, <3>1
    <3>3. UpAt(channel, view.up, i)
      BY <2>2, <2>4, <3>2 DEF TruthInv
    <3>4. QED
      BY <1>4, <2>1, <3>2, <3>3
  <2>5. "Connected" \notin dropped => ~view'.outside
    BY <1>4 DEF TruthInv
  <2>6. mode' = "Up" => kind = "Connected"
    OBVIOUS
  <2>7. QED
    BY <1>4, <1>5, <2>3, <2>4, <2>5, <2>6 DEF TruthInv
<1>6. CASE lost /\ channel' = channel /\ dropped' = dropped \cup {e.kind}
  <2>1. view'.missed
    BY <1>4, <1>6
  <2>2. CASE kind = "Connected"
    BY <1>1, <1>4, <1>6, <2>1, <2>2 DEF TruthInv
  <2>3. CASE kind = "Disconnected"
    <3>1. ("Connected" \in dropped') <=> ("Connected" \in dropped)
      BY <1>1, <1>6, <2>3
    <3>2. mode' # "Up"
      BY <2>3
    <3>3. QED
      BY <1>4, <1>6, <2>1, <3>1, <3>2 DEF TruthInv
  <2>4. QED
    BY <2>2, <2>3
<1>7. QED
  BY <1>1, <1>2, <1>3, <1>5, <1>6, Sending

LEMMA ReceivingKeepsTruth ==
  ASSUME TypeInv, TruthInv, Receive
  PROVE  TruthInv'
<1> DEFINE e == Head(channel)
<1>1. /\ channel \in Seq(Events) /\ channel # <<>> /\ channel' = Tail(channel)
      /\ view' = Told(e) /\ UNCHANGED <<mode, dropped>> /\ view.up \in BOOLEAN
  BY DEF TypeInv, TradeTypes, TruthInv, ViewTypes, Receive, sessionVars
<1>2. /\ Len(channel) \in Nat \ {0} /\ Len(channel') = Len(channel) - 1
      /\ \A i \in 1..(Len(channel) - 1) : channel'[i] = channel[i + 1]
      /\ e = channel[1] /\ e \in Events
  BY <1>1, HeadTailProperties
<1>3. e.kind \in {"Connected", "Disconnected", "Trades"}
  BY <1>2 DEF Events
<1> HIDE DEF e
<1>4. /\ ViewTypes'
      /\ view'.up <=> (e.kind = "Connected" \/ (e.kind = "Trades" /\ view.up))
      /\ view'.missed = view.missed
      /\ view'.outside <=> (view.outside \/ (e.kind = "Trades" /\ ~view.up))
  <2>1. ViewTypes
    BY DEF TruthInv
  <2>2. CASE e.kind = "Connected"
    <3>1. view' = [view EXCEPT !.up = TRUE]
      BY <1>1, <2>2 DEF Told
    <3>2. QED
      BY <2>1, <2>2, <3>1 DEF ViewTypes
  <2>3. CASE e.kind = "Disconnected"
    <3>1. view' = [view EXCEPT !.up = FALSE, !.warned = TRUE]
      BY <1>1, <2>3 DEF Told
    <3>2. QED
      BY <2>1, <2>3, <3>1 DEF ViewTypes
  <2>4. CASE e.kind = "Trades"
    <3>1. PICK last, hole :
            view' = [view EXCEPT !.last = last, !.warned = FALSE,
                                 !.outside = @ \/ ~view.up, !.hole = hole]
      BY <1>1, <2>4 DEF Told
    <3>2. QED
      BY <2>1, <2>4, <3>1 DEF ViewTypes
  <2>5. QED
    BY <1>3, <2>2, <2>3, <2>4
<1>5. \A i \in 1..Len(channel) :
        UpAt(channel', view'.up, i) <=> UpAt(channel, view.up, i + 1)
  <2>1. view'.up \in BOOLEAN
    BY <1>4 DEF ViewTypes
  <2>2. QED
    BY <1>1, <1>4, <2>1, UpTail DEF e
<1>6. UpInTheEnd' <=> UpInTheEnd
  <2>1. Len(channel) \in 1..Len(channel) /\ Len(channel') + 1 = Len(channel)
    BY <1>2
  <2>2. QED
    BY <1>5, <2>1 DEF UpInTheEnd
<1>7. ASSUME "Connected" \notin dropped, NEW i \in 1..Len(channel'),
             channel'[i].kind = "Trades"
      PROVE  UpAt(channel', view'.up, i)
  <2>1. i \in 1..(Len(channel) - 1) /\ i \in 1..Len(channel) /\ i + 1 \in 1..Len(channel)
    BY <1>2
  <2>2. UpAt(channel, view.up, i + 1)
    BY <1>2, <1>7, <2>1 DEF TruthInv
  <2>3. QED
    BY <1>5, <2>1, <2>2
<1>8. ASSUME "Connected" \notin dropped
      PROVE  ~view'.outside
  <2>1. ~view.outside
    BY <1>8 DEF TruthInv
  <2>2. CASE e.kind = "Trades"
    <3>1. 1 \in 1..Len(channel)
      BY <1>2
    <3>2. UpAt(channel, view.up, 1)
      BY <1>2, <1>8, <2>2, <3>1 DEF TruthInv
    <3>3. view.up
      BY <1>1, <3>2, UpFirst
    <3>4. QED
      BY <1>4, <2>1, <3>3
  <2>3. QED
    BY <1>4, <2>1, <2>2
<1>9. QED
  BY <1>1, <1>4, <1>6, <1>7, <1>8 DEF TruthInv

(* Flushing sends trades or nothing; only a connection that is up has any. *)
LEMMA FlushingKeepsTruth ==
  ASSUME TypeInv, TruthInv, Flush, view' = view,
         \/ mode = "Up" /\ mode' \in {"Up", "Leaving"}
         \/ mode = "Connecting" /\ mode' = "Greeting"
  PROVE  TruthInv'
<1>1. CASE buffer = {}
  BY <1>1, Flushing, TruthUntouched DEF TypeInv
<1>2. CASE buffer # {}
  <2>1. mode = "Up" /\ buffer \in SUBSET Nat
    BY <1>2 DEF TypeInv, TradeTypes
  <2>2. Send(TradesReceived(buffer))
    BY <1>2, Flushing DEF TypeInv
  <2>3. mode' \in {"Up", "Leaving"}
    BY <2>1
  <2>4. QED
    BY <2>1, <2>2, <2>3, TradesKeepTruth
<1>3. QED
  BY <1>1, <1>2

LEMMA TruthPreserved ==
  ASSUME TypeInv, TruthInv, Next
  PROVE  TruthInv'
<1>1. ASSUME ConnectFails PROVE TruthInv'
  BY <1>1, NoticesKeepTruth DEF ConnectFails, SleepFor
<1>2. ASSUME ConnectSucceeds PROVE TruthInv'
  BY <1>2, FlushingKeepsTruth DEF ConnectSucceeds
<1>3. ASSUME Greet PROVE TruthInv'
  BY <1>3, NoticesKeepTruth DEF Greet
<1>4. ASSUME OnTick PROVE TruthInv'
  BY <1>4, FlushingKeepsTruth DEF OnTick
<1>5. ASSUME Leave, mode = "Up" PROVE TruthInv'
  BY <1>5, FlushingKeepsTruth DEF Leave
<1>6. ASSUME mode = "Up", frames # <<>>, Head(frames).kind = "trade",
             OnText(Head(frames).trade)
      PROVE  TruthInv'
  <2>1. CASE adapter.buffered
    BY <1>6, <2>1, TruthUntouched DEF OnText, outVars
  <2>2. CASE ~adapter.buffered
    <3>1. frames[1] \in Frames /\ Head(frames) = frames[1]
      BY <1>6, HeadTailProperties DEF TypeInv, TradeTypes
    <3>2. {Head(frames).trade} \in SUBSET Nat
      BY <3>1 DEF Frames
    <3>3. QED
      BY <1>6, <2>2, <3>2, TradesKeepTruth DEF OnText
  <2>3. QED
    BY <2>1, <2>2
<1>7. ASSUME OnFrame \/ OnIoGone PROVE TruthInv'
  BY <1>5, <1>6, <1>7 DEF OnFrame, OnIoGone
<1>8. ASSUME Announce PROVE TruthInv'
  BY <1>8, NoticesKeepTruth DEF Announce, SleepFor
<1>9. ASSUME OnStable \/ Wake PROVE TruthInv'
  BY <1>9, TruthUntouched DEF OnStable, Wake, outVars
<1>10. ASSUME ReadTrade \/ ReadQuiet \/ ReadBad \/ AtDeadline \/ Breaks \/ GoesSilent
       PROVE  TruthInv'
  BY <1>10, TruthUntouched DEF ReadTrade, ReadQuiet, ReadBad, Read, AtDeadline, IoEnds,
     Breaks, GoesSilent, sessionVars, outVars
<1>11. ASSUME TradeUnseen \/ Tick PROVE TruthInv'
  BY <1>11, TruthUntouched DEF TradeUnseen, Tick, sessionVars, outVars
<1>12. QED
  BY <1>1, <1>2, <1>3, <1>4, <1>7, <1>8, <1>9, <1>10, <1>11, ReceivingKeepsTruth
     DEF Next, Session, Io

(* What is told of the connection, read or still queued, follows its mode. *)
THEOREM TruthInvariance == Spec => []TruthInv
<1>1. Init => TruthInv
  <2> SUFFICES ASSUME Init
               PROVE  TruthInv
    OBVIOUS
  <2>1. ViewTypes /\ view.up = FALSE /\ view.outside = FALSE /\ view.missed = FALSE
    BY DEF Init, ViewTypes
  <2>2. Len(channel) = 0 /\ channel = <<>> /\ mode = "Connecting"
    BY DEF Init
  <2>3. ~UpInTheEnd
    <3>1. Len(channel) + 1 = 1
      BY <2>2
    <3>2. QED
      BY <2>1, <3>1, UpFirst DEF UpInTheEnd
  <2>4. QED
    BY <2>1, <2>2, <2>3 DEF TruthInv
<1>2. TruthInv /\ TypeInv /\ [Next]_vars => TruthInv'
  <2>1. ASSUME TruthInv, UNCHANGED vars PROVE TruthInv'
    BY <2>1, TruthUntouched DEF vars, outVars, sessionVars
  <2>2. QED
    BY <2>1, TruthPreserved
<1>3. QED
  BY <1>1, <1>2, TypeInvariance, PTL DEF Spec

(* When the application has read its events, it believes what is true,     *)
(* unless the last notice found the channel full.                          *)
THEOREM BeliefTrue == Spec => []BeliefIsTrue
<1>1. TypeInv /\ TruthInv => BeliefIsTrue
  BY Agreed DEF TruthInv, BeliefIsTrue
<1>2. QED
  BY <1>1, TypeInvariance, TruthInvariance, PTL

(* No trades are handed to an application that does not know of their      *)
(* connection, unless the notice of a connection was dropped.              *)
THEOREM TradesInside == Spec => []TradesWhileConnected
<1>1. TruthInv => TradesWhileConnected
  BY DEF TruthInv, TradesWhileConnected
<1>2. QED
  BY <1>1, TruthInvariance, PTL

-----------------------------------------------------------------------------
(* Trades in a row                                                         *)
(*                                                                         *)
(* What is on its way from the server to the application is a row of marks *)
(* mk[0], mk[1], ...: the newest trade of an event or a frame, or whether  *)
(* it says nothing of trades, or calls for a repair.  mk[0] is where the   *)
(* one who reads the row stands.                                           *)

Pass == -1

Reset == -2

(* Before the i-th mark is read, m is the newest trade, and no repair has  *)
(* been called for since.                                                  *)
Stands(mk, i, m) ==
  \E k \in 0..(i - 1) : /\ mk[k] = m
                        /\ m >= 0
                        /\ \A j \in (k + 1)..(i - 1) : mk[j] = Pass

LEMMA StandsLocal ==
  ASSUME NEW mk, NEW more, NEW i \in Nat, NEW m,
         \A j \in 0..(i - 1) : mk[j] = more[j]
  PROVE  Stands(more, i, m) <=> Stands(mk, i, m)
<1>1. \A k \in 0..(i - 1) : mk[k] = more[k] /\ \A j \in (k + 1)..(i - 1) : mk[j] = more[j]
  OBVIOUS
<1>2. QED
  BY <1>1 DEF Stands

LEMMA StandsFirst ==
  ASSUME NEW mk, NEW m
  PROVE  Stands(mk, 1, m) <=> mk[0] = m /\ m >= 0
BY DEF Stands

LEMMA StandsNext ==
  ASSUME NEW mk, NEW i \in Nat \ {0}, NEW m \in Int
  PROVE  Stands(mk, i + 1, m) <=> (\/ mk[i] = m /\ m >= 0
                                   \/ mk[i] = Pass /\ Stands(mk, i, m))
<1>1. (i + 1) - 1 = i
  OBVIOUS
<1>2. ASSUME Stands(mk, i + 1, m)
      PROVE  \/ mk[i] = m /\ m >= 0
             \/ mk[i] = Pass /\ Stands(mk, i, m)
  <2>1. PICK k \in 0..i : /\ mk[k] = m
                          /\ m >= 0
                          /\ \A j \in (k + 1)..i : mk[j] = Pass
    BY <1>1, <1>2 DEF Stands
  <2>2. CASE k = i
    BY <2>1, <2>2
  <2>3. CASE k # i
    <3>1. k \in 0..(i - 1) /\ i \in (k + 1)..i
      BY <2>3
    <3>2. QED
      BY <2>1, <3>1 DEF Stands
  <2>4. QED
    BY <2>2, <2>3
<1>3. ASSUME mk[i] = m, m >= 0
      PROVE  Stands(mk, i + 1, m)
  <2>1. i \in 0..i /\ \A j \in (i + 1)..i : mk[j] = Pass
    OBVIOUS
  <2>2. QED
    BY <1>1, <1>3, <2>1 DEF Stands
<1>4. ASSUME mk[i] = Pass, Stands(mk, i, m)
      PROVE  Stands(mk, i + 1, m)
  <2>1. PICK k \in 0..(i - 1) : /\ mk[k] = m
                                /\ m >= 0
                                /\ \A j \in (k + 1)..(i - 1) : mk[j] = Pass
    BY <1>4 DEF Stands
  <2>2. \A j \in (k + 1)..i : mk[j] = Pass
    BY <1>4, <2>1
  <2>3. QED
    BY <1>1, <2>1, <2>2 DEF Stands
<1>5. QED
  BY <1>2, <1>3, <1>4

LEMMA StandsAppend ==
  ASSUME NEW n \in Nat, NEW mk, NEW more, \A j \in 0..n : more[j] = mk[j], NEW m \in Int
  PROVE  /\ \A i \in 1..(n + 1) : Stands(more, i, m) <=> Stands(mk, i, m)
         /\ Stands(more, n + 2, m) <=> (\/ more[n + 1] = m /\ m >= 0
                                        \/ more[n + 1] = Pass /\ Stands(mk, n + 1, m))
<1>1. \A i \in 1..(n + 1) : Stands(more, i, m) <=> Stands(mk, i, m)
  <2> TAKE i \in 1..(n + 1)
  <2>1. i \in Nat /\ \A j \in 0..(i - 1) : mk[j] = more[j]
    OBVIOUS
  <2>2. QED
    BY <2>1, StandsLocal
<1>2. n + 1 \in Nat \ {0} /\ (n + 1) + 1 = n + 2 /\ n + 1 \in 1..(n + 1)
  OBVIOUS
<1>3. Stands(more, (n + 1) + 1, m) <=> (\/ more[n + 1] = m /\ m >= 0
                                        \/ more[n + 1] = Pass /\ Stands(more, n + 1, m))
  BY <1>2, StandsNext
<1>4. QED
  BY <1>1, <1>2, <1>3

(* One mark is read: it replaces where the reader stands, unless it passes. *)
LEMMA StandsTail ==
  ASSUME NEW mk, NEW rest, NEW n \in Nat, NEW m \in Int,
         rest[0] = IF mk[1] = Pass THEN mk[0] ELSE mk[1],
         \A j \in 1..n : rest[j] = mk[j + 1]
  PROVE  \A i \in 1..(n + 1) : Stands(rest, i, m) <=> Stands(mk, i + 1, m)
<1> TAKE i \in 1..(n + 1)
<1>1. (i + 1) - 1 = i /\ i \in Nat \ {0} /\ i - 1 <= n
  OBVIOUS
<1>2. ASSUME Stands(rest, i, m)
      PROVE  Stands(mk, i + 1, m)
  <2>1. PICK k \in 0..(i - 1) : /\ rest[k] = m
                                /\ m >= 0
                                /\ \A j \in (k + 1)..(i - 1) : rest[j] = Pass
    BY <1>2 DEF Stands
  <2>2. \A j \in (k + 2)..i : mk[j] = Pass
    <3> TAKE j \in (k + 2)..i
    <3>1. j - 1 \in (k + 1)..(i - 1) /\ j - 1 \in 1..n /\ (j - 1) + 1 = j
      BY <1>1
    <3>2. QED
      BY <2>1, <3>1
  <2>3. CASE k # 0
    <3>1. k \in 1..n /\ k + 1 \in 0..i /\ (k + 1) + 1 = k + 2
      BY <1>1, <2>3
    <3>2. mk[k + 1] = m
      BY <2>1, <3>1
    <3>3. QED
      BY <1>1, <2>1, <2>2, <3>1, <3>2 DEF Stands
  <2>4. CASE k = 0 /\ mk[1] # Pass
    <3>1. mk[1] = m /\ 1 \in 0..i /\ k + 2 = 1 + 1
      BY <1>1, <2>1, <2>4
    <3>2. QED
      BY <1>1, <2>1, <2>2, <3>1 DEF Stands
  <2>5. CASE k = 0 /\ mk[1] = Pass
    <3>1. mk[0] = m /\ 0 \in 0..i
      BY <1>1, <2>1, <2>5
    <3>2. \A j \in (0 + 1)..i : mk[j] = Pass
      <4> TAKE j \in (0 + 1)..i
      <4>1. j = 1 \/ j \in (k + 2)..i
        BY <2>5
      <4>2. QED
        BY <2>2, <2>5, <4>1
    <3>3. QED
      BY <1>1, <2>1, <3>1, <3>2 DEF Stands
  <2>6. QED
    BY <2>3, <2>4, <2>5
<1>3. ASSUME Stands(mk, i + 1, m)
      PROVE  Stands(rest, i, m)
  <2>1. PICK k \in 0..i : /\ mk[k] = m
                          /\ m >= 0
                          /\ \A j \in (k + 1)..i : mk[j] = Pass
    BY <1>1, <1>3 DEF Stands
  <2>2. \A q \in Int : q >= k /\ q >= 1 /\ q <= i - 1 => rest[q] = Pass
    <3> TAKE q \in Int
    <3>1. q >= k /\ q >= 1 /\ q <= i - 1 => q + 1 \in (k + 1)..i /\ q \in 1..n
      BY <1>1
    <3>2. QED
      BY <2>1, <3>1
  <2>3. CASE k >= 2
    <3>1. k - 1 \in 1..n /\ (k - 1) + 1 = k /\ k - 1 \in 0..(i - 1)
      BY <1>1, <2>3
    <3>2. rest[k - 1] = m
      BY <2>1, <3>1
    <3>3. \A j \in ((k - 1) + 1)..(i - 1) : rest[j] = Pass
      BY <2>2, <2>3
    <3>4. QED
      BY <2>1, <3>1, <3>2, <3>3 DEF Stands
  <2>4. CASE k = 1
    <3>1. mk[1] # Pass
      BY <2>1, <2>4 DEF Pass
    <3>2. rest[0] = m /\ 0 \in 0..(i - 1)
      BY <1>1, <2>1, <2>4, <3>1
    <3>3. \A j \in (0 + 1)..(i - 1) : rest[j] = Pass
      BY <2>2, <2>4
    <3>4. QED
      BY <2>1, <3>2, <3>3 DEF Stands
  <2>5. CASE k = 0
    <3>1. 1 \in (k + 1)..i
      BY <1>1, <2>5
    <3>2. rest[0] = m /\ 0 \in 0..(i - 1)
      BY <1>1, <2>1, <2>5, <3>1
    <3>3. \A j \in (0 + 1)..(i - 1) : rest[j] = Pass
      BY <2>2, <2>5
    <3>4. QED
      BY <2>1, <3>2, <3>3 DEF Stands
  <2>6. QED
    BY <2>3, <2>4, <2>5
<1>4. QED
  BY <1>2, <1>3

(* Where a reader stands who had nothing in the beginning, stands any.     *)
LEMMA StandsMore ==
  ASSUME NEW mk, NEW more, NEW i \in Nat, NEW m \in Int, mk[0] = Reset,
         \A j \in 1..(i - 1) : mk[j] = more[j],
         Stands(mk, i, m)
  PROVE  Stands(more, i, m)
<1>1. PICK k \in 0..(i - 1) : /\ mk[k] = m
                              /\ m >= 0
                              /\ \A j \in (k + 1)..(i - 1) : mk[j] = Pass
  BY DEF Stands
<1>2. k # 0
  BY <1>1 DEF Reset
<1>3. k \in 1..(i - 1) /\ \A j \in (k + 1)..(i - 1) : j \in 1..(i - 1)
  BY <1>2
<1>4. QED
  BY <1>1, <1>3 DEF Stands

-----------------------------------------------------------------------------
(* No trade is skipped *)

LEMMA GreatestOf ==
  ASSUME NEW S, S \subseteq Int, S # {}, IsFiniteSet(S)
  PROVE  Max(S) \in S /\ \A n \in S : n <= Max(S)
<1>1. PICK m \in S : \A n \in S : n <= m
  BY GreatestExists
<1>2. \A n \in S : m >= n
  BY <1>1
<1>3. Max(S) \in S /\ \A n \in S : Max(S) >= n
  BY <1>2 DEF Max
<1>4. QED
  BY <1>3

LEMMA GreatestIs ==
  ASSUME NEW S, S \subseteq Int, NEW m \in S, \A n \in S : n <= m
  PROVE  Max(S) = m
<1>1. \A n \in S : m >= n
  OBVIOUS
<1>2. \A x \in S : (\A n \in S : x >= n) => x = m
  BY <1>1
<1>3. QED
  BY <1>1, <1>2 DEF Max

(* A batch of trades that an event may carry.                              *)
Batches == {S \in SUBSET Nat : S # {} /\ IsFiniteSet(S)}

LEMMA BatchesHaveLast ==
  ASSUME NEW S \in Batches
  PROVE  Max(S) \in S /\ Max(S) \in Nat /\ \A n \in S : n <= Max(S)
<1>1. S \subseteq Nat /\ S \subseteq Int /\ S # {} /\ IsFiniteSet(S)
  BY DEF Batches
<1>2. Max(S) \in S /\ \A n \in S : n <= Max(S)
  BY <1>1, GreatestOf
<1>3. QED
  BY <1>1, <1>2

LEMMA BufferIsBatch ==
  ASSUME TradeTypes, buffer # {}
  PROVE  buffer \in Batches
<1>1. IsFiniteSet(1..made)
  BY FS_Interval DEF TradeTypes
<1>2. IsFiniteSet(buffer)
  BY <1>1, FS_Subset DEF TradeTypes
<1>3. QED
  BY <1>2 DEF TradeTypes, Batches

LEMMA SingleIsBatch ==
  ASSUME NEW t \in Nat
  PROVE  {t} \in Batches /\ Max({t}) = t
<1>1. Max({t}) = t
  BY GreatestIs
<1>2. QED
  BY <1>1, FS_Singleton DEF Batches

EventMark(e) ==
  CASE e.kind = "Trades" -> Max(e.trades)
    [] e.kind = "Connected" -> Pass
    [] OTHER -> Reset

FrameMark(f) == IF f.kind = "trade" THEN f.trade ELSE Pass

(* The row of events before the application, ...                           *)
EventMarks ==
  [i \in 0..Len(channel) |->
     IF i = 0 THEN IF view.warned THEN Reset ELSE view.last
     ELSE EventMark(channel[i])]

(* ... and of frames before a session that stands at st.                   *)
FrameMarks(st) ==
  [i \in 0..Len(frames) |-> IF i = 0 THEN st ELSE FrameMark(frames[i])]

(* The newest trade handed out, unless a repair has been called for since. *)
HandedOut(m) == Stands(EventMarks, Len(channel) + 1, m)

(* The newest trade the session has, handed out or not.                    *)
Newest(m) == IF buffer # {} THEN m = Max(buffer) ELSE HandedOut(m)

(* Frames bring one trade after the other, and the newest is the market's. *)
Consecutive(st) ==
  /\ \A i \in 1..Len(frames), m \in Int :
       frames[i].kind = "trade" /\ Stands(FrameMarks(st), i, m)
         => frames[i].trade = m + 1
  /\ talks => \A m \in Int : Stands(FrameMarks(st), Len(frames) + 1, m) => m = made

(* Nothing is skipped so far, in the channel, the buffer and the frames.   *)
ReaderTypes ==
  /\ DOMAIN view = {"up", "last", "warned", "hole", "outside", "missed"}
  /\ view.last \in Nat
  /\ view.warned \in BOOLEAN
  /\ view.hole \in BOOLEAN
  /\ \A i \in 1..Len(channel) : channel[i].kind = "Trades" => channel[i].trades \in Batches

EventsInRow ==
  \A i \in 1..Len(channel), m \in Int :
    channel[i].kind = "Trades" /\ Stands(EventMarks, i, m)
      => (m + 1)..Max(channel[i].trades) \subseteq channel[i].trades

BufferInRow ==
  \A m \in Int : mode = "Up" /\ buffer # {} /\ HandedOut(m)
                   => (m + 1)..Max(buffer) \subseteq buffer

FramesInRow ==
  mode \in {"Greeting", "Up"} =>
    /\ Consecutive(Reset)
    /\ \A m \in Int : Newest(m) => Consecutive(m)

RepairIsDue ==
  mode \in {"Connecting", "Greeting", "Sleeping"} => \A m \in Int : ~HandedOut(m)

Lossy == dropped \cap {"Trades", "Disconnected"} # {}

InRow == ~view.hole /\ EventsInRow /\ BufferInRow /\ FramesInRow /\ RepairIsDue

LossInv == ReaderTypes /\ (~Lossy => InRow)

(* Steps that leave what is on its way alone.                              *)
LEMMA RowUntouched ==
  ASSUME LossInv, UNCHANGED <<channel, view, frames, buffer, dropped>>,
         talks' => talks /\ made' = made,
         mode' = "Up" => mode = "Up",
         mode' \in {"Greeting", "Up"} => mode \in {"Greeting", "Up"},
         mode' \in {"Connecting", "Greeting", "Sleeping"}
           => mode \in {"Connecting", "Greeting", "Sleeping"}
  PROVE  LossInv'
<1>1. ReaderTypes' /\ (Lossy' <=> Lossy) /\ EventMarks' = EventMarks
      /\ \A st : FrameMarks(st)' = FrameMarks(st)
  BY DEF LossInv, ReaderTypes, Lossy, EventMarks, FrameMarks
<1>2. \A m : HandedOut(m)' <=> HandedOut(m)
  BY <1>1 DEF HandedOut
<1>3. \A m : Newest(m)' <=> Newest(m)
  BY <1>2 DEF Newest
<1>4. \A st : Consecutive(st) => Consecutive(st)'
  BY <1>1 DEF Consecutive
<1>5. SUFFICES ASSUME InRow
               PROVE  InRow'
  BY <1>1 DEF LossInv
<1>6. EventsInRow'
  BY <1>1, <1>5 DEF InRow, EventsInRow
<1>7. BufferInRow'
  BY <1>2, <1>5 DEF InRow, BufferInRow
<1>8. FramesInRow'
  BY <1>3, <1>4, <1>5 DEF InRow, FramesInRow
<1>9. RepairIsDue'
  BY <1>2, <1>5 DEF InRow, RepairIsDue
<1>10. QED
  BY <1>5, <1>6, <1>7, <1>8, <1>9 DEF InRow

(* A frame arrives: the next trade of the market, or no trade.             *)
LEMMA RowGrows ==
  ASSUME TypeInv, LossInv, NEW f \in Frames, frames' = Append(frames, f),
         UNCHANGED <<mode, channel, view, buffer, dropped>>,
         \/ f.kind # "trade" /\ (talks' => talks /\ made' = made)
         \/ f.kind = "trade" /\ talks /\ f.trade = made + 1 /\ made' = made + 1
  PROVE  LossInv'
<1>1. ReaderTypes' /\ (Lossy' <=> Lossy) /\ EventMarks' = EventMarks
  BY DEF LossInv, ReaderTypes, Lossy, EventMarks
<1>2. \A m : HandedOut(m)' <=> HandedOut(m)
  BY <1>1 DEF HandedOut
<1>3. \A m : Newest(m)' <=> Newest(m)
  BY <1>2 DEF Newest
<1>4. /\ Len(frames) \in Nat
      /\ Len(frames') = Len(frames) + 1
      /\ \A i \in 1..Len(frames) : frames'[i] = frames[i]
      /\ frames'[Len(frames) + 1] = f
      /\ made \in Nat
  BY AppendProperties DEF TypeInv, TradeTypes
<1>5. f.kind = "trade" => f.trade \in Nat
  BY DEF Frames
<1>6. ASSUME NEW st, Consecutive(st)
      PROVE  Consecutive(st)'
  <2> DEFINE n == Len(frames)
             mk == FrameMarks(st)
             more == FrameMarks(st)'
  <2>1. /\ \A j \in 0..n : more[j] = mk[j]
        /\ more[n + 1] = FrameMark(f)
    BY <1>4 DEF FrameMarks
  <2> HIDE DEF mk, more
  <2>2. \A m \in Int :
          /\ \A i \in 1..(n + 1) : Stands(more, i, m) <=> Stands(mk, i, m)
          /\ Stands(more, n + 2, m) <=> (\/ more[n + 1] = m /\ m >= 0
                                         \/ more[n + 1] = Pass /\ Stands(mk, n + 1, m))
    BY <1>4, <2>1, StandsAppend
  <2>3. ASSUME NEW i \in 1..Len(frames'), NEW m \in Int, frames'[i].kind = "trade",
               Stands(more, i, m)
        PROVE  frames'[i].trade = m + 1
    <3>1. i \in 1..(n + 1) /\ Stands(mk, i, m)
      BY <1>4, <2>2, <2>3
    <3>2. CASE i \in 1..n
      BY <1>4, <1>6, <2>3, <3>1, <3>2 DEF Consecutive, mk
    <3>3. CASE i = n + 1
      <4>1. m = made
        BY <1>4, <1>6, <2>3, <3>1, <3>3 DEF Consecutive, mk
      <4>2. QED
        BY <1>4, <2>3, <3>3, <4>1
    <3>4. QED
      BY <3>1, <3>2, <3>3
  <2>4. ASSUME talks', NEW m \in Int, Stands(more, Len(frames') + 1, m)
        PROVE  m = made'
    <3>1. Len(frames') + 1 = n + 2
      BY <1>4
    <3>2. (more[n + 1] = m /\ m >= 0) \/ (more[n + 1] = Pass /\ Stands(mk, n + 1, m))
      BY <2>2, <2>4, <3>1
    <3>3. CASE f.kind = "trade"
      <4>1. more[n + 1] = f.trade /\ f.trade \in Nat /\ f.trade = made'
        BY <1>5, <2>1, <3>3 DEF FrameMark
      <4>2. QED
        BY <3>2, <4>1 DEF Pass
    <3>4. CASE f.kind # "trade"
      <4>1. more[n + 1] = Pass
        BY <2>1, <3>4 DEF FrameMark
      <4>2. Stands(mk, n + 1, m)
        BY <3>2, <4>1 DEF Pass
      <4>3. QED
        BY <1>6, <2>4, <3>4, <4>2 DEF Consecutive, mk
    <3>5. QED
      BY <3>3, <3>4
  <2>5. QED
    BY <2>3, <2>4 DEF Consecutive, more
<1>7. SUFFICES ASSUME InRow
               PROVE  InRow'
  BY <1>1 DEF LossInv
<1>8. EventsInRow' /\ BufferInRow' /\ RepairIsDue'
  BY <1>1, <1>2, <1>7 DEF InRow, EventsInRow, BufferInRow, RepairIsDue
<1>9. FramesInRow'
  BY <1>3, <1>6, <1>7 DEF InRow, FramesInRow
<1>10. QED
  BY <1>7, <1>8, <1>9 DEF InRow

(* An event is sent and finds room.                                        *)
LEMMA EventSent ==
  ASSUME TypeInv, ReaderTypes, NEW e \in Events, channel' = Append(channel, e),
         e.kind = "Trades" => e.trades \in Batches,
         view'.warned = view.warned, view'.last = view.last
  PROVE  /\ \A m \in Int, i \in 1..(Len(channel) + 1) :
              Stands(EventMarks', i, m) <=> Stands(EventMarks, i, m)
         /\ \A m \in Int : HandedOut(m)' <=> (\/ EventMark(e) = m /\ m >= 0
                                              \/ EventMark(e) = Pass /\ HandedOut(m))
         /\ Len(channel') = Len(channel) + 1 /\ Len(channel) \in Nat
         /\ \A i \in 1..Len(channel) : channel'[i] = channel[i]
         /\ channel'[Len(channel) + 1] = e
<1> DEFINE n == Len(channel)
           mk == EventMarks
           more == EventMarks'
<1>1. /\ n \in Nat
      /\ Len(channel') = n + 1
      /\ \A i \in 1..n : channel'[i] = channel[i]
      /\ channel'[n + 1] = e
  BY AppendProperties DEF TypeInv, TradeTypes
<1>2. (\A j \in 0..n : more[j] = mk[j]) /\ more[n + 1] = EventMark(e)
  BY <1>1 DEF EventMarks
<1>3. \A m \in Int : HandedOut(m) <=> Stands(mk, n + 1, m)
  BY DEF HandedOut
<1>4. \A m \in Int : HandedOut(m)' <=> Stands(more, n + 2, m)
  BY <1>1 DEF HandedOut
<1> HIDE DEF mk, more
<1>5. \A m \in Int :
        /\ \A i \in 1..(n + 1) : Stands(more, i, m) <=> Stands(mk, i, m)
        /\ Stands(more, n + 2, m) <=> (\/ more[n + 1] = m /\ m >= 0
                                       \/ more[n + 1] = Pass /\ Stands(mk, n + 1, m))
  BY <1>1, <1>2, StandsAppend
<1>6. QED
  BY <1>1, <1>2, <1>3, <1>4, <1>5 DEF mk, more

LEMMA EventsStayInRow ==
  ASSUME TypeInv, ReaderTypes, EventsInRow, NEW e \in Events, channel' = Append(channel, e),
         e.kind = "Trades" => /\ e.trades \in Batches
                              /\ \A m \in Int : HandedOut(m)
                                   => (m + 1)..Max(e.trades) \subseteq e.trades,
         view'.warned = view.warned, view'.last = view.last
  PROVE  /\ EventsInRow'
         /\ \A i \in 1..Len(channel') :
              channel'[i].kind = "Trades" => channel'[i].trades \in Batches
<1>1. /\ \A m \in Int, i \in 1..(Len(channel) + 1) :
            Stands(EventMarks', i, m) <=> Stands(EventMarks, i, m)
      /\ Len(channel') = Len(channel) + 1 /\ Len(channel) \in Nat
      /\ \A i \in 1..Len(channel) : channel'[i] = channel[i]
      /\ channel'[Len(channel) + 1] = e
  BY EventSent
<1>2. \A i \in 1..Len(channel') : i \in 1..(Len(channel) + 1)
                                  /\ (i \in 1..Len(channel) \/ i = Len(channel) + 1)
  BY <1>1
<1>3. ASSUME NEW i \in 1..Len(channel'), NEW m \in Int, channel'[i].kind = "Trades",
             Stands(EventMarks', i, m)
      PROVE  (m + 1)..Max(channel'[i].trades) \subseteq channel'[i].trades
  <2>1. Stands(EventMarks, i, m)
    BY <1>1, <1>2, <1>3
  <2>2. CASE i \in 1..Len(channel)
    BY <1>1, <1>3, <2>1, <2>2 DEF EventsInRow
  <2>3. CASE i = Len(channel) + 1
    BY <1>1, <1>3, <2>1, <2>3 DEF HandedOut
  <2>4. QED
    BY <1>2, <2>2, <2>3
<1>4. \A i \in 1..Len(channel') :
        channel'[i].kind = "Trades" => channel'[i].trades \in Batches
  BY <1>1, <1>2 DEF ReaderTypes
<1>5. QED
  BY <1>3, <1>4 DEF EventsInRow

(* A batch of trades is sent.                                              *)
LEMMA BatchSent ==
  ASSUME TypeInv, LossInv, NEW S \in Batches, Send(TradesReceived(S)), view' = view,
         ~Lossy => \A m \in Int : HandedOut(m) => (m + 1)..Max(S) \subseteq S
  PROVE  /\ ReaderTypes'
         /\ ~Lossy' => /\ InRow
                       /\ ~view'.hole
                       /\ EventsInRow'
                       /\ \A m \in Int : HandedOut(m)' <=> m = Max(S)
<1> DEFINE e == TradesReceived(S)
<1>1. e \in Events /\ e.kind = "Trades" /\ e.trades = S
  BY TradesAreEvents DEF TradesReceived, Batches
<1>2. channel \in Seq(Events) /\ Len(channel) <= Capacity /\ ReaderTypes
  BY DEF TypeInv, TradeTypes, LossInv
<1>3. Send(e)
  OBVIOUS
<1> HIDE DEF e
<1>4. CASE channel' = Append(channel, e) /\ dropped' = dropped
  <2>1. Lossy' <=> Lossy
    BY <1>4 DEF Lossy
  <2>2. \A i \in 1..Len(channel') :
          channel'[i].kind = "Trades" => channel'[i].trades \in Batches
    <3>1. /\ Len(channel') = Len(channel) + 1 /\ Len(channel) \in Nat
          /\ \A i \in 1..Len(channel) : channel'[i] = channel[i]
          /\ channel'[Len(channel) + 1] = e
      BY <1>1, <1>2, <1>4, EventSent
    <3>2. \A i \in 1..Len(channel') : i \in 1..Len(channel) \/ i = Len(channel) + 1
      BY <3>1
    <3>3. QED
      BY <1>1, <1>2, <3>1, <3>2 DEF ReaderTypes
  <2>3. ReaderTypes'
    BY <1>2, <2>2 DEF ReaderTypes
  <2>4. ASSUME ~Lossy
        PROVE  /\ InRow
               /\ ~view'.hole
               /\ EventsInRow'
               /\ \A m \in Int : HandedOut(m)' <=> m = Max(S)
    <3>1. InRow /\ ~view.hole /\ EventsInRow
      BY <2>4 DEF LossInv, InRow
    <3>2. EventsInRow'
      BY <1>1, <1>2, <1>4, <2>4, <3>1, EventsStayInRow
    <3>3. EventMark(e) = Max(S) /\ Max(S) \in Nat
      BY <1>1, BatchesHaveLast DEF EventMark
    <3>4. \A m \in Int : HandedOut(m)' <=> (\/ EventMark(e) = m /\ m >= 0
                                            \/ EventMark(e) = Pass /\ HandedOut(m))
      BY <1>1, <1>2, <1>4, EventSent
    <3>5. \A m \in Int : HandedOut(m)' <=> m = Max(S)
      BY <3>3, <3>4 DEF Pass
    <3>6. QED
      BY <3>1, <3>2, <3>5
  <2>5. QED
    BY <2>1, <2>3, <2>4
<1>5. CASE channel' = channel /\ dropped' = dropped \cup {e.kind}
  <2>1. Lossy'
    BY <1>1, <1>5 DEF Lossy
  <2>2. ReaderTypes'
    BY <1>2, <1>5 DEF ReaderTypes
  <2>3. QED
    BY <2>1, <2>2
<1>6. QED
  BY <1>1, <1>2, <1>3, <1>4, <1>5, Sending

(* The buffer is handed out as a whole.                                    *)
LEMMA FlushInRow ==
  ASSUME TypeInv, LossInv, Flush, view' = view
  PROVE  /\ ReaderTypes'
         /\ buffer' = {}
         /\ ~Lossy' => /\ InRow
                       /\ ~view'.hole
                       /\ EventsInRow'
                       /\ \A m \in Int : Newest(m)' => Newest(m)
<1>1. buffer' = {} /\ TradeTypes
  BY Flushing DEF TypeInv
<1>2. CASE buffer = {}
  <2>1. UNCHANGED <<channel, dropped, buffer>>
    BY <1>1, <1>2, Flushing DEF TypeInv
  <2>2. ReaderTypes' /\ (Lossy' <=> Lossy) /\ EventMarks' = EventMarks
    BY <2>1 DEF LossInv, ReaderTypes, Lossy, EventMarks
  <2>3. \A m : Newest(m)' <=> Newest(m)
    BY <2>1, <2>2 DEF Newest, HandedOut
  <2>4. InRow => ~view'.hole /\ EventsInRow'
    BY <2>1, <2>2 DEF InRow, EventsInRow
  <2>5. QED
    BY <1>1, <2>2, <2>3, <2>4 DEF LossInv
<1>3. CASE buffer # {}
  <2>1. buffer \in Batches /\ mode = "Up" /\ Send(TradesReceived(buffer))
    BY <1>1, <1>3, BufferIsBatch, Flushing DEF TradeTypes
  <2>2. ~Lossy => \A m \in Int : HandedOut(m) => (m + 1)..Max(buffer) \subseteq buffer
    BY <1>3, <2>1 DEF LossInv, InRow, BufferInRow
  <2>3. /\ ReaderTypes'
        /\ ~Lossy' => /\ InRow
                      /\ ~view'.hole
                      /\ EventsInRow'
                      /\ \A m \in Int : HandedOut(m)' <=> m = Max(buffer)
    BY <2>1, <2>2, BatchSent
  <2>4. ASSUME ~Lossy', NEW m \in Int, Newest(m)'
        PROVE  Newest(m)
    <3>1. HandedOut(m)'
      BY <1>1, <2>4 DEF Newest
    <3>2. QED
      BY <1>3, <2>3, <2>4, <3>1 DEF Newest
  <2>5. QED
    BY <1>1, <2>3, <2>4
<1>4. QED
  BY <1>2, <1>3

(* A notice: the end of a connection calls for a repair.                   *)
LEMMA NoticeInRow ==
  ASSUME TypeInv, LossInv, NEW kind \in {"Connected", "Disconnected"}, Tell(kind)
  PROVE  /\ ReaderTypes'
         /\ ~Lossy' => /\ InRow
                       /\ ~view'.hole
                       /\ EventsInRow'
                       /\ \A m \in Int : HandedOut(m)' => kind = "Connected" /\ HandedOut(m)
<1> DEFINE e == Notice(kind)
<1>1. e \in Events /\ e.kind = kind /\ kind # "Trades"
  BY NoticesAreEvents DEF Notice
<1>2. channel \in Seq(Events) /\ Len(channel) <= Capacity /\ ReaderTypes
  BY DEF TypeInv, TradeTypes, LossInv
<1>3. Send(e) /\ DOMAIN view' = DOMAIN view
      /\ view'.last = view.last /\ view'.warned = view.warned /\ view'.hole = view.hole
  BY <1>2 DEF Tell, ReaderTypes
<1> HIDE DEF e
<1>4. CASE channel' = Append(channel, e) /\ dropped' = dropped
  <2>1. Lossy' <=> Lossy
    BY <1>4 DEF Lossy
  <2>2. \A m \in Int : HandedOut(m)' <=> (\/ EventMark(e) = m /\ m >= 0
                                          \/ EventMark(e) = Pass /\ HandedOut(m))
    BY <1>1, <1>2, <1>3, <1>4, EventSent
  <2>3. EventMark(e) = IF kind = "Connected" THEN Pass ELSE Reset
    BY <1>1 DEF EventMark
  <2>4. \A m \in Int : HandedOut(m)' => kind = "Connected" /\ HandedOut(m)
    BY <2>2, <2>3 DEF Pass, Reset
  <2>5. ReaderTypes'
    <3>1. /\ Len(channel') = Len(channel) + 1 /\ Len(channel) \in Nat
          /\ \A i \in 1..Len(channel) : channel'[i] = channel[i]
          /\ channel'[Len(channel) + 1] = e
      BY <1>1, <1>2, <1>3, <1>4, EventSent
    <3>2. \A i \in 1..Len(channel') : i \in 1..Len(channel) \/ i = Len(channel) + 1
      BY <3>1
    <3>3. QED
      BY <1>1, <1>2, <1>3, <3>1, <3>2 DEF ReaderTypes
  <2>6. InRow => EventsInRow'
    BY <1>1, <1>2, <1>3, <1>4, EventsStayInRow DEF InRow
  <2>7. QED
    BY <1>3, <2>1, <2>4, <2>5, <2>6 DEF LossInv, InRow
<1>5. CASE channel' = channel /\ dropped' = dropped \cup {e.kind}
  <2>1. ReaderTypes' /\ EventMarks' = EventMarks
    BY <1>2, <1>3, <1>5 DEF ReaderTypes, EventMarks
  <2>2. \A m : HandedOut(m)' <=> HandedOut(m)
    BY <1>5, <2>1 DEF HandedOut
  <2>3. CASE kind = "Disconnected"
    <3>1. Lossy'
      BY <1>1, <1>5, <2>3 DEF Lossy
    <3>2. QED
      BY <2>1, <3>1
  <2>4. CASE kind = "Connected"
    <3>1. Lossy' <=> Lossy
      BY <1>1, <1>5, <2>4 DEF Lossy
    <3>2. InRow => EventsInRow'
      BY <1>5, <2>1 DEF InRow, EventsInRow
    <3>3. QED
      BY <1>3, <2>1, <2>2, <2>4, <3>1, <3>2 DEF LossInv, InRow
  <2>5. QED
    BY <2>3, <2>4
<1>6. QED
  BY <1>1, <1>2, <1>3, <1>4, <1>5, Sending

(* The application reads the first event.                                  *)
LEMMA ReceivingInRow ==
  ASSUME TypeInv, LossInv, Receive
  PROVE  LossInv'
<1> DEFINE e == Head(channel)
           n == Len(channel) - 1
           mk == EventMarks
           rest == EventMarks'
<1>1. /\ channel \in Seq(Events) /\ channel # <<>> /\ channel' = Tail(channel)
      /\ view' = Told(e) /\ UNCHANGED <<mode, talks, made, frames, buffer, dropped>>
      /\ ReaderTypes
  BY DEF TypeInv, TradeTypes, LossInv, Receive, sessionVars, ioVars
<1>2. /\ n \in Nat /\ Len(channel') = n /\ Len(channel) = n + 1
      /\ \A i \in 1..n : channel'[i] = channel[i + 1] /\ i + 1 \in 1..Len(channel)
      /\ e = channel[1] /\ e \in Events /\ 1 \in 1..Len(channel)
  BY <1>1, HeadTailProperties
<1>3. e.kind \in {"Connected", "Disconnected", "Trades"}
      /\ (e.kind = "Trades" => e.trades \in Batches)
  BY <1>1, <1>2 DEF Events, ReaderTypes
<1>4. /\ DOMAIN view' = DOMAIN view
      /\ view'.last = IF e.kind = "Trades" THEN Max(e.trades) ELSE view.last
      /\ view'.warned = CASE e.kind = "Trades" -> FALSE
                          [] e.kind = "Disconnected" -> TRUE
                          [] OTHER -> view.warned
      /\ view'.hole = IF e.kind = "Trades"
                        THEN \/ view.hole
                             \/ /\ ~view.warned
                                /\ ~(((view.last + 1)..Max(e.trades)) \subseteq e.trades)
                        ELSE view.hole
  <2> HIDE DEF e
  <2>1. CASE e.kind = "Trades"
    BY <1>1, <2>1 DEF Told, ReaderTypes
  <2>2. CASE e.kind = "Disconnected"
    BY <1>1, <2>2 DEF Told, ReaderTypes
  <2>3. CASE e.kind = "Connected"
    BY <1>1, <2>3 DEF Told, ReaderTypes
  <2>4. QED
    BY <1>3, <2>1, <2>2, <2>3
<1> HIDE DEF e
<1>5. e.kind = "Trades" => Max(e.trades) \in Nat
  BY <1>3, BatchesHaveLast
<1>6. ReaderTypes'
  <2>1. view'.last \in Nat /\ view'.warned \in BOOLEAN /\ view'.hole \in BOOLEAN
    BY <1>1, <1>3, <1>4, <1>5 DEF ReaderTypes
  <2>2. \A i \in 1..Len(channel') :
          channel'[i].kind = "Trades" => channel'[i].trades \in Batches
    BY <1>1, <1>2 DEF ReaderTypes
  <2>3. QED
    BY <1>1, <1>4, <2>1, <2>2 DEF ReaderTypes
<1>7. /\ mk[0] = IF view.warned THEN Reset ELSE view.last
      /\ mk[1] = EventMark(e)
      /\ rest[0] = IF view'.warned THEN Reset ELSE view'.last
      /\ \A j \in 1..n : rest[j] = mk[j + 1]
  BY <1>2 DEF EventMarks
<1> HIDE DEF mk, rest, n
<1>8. rest[0] = IF mk[1] = Pass THEN mk[0] ELSE mk[1]
  <2>1. CASE e.kind = "Trades"
    <3>1. mk[1] = Max(e.trades) /\ mk[1] # Pass
      BY <1>5, <1>7, <2>1 DEF EventMark, Pass
    <3>2. QED
      BY <1>4, <1>7, <2>1, <3>1
  <2>2. CASE e.kind = "Disconnected"
    <3>1. mk[1] = Reset /\ mk[1] # Pass
      BY <1>7, <2>2 DEF EventMark, Pass, Reset
    <3>2. QED
      BY <1>4, <1>7, <2>2, <3>1
  <2>3. CASE e.kind = "Connected"
    <3>1. mk[1] = Pass
      BY <1>7, <2>3 DEF EventMark
    <3>2. view'.warned = view.warned /\ view'.last = view.last
      BY <1>4, <2>3
    <3>3. QED
      BY <1>7, <3>1, <3>2
  <2>4. QED
    BY <1>3, <2>1, <2>2, <2>3
<1>9. \A m \in Int : \A i \in 1..(n + 1) : Stands(rest, i, m) <=> Stands(mk, i + 1, m)
  BY <1>2, <1>7, <1>8, StandsTail
<1>10. \A m \in Int : HandedOut(m)' <=> HandedOut(m)
  <2> TAKE m \in Int
  <2>1. n + 1 \in 1..(n + 1)
    BY <1>2
  <2>2. Stands(rest, n + 1, m) <=> Stands(mk, (n + 1) + 1, m)
    BY <1>9, <2>1
  <2>3. QED
    BY <1>2, <2>2 DEF HandedOut, mk, rest
<1>11. SUFFICES ASSUME ~Lossy'
                PROVE  InRow'
  BY <1>6 DEF LossInv
<1>12. InRow
  BY <1>1, <1>11 DEF LossInv, Lossy
<1>13. ~view'.hole
  <2>1. CASE e.kind = "Trades" /\ ~view.warned
    <3>1. view.last \in Int /\ mk[0] = view.last /\ view.last >= 0
      BY <1>1, <1>7, <2>1 DEF ReaderTypes
    <3>2. Stands(mk, 1, view.last)
      BY <3>1, StandsFirst
    <3>3. (view.last + 1)..Max(e.trades) \subseteq e.trades
      BY <1>2, <1>12, <2>1, <3>1, <3>2 DEF InRow, EventsInRow, mk
    <3>4. QED
      BY <1>4, <1>12, <2>1, <3>3 DEF InRow
  <2>2. CASE ~(e.kind = "Trades" /\ ~view.warned)
    BY <1>4, <1>12, <2>2 DEF InRow
  <2>3. QED
    BY <2>1, <2>2
<1>14. EventsInRow'
  <2>1. ASSUME NEW i \in 1..Len(channel'), NEW m \in Int, channel'[i].kind = "Trades",
               Stands(rest, i, m)
        PROVE  (m + 1)..Max(channel'[i].trades) \subseteq channel'[i].trades
    <3>1. i \in 1..n /\ i \in 1..(n + 1)
      BY <1>2
    <3>2. Stands(mk, i + 1, m) /\ channel'[i] = channel[i + 1] /\ i + 1 \in 1..Len(channel)
      BY <1>2, <1>9, <2>1, <3>1
    <3>3. QED
      BY <1>12, <2>1, <3>2 DEF InRow, EventsInRow, mk
  <2>2. QED
    BY <2>1 DEF EventsInRow, rest
<1>15. BufferInRow' /\ RepairIsDue'
  BY <1>1, <1>10, <1>12 DEF InRow, BufferInRow, RepairIsDue
<1>16. FramesInRow'
  <2>1. \A st : FrameMarks(st)' = FrameMarks(st)
    BY <1>1 DEF FrameMarks
  <2>2. \A st : Consecutive(st) => Consecutive(st)'
    BY <1>1, <2>1 DEF Consecutive
  <2>3. \A m \in Int : Newest(m)' <=> Newest(m)
    BY <1>1, <1>10 DEF Newest
  <2>4. QED
    BY <1>1, <1>12, <2>2, <2>3 DEF InRow, FramesInRow
<1>17. QED
  BY <1>13, <1>14, <1>15, <1>16 DEF InRow

(* The session takes a trade from the frames and now stands at it.         *)
LEMMA FramesTaken ==
  ASSUME TypeInv, Consecutive(Reset), frames # <<>>, NEW t, t = Head(frames).trade,
         Head(frames).kind = "trade", frames' = Tail(frames), UNCHANGED <<talks, made>>
  PROVE  Consecutive(t)' /\ Consecutive(Reset)'
<1> DEFINE n == Len(frames) - 1
           mk == FrameMarks(Reset)
           rest == FrameMarks(t)'
           none == FrameMarks(Reset)'
<1>1. /\ n \in Nat /\ Len(frames') = n /\ Len(frames) = n + 1
      /\ \A i \in 1..n : frames'[i] = frames[i + 1] /\ i + 1 \in 1..Len(frames)
      /\ Head(frames) = frames[1] /\ frames[1] \in Frames
  BY HeadTailProperties DEF TypeInv, TradeTypes
<1>2. t \in Nat
  BY <1>1 DEF Frames
<1>3. /\ mk[1] = t /\ rest[0] = t /\ none[0] = Reset
      /\ \A j \in 1..n : rest[j] = mk[j + 1] /\ none[j] = rest[j]
  BY <1>1 DEF FrameMarks, FrameMark
<1> HIDE DEF mk, rest, none, n
<1>4. rest[0] = IF mk[1] = Pass THEN mk[0] ELSE mk[1]
  BY <1>2, <1>3 DEF Pass
<1>5. \A m \in Int : \A i \in 1..(n + 1) : Stands(rest, i, m) <=> Stands(mk, i + 1, m)
  BY <1>1, <1>3, <1>4, StandsTail
<1>6. ASSUME NEW m \in Int, NEW i \in 1..(n + 1), Stands(none, i, m)
      PROVE  Stands(rest, i, m)
  <2>1. i \in Nat /\ \A j \in 1..(i - 1) : none[j] = rest[j]
    BY <1>1, <1>3
  <2>2. QED
    BY <1>3, <1>6, <2>1, StandsMore
<1>7. \A m \in Int : talks' /\ Stands(rest, n + 1, m) => m = made'
  <2> TAKE m \in Int
  <2>1. n + 1 \in 1..(n + 1) /\ Len(frames) + 1 = (n + 1) + 1
    BY <1>1
  <2>2. Stands(rest, n + 1, m) => Stands(mk, Len(frames) + 1, m)
    BY <1>5, <2>1
  <2>3. QED
    BY <2>2 DEF Consecutive, mk
<1>8. ASSUME NEW i \in 1..n, NEW m \in Int, frames'[i].kind = "trade", Stands(rest, i, m)
      PROVE  frames'[i].trade = m + 1
  <2>1. i \in 1..(n + 1) /\ frames'[i] = frames[i + 1] /\ i + 1 \in 1..Len(frames)
    BY <1>1
  <2>2. Stands(mk, i + 1, m)
    BY <1>5, <1>8, <2>1
  <2>3. QED
    BY <1>8, <2>1, <2>2 DEF Consecutive, mk
<1>9. Consecutive(t)'
  BY <1>1, <1>7, <1>8 DEF Consecutive, rest
<1>10. Consecutive(Reset)'
  <2>1. \A i \in 1..n : i \in 1..(n + 1)
    BY <1>1
  <2>2. n + 1 \in 1..(n + 1)
    BY <1>1
  <2>3. QED
    BY <1>1, <1>6, <1>7, <1>8, <2>1, <2>2 DEF Consecutive, none
<1>11. QED
  BY <1>9, <1>10

(* Its trade is the next one, if the session has any since the repair.     *)
LEMMA TextInRow ==
  ASSUME TypeInv, LossInv, mode = "Up", frames # <<>>, Head(frames).kind = "trade",
         OnText(Head(frames).trade)
  PROVE  LossInv'
<1>1. PICK t : t = Head(frames).trade
  OBVIOUS
<1>2. /\ UNCHANGED <<mode, talks, made, view>> /\ frames' = Tail(frames)
      /\ TradeTypes /\ ReaderTypes
  BY DEF OnText, ioVars, TypeInv, LossInv
<1>3. Head(frames) = frames[1] /\ 1 \in 1..Len(frames) /\ t \in Nat /\ frames[1] \in Frames
  <2>1. Len(frames) \in Nat \ {0} /\ Head(frames) = frames[1]
    BY HeadTailProperties DEF TypeInv, TradeTypes
  <2>2. frames[1] \in Frames
    BY <2>1 DEF TypeInv, TradeTypes
  <2>3. QED
    BY <1>1, <2>1, <2>2 DEF Frames
<1>4. ASSUME InRow, NEW m \in Int, m >= 0, Newest(m)
      PROVE  t = m + 1
  <2>1. Consecutive(m)
    BY <1>4 DEF InRow, FramesInRow
  <2>2. FrameMarks(m)[0] = m
    BY <1>3 DEF FrameMarks
  <2>3. Stands(FrameMarks(m), 1, m)
    BY <1>4, <2>2, StandsFirst
  <2>4. QED
    BY <1>1, <1>3, <2>1, <2>3 DEF Consecutive
<1>5. \A m \in Int : HandedOut(m) => m >= 0
  BY DEF HandedOut, Stands
<1>6. InRow => Consecutive(t)' /\ Consecutive(Reset)'
  BY <1>1, <1>2, FramesTaken DEF InRow, FramesInRow
<1>7. CASE adapter.buffered
  <2>1. buffer' = buffer \cup {t} /\ UNCHANGED <<channel, dropped>>
    BY <1>1, <1>7 DEF OnText, Collected, outVars
  <2>2. ReaderTypes' /\ (Lossy' <=> Lossy) /\ EventMarks' = EventMarks
    BY <1>2, <2>1 DEF ReaderTypes, Lossy, EventMarks
  <2>3. \A m : HandedOut(m)' <=> HandedOut(m)
    BY <2>1, <2>2 DEF HandedOut
  <2>4. SUFFICES ASSUME InRow
                 PROVE  InRow'
    BY <2>2 DEF LossInv
  <2>5. buffer # {} => Max(buffer) \in Nat /\ t = Max(buffer) + 1
                       /\ \A n \in buffer : n <= Max(buffer)
    <3>1. SUFFICES ASSUME buffer # {}
                   PROVE  Max(buffer) \in Nat /\ t = Max(buffer) + 1
                          /\ \A n \in buffer : n <= Max(buffer)
      OBVIOUS
    <3>2. Max(buffer) \in Nat /\ \A n \in buffer : n <= Max(buffer)
      BY <1>2, <3>1, BufferIsBatch, BatchesHaveLast
    <3>3. Newest(Max(buffer)) /\ Max(buffer) \in Int /\ Max(buffer) >= 0
      BY <3>1, <3>2 DEF Newest
    <3>4. QED
      BY <1>4, <2>4, <3>2, <3>3
  <2>6. buffer' \subseteq Int /\ t \in buffer' /\ \A n \in buffer' : n <= t
    <3>1. buffer \subseteq Nat
      BY <1>2 DEF TradeTypes
    <3>2. QED
      BY <1>3, <2>1, <2>5, <3>1
  <2>7. Max(buffer') = t /\ buffer' # {}
    BY <2>6, GreatestIs
  <2>8. \A m : Newest(m)' <=> m = t
    BY <2>7 DEF Newest
  <2>9. BufferInRow'
    <3>1. ASSUME NEW m \in Int, HandedOut(m)
          PROVE  (m + 1)..t \subseteq buffer'
      <4>1. CASE buffer = {}
        <5>1. t = m + 1
          BY <1>4, <1>5, <2>4, <3>1, <4>1 DEF Newest
        <5>2. QED
          BY <1>3, <2>1, <5>1
      <4>2. CASE buffer # {}
        <5>1. (m + 1)..Max(buffer) \subseteq buffer
          BY <2>4, <3>1, <4>2 DEF InRow, BufferInRow
        <5>2. Max(buffer) \in Nat /\ t = Max(buffer) + 1
          BY <2>5, <4>2
        <5>3. \A k \in (m + 1)..t : k \in (m + 1)..Max(buffer) \/ k = t
          BY <5>2
        <5>4. QED
          BY <2>1, <5>1, <5>3
      <4>3. QED
        BY <4>1, <4>2
    <3>2. QED
      BY <2>3, <2>7, <3>1 DEF BufferInRow
  <2>10. FramesInRow'
    BY <1>6, <2>4, <2>8 DEF FramesInRow
  <2>11. EventsInRow' /\ RepairIsDue' /\ ~view'.hole
    BY <1>2, <2>1, <2>2, <2>3, <2>4 DEF InRow, EventsInRow, RepairIsDue
  <2>12. QED
    BY <2>9, <2>10, <2>11 DEF InRow
<1>8. CASE ~adapter.buffered
  <2>1. Send(TradesReceived({t})) /\ buffer' = buffer /\ buffer = {}
    BY <1>1, <1>2, <1>8 DEF OnText, TradeTypes
  <2>2. {t} \in Batches /\ Max({t}) = t
    BY <1>3, SingleIsBatch
  <2>3. ~Lossy => \A m \in Int : HandedOut(m) => (m + 1)..Max({t}) \subseteq {t}
    <3>1. SUFFICES ASSUME InRow, NEW m \in Int, HandedOut(m)
                   PROVE  (m + 1)..t \subseteq {t}
      BY <2>2 DEF LossInv
    <3>2. t = m + 1
      BY <1>4, <1>5, <2>1, <3>1 DEF Newest
    <3>3. QED
      BY <1>3, <3>2
  <2>4. /\ ReaderTypes'
        /\ ~Lossy' => /\ InRow
                      /\ ~view'.hole
                      /\ EventsInRow'
                      /\ \A m \in Int : HandedOut(m)' <=> m = t
    BY <1>2, <2>1, <2>2, <2>3, BatchSent
  <2>5. SUFFICES ASSUME ~Lossy'
                 PROVE  InRow'
    BY <2>4 DEF LossInv
  <2>6. FramesInRow'
    <3>1. \A m \in Int : Newest(m)' => m = t
      BY <2>1, <2>4, <2>5 DEF Newest
    <3>2. QED
      BY <1>6, <2>4, <2>5, <3>1 DEF FramesInRow
  <2>7. BufferInRow' /\ RepairIsDue'
    BY <1>2, <2>1 DEF BufferInRow, RepairIsDue
  <2>8. QED
    BY <2>4, <2>5, <2>6, <2>7 DEF InRow
<1>9. QED
  BY <1>7, <1>8

LEMMA LossPreserved ==
  ASSUME TypeInv, LossInv, Next
  PROVE  LossInv'
<1>0. TaskTypes /\ TradeTypes /\ mode \in Modes
  BY DEF TypeInv, TaskTypes
<1>1. ASSUME ConnectFails \/ Announce PROVE LossInv'
  <2>1. Tell("Disconnected") /\ mode' = "Sleeping"
    BY <1>1 DEF ConnectFails, Announce, SleepFor
  <2>2. /\ ReaderTypes'
        /\ ~Lossy' => ~view'.hole /\ EventsInRow' /\ \A m \in Int : ~HandedOut(m)'
    BY <2>1, NoticeInRow
  <2>3. ~Lossy' => BufferInRow' /\ FramesInRow' /\ RepairIsDue'
    BY <2>1, <2>2 DEF BufferInRow, FramesInRow, RepairIsDue
  <2>4. QED
    BY <2>2, <2>3 DEF LossInv, InRow
<1>2. ASSUME ConnectSucceeds PROVE LossInv'
  <2>1. /\ Flush /\ mode = "Connecting" /\ mode' = "Greeting" /\ frames' = <<>>
        /\ view' = view
    BY <1>2 DEF ConnectSucceeds
  <2>2. buffer = {}
    BY <1>0, <2>1 DEF TradeTypes
  <2>3. UNCHANGED <<channel, dropped, buffer>>
    BY <1>0, <2>1, <2>2, Flushing
  <2>4. ReaderTypes' /\ (Lossy' <=> Lossy) /\ EventMarks' = EventMarks
    BY <2>1, <2>3 DEF LossInv, ReaderTypes, Lossy, EventMarks
  <2>5. \A m : HandedOut(m)' <=> HandedOut(m)
    BY <2>3, <2>4 DEF HandedOut
  <2>6. SUFFICES ASSUME InRow
                 PROVE  InRow'
    BY <2>4 DEF LossInv
  <2>7. \A m \in Int : ~HandedOut(m)' /\ ~Newest(m)'
    BY <2>1, <2>2, <2>3, <2>5, <2>6 DEF InRow, RepairIsDue, Newest
  <2>8. Consecutive(Reset)'
    <3>1. Len(frames') = 0 /\ FrameMarks(Reset)'[0] = Reset
      BY <2>1 DEF FrameMarks
    <3>2. \A m \in Int : ~Stands(FrameMarks(Reset)', 1, m)
      BY <3>1, StandsFirst DEF Reset
    <3>3. Len(frames') + 1 = 1 /\ 1..Len(frames') = {}
      BY <3>1
    <3>4. QED
      BY <3>2, <3>3 DEF Consecutive
  <2>9. EventsInRow' /\ ~view'.hole
    BY <2>1, <2>3, <2>4, <2>6 DEF InRow, EventsInRow
  <2>10. FramesInRow' /\ BufferInRow' /\ RepairIsDue'
    BY <2>1, <2>7, <2>8 DEF FramesInRow, BufferInRow, RepairIsDue
  <2>11. QED
    BY <2>9, <2>10 DEF InRow
<1>3. ASSUME Greet PROVE LossInv'
  <2>1. /\ Tell("Connected") /\ mode = "Greeting" /\ mode' = "Up"
        /\ UNCHANGED <<frames, buffer, talks, made>>
    BY <1>3 DEF Greet, ioVars
  <2>2. buffer = {}
    BY <1>0, <2>1 DEF TradeTypes
  <2>3. /\ ReaderTypes'
        /\ ~Lossy' => /\ InRow
                      /\ ~view'.hole
                      /\ EventsInRow'
                      /\ \A m \in Int : HandedOut(m)' => HandedOut(m)
    BY <2>1, NoticeInRow
  <2>4. SUFFICES ASSUME ~Lossy'
                 PROVE  InRow'
    BY <2>3 DEF LossInv
  <2>5. \A m \in Int : ~HandedOut(m)' /\ ~Newest(m)'
    BY <2>1, <2>2, <2>3, <2>4 DEF InRow, RepairIsDue, Newest
  <2>6. Consecutive(Reset)'
    <3>1. FrameMarks(Reset)' = FrameMarks(Reset)
      BY <2>1 DEF FrameMarks
    <3>2. QED
      BY <2>1, <2>3, <2>4, <3>1 DEF InRow, FramesInRow, Consecutive
  <2>7. FramesInRow' /\ BufferInRow' /\ RepairIsDue'
    BY <2>1, <2>5, <2>6 DEF FramesInRow, BufferInRow, RepairIsDue
  <2>8. QED
    BY <2>3, <2>4, <2>7 DEF InRow
<1>4. ASSUME OnTick PROVE LossInv'
  <2>1. /\ Flush /\ mode = "Up" /\ view' = view
        /\ UNCHANGED <<mode, frames, talks, made>>
    BY <1>4 DEF OnTick, ioVars
  <2>2. /\ ReaderTypes'
        /\ buffer' = {}
        /\ ~Lossy' => /\ InRow
                      /\ ~view'.hole
                      /\ EventsInRow'
                      /\ \A m \in Int : Newest(m)' => Newest(m)
    BY <2>1, FlushInRow
  <2>3. \A st : Consecutive(st)' <=> Consecutive(st)
    <3>1. \A st : FrameMarks(st)' = FrameMarks(st)
      BY <2>1 DEF FrameMarks
    <3>2. QED
      BY <2>1, <3>1 DEF Consecutive
  <2>4. ~Lossy' => FramesInRow'
    BY <2>1, <2>2, <2>3 DEF InRow, FramesInRow
  <2>5. BufferInRow' /\ RepairIsDue'
    BY <2>1, <2>2 DEF BufferInRow, RepairIsDue
  <2>6. QED
    BY <2>2, <2>4, <2>5 DEF LossInv, InRow
<1>5. ASSUME Leave PROVE LossInv'
  <2>1. Flush /\ mode' = "Leaving" /\ view' = view
    BY <1>5 DEF Leave
  <2>2. ReaderTypes' /\ (~Lossy' => ~view'.hole /\ EventsInRow')
    BY <2>1, FlushInRow
  <2>3. BufferInRow' /\ FramesInRow' /\ RepairIsDue'
    BY <2>1 DEF BufferInRow, FramesInRow, RepairIsDue
  <2>4. QED
    BY <2>2, <2>3 DEF LossInv, InRow
<1>6. ASSUME OnFrame \/ OnIoGone PROVE LossInv'
  BY <1>5, <1>6, TextInRow DEF OnFrame, OnIoGone
<1>7. ASSUME OnStable \/ Wake PROVE LossInv'
  BY <1>7, RowUntouched DEF OnStable, Wake, ioVars, outVars
<1>8. ASSUME ReadTrade PROVE LossInv'
  <2>1. made \in Nat
    BY <1>0 DEF TradeTypes
  <2>2. Frame("trade", made + 1) \in Frames /\ Frame("trade", made + 1).kind = "trade"
        /\ Frame("trade", made + 1).trade = made + 1
    BY <2>1 DEF Frame, Frames
  <2>3. /\ frames' = Append(frames, Frame("trade", made + 1)) /\ made' = made + 1 /\ talks
        /\ UNCHANGED <<mode, channel, view, buffer, dropped>>
    BY <1>8 DEF ReadTrade, Read, sessionVars, outVars
  <2>4. QED
    BY <2>2, <2>3, RowGrows
<1>9. Frame("bad", 0) \in Frames /\ Frame("error", 0) \in Frames
      /\ Frame("bad", 0).kind # "trade" /\ Frame("error", 0).kind # "trade"
  BY DEF Frame, Frames
<1>10. ASSUME ReadBad PROVE LossInv'
  <2>1. /\ frames' = Append(frames, Frame("bad", 0))
        /\ UNCHANGED <<mode, channel, view, buffer, dropped, made, talks>>
    BY <1>10 DEF ReadBad, Read, sessionVars, outVars
  <2>2. QED
    BY <1>9, <2>1, RowGrows
<1>11. ASSUME NEW last \in {<<>>, <<Frame("error", 0)>>}, IoEnds(last) PROVE LossInv'
  <2>1. /\ frames' = frames \o last /\ ~talks'
        /\ UNCHANGED <<mode, channel, view, buffer, dropped>>
    BY <1>11 DEF IoEnds, sessionVars, outVars
  <2>2. CASE last = <<>>
    <3>1. frames' = frames
      BY <1>0, <2>1, <2>2 DEF TradeTypes
    <3>2. QED
      BY <2>1, <3>1, RowUntouched
  <2>3. CASE last = <<Frame("error", 0)>>
    <3>1. frames' = Append(frames, Frame("error", 0))
      BY <1>0, <1>9, <2>1, <2>3 DEF TradeTypes
    <3>2. QED
      BY <1>9, <2>1, <3>1, RowGrows
  <2>4. QED
    BY <2>2, <2>3
<1>12. ASSUME ReadQuiet \/ GoesSilent \/ Tick \/ TradeUnseen PROVE LossInv'
  BY <1>12, RowUntouched DEF ReadQuiet, Read, GoesSilent, Tick, TradeUnseen, sessionVars,
     ioVars, outVars
<1>13. ASSUME AtDeadline PROVE LossInv'
  <2>1. CASE DeadlineAction(policy, beat) = "Timeout"
    BY <1>11, <1>13, <2>1 DEF AtDeadline
  <2>2. CASE DeadlineAction(policy, beat) # "Timeout"
    BY <1>13, <2>2, RowUntouched DEF AtDeadline, sessionVars, outVars
  <2>3. QED
    BY <2>1, <2>2
<1>14. ASSUME Breaks PROVE LossInv'
  BY <1>11, <1>14 DEF Breaks
<1>15. QED
  BY <1>1, <1>2, <1>3, <1>4, <1>6, <1>7, <1>8, <1>10, <1>12, <1>13, <1>14, ReceivingInRow
     DEF Next, Session, Io

(* Every trade on its way follows the one before, or a repair is due.      *)
THEOREM LossInvariance == Spec => []LossInv
<1>1. Init => LossInv
  <2> SUFFICES ASSUME Init
               PROVE  LossInv
    OBVIOUS
  <2>1. /\ channel = <<>> /\ Len(channel) = 0 /\ buffer = {} /\ mode = "Connecting"
        /\ view.warned = TRUE /\ view.hole = FALSE
    BY DEF Init
  <2>2. ReaderTypes
    BY <2>1 DEF Init, ReaderTypes
  <2>3. EventMarks[0] = Reset /\ Len(channel) + 1 = 1 /\ 1..Len(channel) = {}
    BY <2>1 DEF EventMarks
  <2>4. \A m \in Int : ~HandedOut(m)
    BY <2>3, StandsFirst DEF HandedOut, Reset
  <2>5. EventsInRow /\ BufferInRow /\ FramesInRow /\ RepairIsDue
    BY <2>1, <2>3, <2>4 DEF EventsInRow, BufferInRow, FramesInRow, RepairIsDue
  <2>6. QED
    BY <2>1, <2>2, <2>5 DEF LossInv, InRow
<1>2. LossInv /\ TypeInv /\ [Next]_vars => LossInv'
  <2>1. ASSUME LossInv, UNCHANGED vars PROVE LossInv'
    BY <2>1, RowUntouched DEF vars, outVars, ioVars, sessionVars
  <2>2. QED
    BY <2>1, LossPreserved
<1>3. QED
  BY <1>1, <1>2, TypeInvariance, PTL DEF Spec

(* The application never skips a trade without a notice of disconnection   *)
(* in between, on which it repairs the gap, unless the channel dropped     *)
(* trades or that notice: whatever connections broke, however late it is.  *)
THEOREM NoLoss == Spec => []NoSilentLoss
<1>1. LossInv => NoSilentLoss
  BY DEF LossInv, InRow, Lossy, NoSilentLoss
<1>2. QED
  BY <1>1, LossInvariance, PTL
=============================================================================
