------------------------ MODULE ClientSessionProofs ------------------------
(***************************************************************************)
(* Theorems about ClientSession, for every chain, every set of sessions    *)
(* and of logs, and every bound.                                           *)
(***************************************************************************)
EXTENDS ClientSession, FiniteSetTheorems, TLAPS

-----------------------------------------------------------------------------
(* Functions, sequences and the least of a set of naturals.                *)

LEMMA OverIs ==
    ASSUME NEW new, NEW old
    PROVE  /\ DOMAIN Over(new, old) = DOMAIN new \cup DOMAIN old
           /\ \A x \in DOMAIN new : Over(new, old)[x] = new[x]
           /\ \A x \in DOMAIN old : x \notin DOMAIN new => Over(new, old)[x] = old[x]
BY DEF Over

LEMMA PutIs ==
    ASSUME NEW old, NEW x, NEW value
    PROVE  /\ DOMAIN Put(old, x, value) = DOMAIN old \cup {x}
           /\ Put(old, x, value)[x] = value
           /\ \A y \in DOMAIN old : y # x => Put(old, x, value)[y] = old[y]
BY DEF Put

LEMMA Concatenated ==
    ASSUME NEW S, NEW s \in Seq(S), NEW t \in Seq(S)
    PROVE  /\ s \o t \in Seq(S)
           /\ Len(s \o t) = Len(s) + Len(t)
           /\ \A i \in 1..Len(s) : (s \o t)[i] = s[i]
           /\ \A i \in (Len(s) + 1)..(Len(s) + Len(t)) : (s \o t)[i] = t[i - Len(s)]
OBVIOUS

LEMMA Appended ==
    ASSUME NEW S, NEW s \in Seq(S), NEW x \in S
    PROVE  /\ Append(s, x) \in Seq(S)
           /\ Len(s) \in Nat /\ DOMAIN s = 1..Len(s)
           /\ DOMAIN Append(s, x) = 1..(Len(s) + 1)
           /\ Append(s, x)[Len(s) + 1] = x
           /\ \A i \in 1..Len(s) : Append(s, x)[i] = s[i]
OBVIOUS

\* What a sequence has after its first k items.
LEMMA Remainder ==
    ASSUME NEW S, NEW s \in Seq(S), NEW k \in 1..Len(s)
    PROVE  /\ Len(s) \in Nat /\ k \in Nat /\ k <= Len(s) /\ DOMAIN s = 1..Len(s)
           /\ SubSeq(s, k + 1, Len(s)) \in Seq(S)
           /\ Len(SubSeq(s, k + 1, Len(s))) = Len(s) - k
           /\ DOMAIN SubSeq(s, k + 1, Len(s)) = 1..(Len(s) - k)
           /\ \A i \in 1..(Len(s) - k) :
                 SubSeq(s, k + 1, Len(s))[i] = s[k + i] /\ k + i \in 1..Len(s)
OBVIOUS

\* What a sequence has before its n-th item.
LEMMA Beginning ==
    ASSUME NEW S, NEW s \in Seq(S), NEW n \in 1..(Len(s) + 1)
    PROVE  /\ SubSeq(s, 1, n - 1) \in Seq(S)
           /\ Len(SubSeq(s, 1, n - 1)) = n - 1
           /\ \A i \in 1..(n - 1) : SubSeq(s, 1, n - 1)[i] = s[i]
OBVIOUS

\* The initial segments of the naturals are well founded.
LEMMA LeastNatural ==
    ASSUME NEW S, S \subseteq Nat, S # {}
    PROVE  \E x \in S : \A y \in S : x <= y
<1> DEFINE T == {0..n : n \in S}
<1>1. T \subseteq FiniteSubsetsOf(Nat) /\ T # {}
  <2>1. \A n \in S : n \in Int /\ 0 \in Int
    OBVIOUS
  <2>2. \A n \in S : IsFiniteSet(0..n)
    BY <2>1, FS_Interval
  <2>3. \A n \in S : 0..n \subseteq Nat
    OBVIOUS
  <2> QED
    BY <2>2, <2>3 DEF FiniteSubsetsOf
<1>2. PICK t \in T : \A u \in T : ~(<<u, t>> \in StrictSubsetOrdering(Nat))
  <2>1. IsWellFoundedOn(StrictSubsetOrdering(Nat), FiniteSubsetsOf(Nat))
    BY FS_StrictSubsetOrderingWellFounded
  <2> HIDE DEF T
  <2> QED
    BY <1>1, <2>1, WFMin
<1>3. PICK x \in S : t = 0..x
  BY <1>2
<1>4. ASSUME NEW y \in S, y < x PROVE FALSE
  <2>1. 0..y \in T /\ 0..y \subseteq 0..x /\ x \in 0..x /\ x \notin 0..y /\ 0..x \subseteq Nat /\ 0..y \subseteq Nat
    BY <1>4
  <2> HIDE DEF T
  <2> QED
    BY <1>2, <1>3, <2>1 DEF StrictSubsetOrdering
<1> QED
  BY <1>3, <1>4

LEMMA MinIs ==
    ASSUME NEW S, S \subseteq Nat, S # {}
    PROVE  Min(S) \in S /\ \A n \in S : Min(S) <= n
BY LeastNatural DEF Min

-----------------------------------------------------------------------------
(***************************************************************************)
(* The feed.  That nothing is missing is not inductive by itself: what has *)
(* been forwarded and not given must wait in the channel, behind all that  *)
(* was given.                                                              *)
(***************************************************************************)

Gives == {DecodeLog(log) : log \in Logs} \cup {Failure("header")}

FeedTypeOK ==
    /\ emitted \in Seq(Logs)
    /\ feed \in [state : {"none", "asked", "open", "ended", "lost"}, from : Nat, at : Nat,
                 queue : Seq(Nat), yields : Seq([log : Nat, gives : Gives])]
    /\ feed.from <= feed.at /\ feed.at <= Len(emitted)
    /\ feed.state \in {"none", "asked"} => feed.queue = <<>> /\ feed.yields = <<>>

\* The channel holds places in order, of what was forwarded since the
\* subscription and comes after all that was given.
QueueInOrder ==
    \A i \in DOMAIN feed.queue :
        /\ feed.queue[i] \in (feed.from + 1)..feed.at
        /\ \A j \in 1..(i - 1) : feed.queue[j] < feed.queue[i]
        /\ \A k \in DOMAIN feed.yields : feed.yields[k].log < feed.queue[i]

\* Whatever was forwarded and is ours waits or was given.
NothingLost ==
    /\ \A p \in (feed.from + 1)..feed.at : Ours(emitted[p]) =>
        \/ \E i \in DOMAIN feed.queue : feed.queue[i] = p
        \/ \E k \in DOMAIN feed.yields : feed.yields[k].log = p
    /\ feed.state = "lost" => feed.queue = <<>>

\* What was given is ours, in order, and true.
Truthful(log, gives) ==
    IF "event" \in DOMAIN gives
    THEN gives = Event(NameOf(log.topic), log.liquidation)
    ELSE ~Readable(log) \/ (gives = Failure("header") /\ ~log.timestamped)

YieldsAreTrue ==
    \A k \in DOMAIN feed.yields :
        /\ feed.yields[k].log \in (feed.from + 1)..feed.at
        /\ Ours(emitted[feed.yields[k].log])
        /\ \A j \in 1..(k - 1) : feed.yields[j].log < feed.yields[k].log
        /\ Truthful(emitted[feed.yields[k].log], feed.yields[k].gives)

\* The pool manager's logs are not in the feed's filter.
QueueIsFiltered ==
    \A i \in DOMAIN feed.queue : emitted[feed.queue[i]].address # "pool_manager"

FeedInv == FeedTypeOK /\ QueueInOrder /\ QueueIsFiltered /\ NothingLost /\ YieldsAreTrue

\* Arms of one topic agree on its tail.
LEMMA TailsAreByTopic ==
    \A arm \in Arms : arm.topic \in Tailed => arm.tail
<1> DEFINE T == {<<"PerpDeployedEvents", "MakerConverted">>,
                 <<"PerpDeployedEvents", "MakerClosed">>, <<"Perp", "TakerClosed">>}
<1> USE DEF Arm
<1>1. \A arm \in MakerArms : arm.tail <=> arm.topic \in T
  BY DEF MakerArms
<1>2. \A arm \in TakerArms : arm.tail <=> arm.topic \in T
  BY DEF TakerArms
<1>3. \A arm \in MarketArms \cup SolvencyArms : arm.tail <=> arm.topic \in T
  BY DEF MarketArms, SolvencyArms
<1>4. \A arm \in PoolArms : arm.tail <=> arm.topic \in T
  BY DEF PoolArms
<1>5. TransferArm.tail <=> TransferArm.topic \in T
  BY DEF TransferArm
<1>6. \A arm \in GovernanceArms : arm.tail <=> arm.topic \in T
  BY DEF GovernanceArms
<1> HIDE DEF T
<1>7. \A arm \in Arms : arm.tail <=> arm.topic \in T
  BY <1>1, <1>2, <1>3, <1>4, <1>5, <1>6 DEF Arms
<1> QED
  BY <1>7 DEF Tailed

\* Every arm gives the variant its topic stands for.
LEMMA ArmsAreTrue == \A arm \in Arms : arm.event = NameOf(arm.topic)
<1> USE DEF Arm
<1>1. \A arm \in MakerArms : arm.event = NameOf(arm.topic)
  BY DEF MakerArms, NameOf, TransferTopic
<1>2. \A arm \in TakerArms : arm.event = NameOf(arm.topic)
  BY DEF TakerArms, NameOf, TransferTopic
<1>3. \A arm \in MarketArms \cup SolvencyArms : arm.event = NameOf(arm.topic)
  BY DEF MarketArms, SolvencyArms, NameOf, TransferTopic
<1>4. \A arm \in PoolArms : arm.event = NameOf(arm.topic)
  BY DEF PoolArms, NameOf, TransferTopic
<1>5. TransferArm.event = NameOf(TransferArm.topic)
  BY DEF TransferArm, NameOf, TransferTopic
<1>6. \A arm \in GovernanceArms : arm.event = NameOf(arm.topic)
  BY DEF GovernanceArms, NameOf, TransferTopic
<1>7. \A arm \in Arms : \/ arm \in MakerArms \/ arm \in TakerArms
                        \/ arm \in MarketArms \cup SolvencyArms \/ arm \in PoolArms
                        \/ arm = TransferArm \/ arm \in GovernanceArms
  BY DEF Arms
<1> QED
  BY <1>1, <1>2, <1>3, <1>4, <1>5, <1>6, <1>7

LEMMA DecodingIsTrue ==
    ASSUME NEW log \in Logs
    PROVE  /\ DecodeLog(log) = Skip <=> ~log.ours
           /\ DecodeLog(log) # Skip => Truthful(log, DecodeLog(log))
<1> DEFINE arm == ArmOf(log.topic)
<1>1. log.ours = ~NotOurs(log) /\ log.liquidation \in BOOLEAN /\ (log.liquidation => log.topic \in Tailed)
  BY LogAssumption
<1>2. DOMAIN Skip = {"skip"} /\ DOMAIN DecodeFailed = {"error"}
  BY DEF Skip, DecodeFailed
<1>3. \A name, liquidation : DOMAIN Event(name, liquidation) = {"event", "is_liquidation"}
  BY DEF Event
<1>4. CASE NotOurs(log)
  BY <1>1, <1>4 DEF DecodeLog
<1>5. CASE ~NotOurs(log) /\ Fails(log)
  <2>1. DecodeLog(log) = DecodeFailed
    BY <1>5 DEF DecodeLog
  <2>2. ~Readable(log)
    BY <1>5 DEF Readable, Fails
  <2> QED
    BY <1>1, <1>2, <1>5, <2>1, <2>2 DEF Truthful
<1>6. CASE ~NotOurs(log) /\ ~Fails(log)
  <2>1. arm \in Arms /\ arm.topic = log.topic
    BY <1>6 DEF NotOurs, ArmOf
  <2>2. DecodeLog(log) = Event(arm.event, arm.tail /\ log.liquidation)
    BY <1>6 DEF DecodeLog
  <2> HIDE DEF arm
  <2>3. arm.event = NameOf(log.topic)
    BY <2>1, ArmsAreTrue
  <2>4. (arm.tail /\ log.liquidation) = log.liquidation
    <3>1. log.topic \in Tailed => arm.tail
      BY <2>1, TailsAreByTopic
    <3> QED
      BY <1>1, <3>1
  <2>5. DecodeLog(log) = Event(NameOf(log.topic), log.liquidation)
    BY <2>2, <2>3, <2>4
  <2> QED
    BY <1>1, <1>2, <1>3, <1>6, <2>5 DEF Truthful
<1> QED
  BY <1>4, <1>5, <1>6

LEMMA FeedStarts == FeedsInit => FeedInv
BY DEF FeedsInit, NoFeed, FeedInv, FeedTypeOK, QueueInOrder, QueueIsFiltered, NothingLost, YieldsAreTrue

LEMMA EmitKeepsFeed ==
    ASSUME FeedInv, NEW log \in Logs, Emit(log)
    PROVE  FeedInv'
<1>1. \A p \in 1..Len(emitted) : emitted'[p] = emitted[p]
  BY DEF Emit, FeedInv, FeedTypeOK
<1>2. Len(emitted') = Len(emitted) + 1 /\ emitted' \in Seq(Logs) /\ feed' = feed
  BY DEF Emit, FeedInv, FeedTypeOK
<1>3. \A p \in (feed.from + 1)..feed.at : p \in 1..Len(emitted)
  BY DEF FeedInv, FeedTypeOK
<1> USE <1>1, <1>2, <1>3 DEF FeedInv
<1>4. FeedTypeOK'
  BY DEF FeedTypeOK
<1>5. QueueInOrder'
  BY DEF QueueInOrder
<1>6. QueueIsFiltered'
  BY DEF QueueIsFiltered, QueueInOrder
<1>7. NothingLost'
  BY DEF NothingLost
<1>8. YieldsAreTrue'
  BY DEF YieldsAreTrue
<1> QED
  BY <1>4, <1>5, <1>6, <1>7, <1>8

\* With nothing queued, nothing given and nothing forwarded.
LEMMA EmptyFeed ==
    ASSUME FeedTypeOK', feed'.from = feed'.at, feed'.queue = <<>>, feed'.yields = <<>>
    PROVE  FeedInv'
<1>1. DOMAIN feed'.queue = {} /\ DOMAIN feed'.yields = {} /\ (feed'.from + 1)..feed'.at = {}
  BY DEF FeedTypeOK
<1> QED
  BY <1>1 DEF FeedInv, QueueInOrder, QueueIsFiltered, NothingLost, YieldsAreTrue

LEMMA SubscribeKeepsFeed ==
    ASSUME FeedInv, SubscribeFeed \/ Establish \/ StreamEnds
    PROVE  FeedInv'
<1> USE DEF FeedInv, FeedTypeOK
<1>1. CASE SubscribeFeed
  <2>1. /\ feed' = [state |-> "asked", from |-> 0, at |-> 0, queue |-> <<>>, yields |-> <<>>]
        /\ emitted' = emitted
    BY <1>1 DEF SubscribeFeed, NoFeed
  <2>2. FeedTypeOK' /\ feed'.from = feed'.at /\ feed'.queue = <<>> /\ feed'.yields = <<>>
    BY <2>1
  <2> QED
    BY <2>2, EmptyFeed
<1>2. ASSUME StreamEnds \/ Establish, feed' = [feed EXCEPT !.state = "ended"], emitted' = emitted
      PROVE  FeedInv'
  <2>1. FeedTypeOK'
    BY <1>2 DEF StreamEnds, Establish
  <2>2. /\ feed'.from = feed.from /\ feed'.at = feed.at /\ feed'.queue = feed.queue
        /\ feed'.yields = feed.yields /\ feed'.state = "ended"
    BY <1>2
  <2>3. QueueInOrder' /\ QueueIsFiltered' /\ YieldsAreTrue'
    BY <1>2, <2>2 DEF QueueInOrder, QueueIsFiltered, YieldsAreTrue
  <2>4. NothingLost'
    BY <1>2, <2>2 DEF NothingLost
  <2> QED
    BY <2>1, <2>3, <2>4
<1>3. CASE Establish
  <2>1. CASE feed' = [feed EXCEPT !.state = "open", !.from = Len(emitted), !.at = Len(emitted)]
    <3>1. /\ emitted' = emitted /\ Len(emitted) \in Nat
          /\ feed.queue = <<>> /\ feed.yields = <<>>
      BY <1>3, <2>1 DEF Establish
    <3> DEFINE n == Len(emitted)
    <3> HIDE DEF n
    <3>2. /\ feed' = [feed EXCEPT !.state = "open", !.from = n, !.at = n]
          /\ n \in Nat /\ n = Len(emitted)
      BY <2>1, <3>1 DEF n
    <3>3. /\ feed'.from = n /\ feed'.at = n /\ feed'.queue = feed.queue /\ feed'.yields = feed.yields
          /\ feed'.state = "open"
      BY <3>2
    <3>4. feed' \in [state : {"none", "asked", "open", "ended", "lost"}, from : Nat, at : Nat,
                     queue : Seq(Nat), yields : Seq([log : Nat, gives : Gives])]
      BY <3>2
    <3>5. FeedTypeOK'
      BY <3>1, <3>2, <3>3, <3>4
    <3> QED
      BY <3>1, <3>3, <3>5, EmptyFeed
  <2> QED
    BY <1>2, <1>3, <2>1 DEF Establish
<1>4. CASE StreamEnds
  BY <1>2, <1>4 DEF StreamEnds
<1> QED
  BY <1>1, <1>3, <1>4

LEMMA ForwardKeepsFeed ==
    ASSUME FeedInv, Forward
    PROVE  FeedInv'
<1> DEFINE p == feed.at + 1
           skipped == emitted[p].address = "pool_manager"
<1>1. /\ p \in Nat /\ p <= Len(emitted) /\ feed.from < p /\ emitted' = emitted
      /\ feed'.at = p /\ feed'.from = feed.from /\ feed'.yields = feed.yields /\ feed'.state = feed.state
      /\ feed'.queue = IF skipped THEN feed.queue ELSE Append(feed.queue, p)
      /\ feed.state = "open"
  BY DEF Forward, FeedInv, FeedTypeOK
<1>2. FeedTypeOK'
  <2> DEFINE queue == IF skipped THEN feed.queue ELSE Append(feed.queue, p)
  <2>1. queue \in Seq(Nat)
    BY <1>1 DEF FeedInv, FeedTypeOK
  <2>2. feed' = [feed EXCEPT !.at = p, !.queue = queue] /\ feed.state = "open"
    BY DEF Forward
  <2> HIDE DEF queue, p
  <2>3. feed' \in [state : {"none", "asked", "open", "ended", "lost"}, from : Nat, at : Nat,
                   queue : Seq(Nat), yields : Seq([log : Nat, gives : Gives])]
    BY <1>1, <2>1, <2>2 DEF FeedInv, FeedTypeOK
  <2> QED
    BY <1>1, <2>3 DEF FeedInv, FeedTypeOK
<1>3. /\ feed.queue \in Seq(Nat)
      /\ \A q \in (feed.from + 1)..p : q = p \/ q \in (feed.from + 1)..feed.at
      /\ \A q \in (feed.from + 1)..feed.at : q < p /\ q \in (feed.from + 1)..p
  BY <1>1 DEF FeedInv, FeedTypeOK
<1>4. YieldsAreTrue'
  BY <1>1, <1>3 DEF FeedInv, YieldsAreTrue
<1>5. CASE skipped
  <2>1. QueueInOrder' /\ QueueIsFiltered'
    BY <1>1, <1>3, <1>5 DEF FeedInv, QueueInOrder, QueueIsFiltered
  <2>2. NothingLost'
    BY <1>1, <1>3, <1>5 DEF FeedInv, NothingLost, Ours
  <2> QED
    BY <1>2, <1>4, <2>1, <2>2 DEF FeedInv
<1>6. CASE ~skipped
  <2>1. /\ DOMAIN feed'.queue = 1..(Len(feed.queue) + 1)
        /\ \A i \in DOMAIN feed.queue : feed'.queue[i] = feed.queue[i]
        /\ feed'.queue[Len(feed.queue) + 1] = p
        /\ DOMAIN feed.queue = 1..Len(feed.queue) /\ Len(feed.queue) \in Nat
    BY <1>1, <1>3, <1>6
  <2>2. QueueInOrder'
    <3> SUFFICES ASSUME NEW i \in DOMAIN feed'.queue
                 PROVE  /\ feed'.queue[i] \in (feed.from + 1)..p
                        /\ \A j \in 1..(i - 1) : feed'.queue[j] < feed'.queue[i]
                        /\ \A k \in DOMAIN feed.yields : feed.yields[k].log < feed'.queue[i]
      BY <1>1 DEF QueueInOrder
    <3>1. CASE i \in DOMAIN feed.queue
      <4>1. \A j \in 1..(i - 1) : j \in DOMAIN feed.queue
        BY <2>1, <3>1
      <4> QED
        BY <1>3, <2>1, <3>1, <4>1 DEF FeedInv, QueueInOrder
    <3>2. CASE i = Len(feed.queue) + 1
      <4>1. \A j \in 1..(i - 1) : feed.queue[j] \in (feed.from + 1)..feed.at /\ feed'.queue[j] = feed.queue[j]
        BY <2>1, <3>2 DEF FeedInv, QueueInOrder
      <4>2. \A k \in DOMAIN feed.yields : feed.yields[k].log \in (feed.from + 1)..feed.at
        BY DEF FeedInv, YieldsAreTrue
      <4>3. p \in (feed.from + 1)..p
        BY <1>1 DEF FeedInv, FeedTypeOK
      <4> QED
        BY <1>3, <2>1, <3>2, <4>1, <4>2, <4>3
    <3>3. i \in 1..(Len(feed.queue) + 1)
      BY <2>1
    <3>4. i \in DOMAIN feed.queue \/ i = Len(feed.queue) + 1
      BY <2>1, <3>3
    <3> QED
      BY <3>1, <3>2, <3>4
  <2>3. QueueIsFiltered'
    BY <1>1, <1>6, <2>1 DEF FeedInv, QueueIsFiltered
  <2>4. NothingLost'
    BY <1>1, <1>3, <2>1 DEF FeedInv, NothingLost
  <2> QED
    BY <1>2, <1>4, <2>2, <2>3, <2>4 DEF FeedInv
<1> QED
  BY <1>5, <1>6

LEMMA NextEventKeepsFeed ==
    ASSUME FeedInv, NextEvent
    PROVE  FeedInv'
<1>1. /\ emitted' = emitted /\ emitted \in Seq(Logs)
      /\ feed.queue \in Seq(Nat) /\ feed.yields \in Seq([log : Nat, gives : Gives])
      /\ feed.from \in Nat /\ feed.at \in Nat /\ feed.at <= Len(emitted)
      /\ feed.state \in {"open", "ended"}
  BY DEF NextEvent, FeedInv, FeedTypeOK
<1>2. \A i \in DOMAIN feed.queue :
        /\ emitted[feed.queue[i]] \in Logs
        /\ i \in Stops(feed.queue) <=> emitted[feed.queue[i]].ours
  BY <1>1, DecodingIsTrue DEF FeedInv, QueueInOrder, Stops
<1>3. ASSUME feed' = [feed EXCEPT !.queue = <<>>, !.state = IF @ = "ended" THEN "lost" ELSE @],
             Stops(feed.queue) = {}
      PROVE  FeedInv'
  <2>1. /\ feed'.from = feed.from /\ feed'.at = feed.at /\ feed'.queue = <<>> /\ feed'.yields = feed.yields
        /\ feed'.state \in {"open", "ended", "lost"}
    BY <1>1, <1>3 DEF FeedInv, FeedTypeOK
  <2>2. FeedTypeOK'
    <3> DEFINE state == IF feed.state = "ended" THEN "lost" ELSE feed.state
    <3>1. feed' = [feed EXCEPT !.queue = <<>>, !.state = state] /\ state \in {"open", "ended", "lost"}
      BY <1>1, <1>3
    <3> HIDE DEF state
    <3>2. feed' \in [state : {"none", "asked", "open", "ended", "lost"}, from : Nat, at : Nat,
                     queue : Seq(Nat), yields : Seq([log : Nat, gives : Gives])]
      <4>1. <<>> \in Seq(Nat)
        OBVIOUS
      <4> QED
        BY <1>1, <3>1, <4>1 DEF FeedInv, FeedTypeOK
    <3> QED
      BY <1>1, <2>1, <3>2 DEF FeedInv, FeedTypeOK
  <2>3. QueueInOrder' /\ QueueIsFiltered'
    BY <2>1 DEF QueueInOrder, QueueIsFiltered
  <2>4. NothingLost'
    BY <1>1, <1>2, <1>3, <2>1 DEF FeedInv, NothingLost, Ours
  <2>5. YieldsAreTrue'
    BY <1>1, <2>1 DEF FeedInv, YieldsAreTrue
  <2> QED
    BY <2>2, <2>3, <2>4, <2>5 DEF FeedInv
<1>4. ASSUME NEW k \in Stops(feed.queue), NEW failed \in BOOLEAN,
             \A j \in 1..(k - 1) : j \notin Stops(feed.queue),
             failed => ~emitted[feed.queue[k]].timestamped,
             feed' = [feed EXCEPT !.queue = SubSeq(@, k + 1, Len(@)),
                                  !.yields = Append(@, [log |-> feed.queue[k],
                                                        gives |-> IF failed THEN Failure("header")
                                                                  ELSE DecodeLog(emitted[feed.queue[k]])])]
      PROVE  FeedInv'
  <2> DEFINE p == feed.queue[k]
             log == emitted[p]
             gives == IF failed THEN Failure("header") ELSE DecodeLog(log)
             rest == SubSeq(feed.queue, k + 1, Len(feed.queue))
             yield == [log |-> p, gives |-> gives]
             yields == Append(feed.yields, yield)
             last == Len(feed.yields) + 1
  <2>1. /\ k \in 1..Len(feed.queue) /\ p \in (feed.from + 1)..feed.at /\ p \in Nat
        /\ log \in Logs /\ log.address # "pool_manager" /\ log.ours
    BY <1>1, <1>2, <1>4 DEF Stops, FeedInv, QueueInOrder, QueueIsFiltered
  <2>2. gives \in Gives /\ Truthful(log, gives)
    <3>1. CASE failed
      <4>1. DOMAIN Failure("header") = {"failed"}
        BY DEF Failure
      <4> QED
        BY <1>4, <3>1, <4>1 DEF Gives, Truthful
    <3>2. CASE ~failed
      <4>1. DecodeLog(log) # Skip
        BY <2>1, DecodingIsTrue
      <4> QED
        BY <2>1, <3>2, <4>1, DecodingIsTrue DEF Gives
    <3> QED
      BY <3>1, <3>2
  <2>3. /\ rest \in Seq(Nat) /\ DOMAIN rest = 1..(Len(feed.queue) - k)
        /\ Len(feed.queue) \in Nat /\ k \in Nat /\ DOMAIN feed.queue = 1..Len(feed.queue)
        /\ \A i \in DOMAIN rest : rest[i] = feed.queue[k + i] /\ k + i \in DOMAIN feed.queue
    <3>1. feed.queue \in Seq(Nat) /\ k \in 1..Len(feed.queue)
      BY <1>1, <2>1
    <3>2. /\ Len(feed.queue) \in Nat /\ k \in Nat /\ DOMAIN feed.queue = 1..Len(feed.queue)
          /\ rest \in Seq(Nat) /\ DOMAIN rest = 1..(Len(feed.queue) - k)
          /\ \A i \in 1..(Len(feed.queue) - k) : rest[i] = feed.queue[k + i] /\ k + i \in 1..Len(feed.queue)
      BY <3>1, Remainder
    <3> QED
      BY <3>2
  <2>4. yield \in [log : Nat, gives : Gives] /\ yield.log = p /\ yield.gives = gives
    BY <2>1, <2>2
  <2>5. /\ yields \in Seq([log : Nat, gives : Gives]) /\ DOMAIN yields = 1..last
        /\ yields[last] = yield /\ last \in Nat /\ last \in 1..last
        /\ \A i \in DOMAIN feed.yields : yields[i] = feed.yields[i] /\ i \in 1..last
        /\ \A i \in 1..last : i \in DOMAIN feed.yields \/ i = last
        /\ DOMAIN feed.yields = 1..(last - 1)
    <3>1. feed.yields \in Seq([log : Nat, gives : Gives]) /\ yield \in [log : Nat, gives : Gives]
      BY <1>1, <2>4
    <3>2. /\ yields \in Seq([log : Nat, gives : Gives])
          /\ Len(feed.yields) \in Nat /\ DOMAIN feed.yields = 1..Len(feed.yields)
          /\ DOMAIN yields = 1..last /\ yields[last] = yield
          /\ \A i \in 1..Len(feed.yields) : yields[i] = feed.yields[i]
      <4> HIDE DEF yield
      <4> QED
        BY <3>1, Appended
    <3>3. /\ last \in Nat /\ last \in 1..last /\ Len(feed.yields) = last - 1
          /\ \A i \in 1..Len(feed.yields) : i \in 1..last
          /\ \A i \in 1..last : i \in 1..Len(feed.yields) \/ i = last
      BY <3>2
    <3> QED
      BY <3>2, <3>3
  <2>6. feed' = [feed EXCEPT !.queue = rest, !.yields = yields]
    BY <1>4
  <2> HIDE DEF p, log, gives, rest, yield, yields, last
  <2>7. /\ feed'.from = feed.from /\ feed'.at = feed.at /\ feed'.queue = rest /\ feed'.yields = yields
        /\ feed'.state = feed.state
    BY <2>6 DEF FeedInv, FeedTypeOK
  <2>8. FeedTypeOK'
    <3>1. feed' \in [state : {"none", "asked", "open", "ended", "lost"}, from : Nat, at : Nat,
                     queue : Seq(Nat), yields : Seq([log : Nat, gives : Gives])]
      BY <2>3, <2>5, <2>6 DEF FeedInv, FeedTypeOK
    <3> QED
      BY <1>1, <2>7, <3>1 DEF FeedInv, FeedTypeOK
  <2>9. \A i \in DOMAIN feed.queue : i > k => p < feed.queue[i]
    BY <1>1, <2>1 DEF FeedInv, QueueInOrder, p
  <2>10. QueueInOrder'
    <3> SUFFICES ASSUME NEW i \in DOMAIN rest
                 PROVE  /\ rest[i] \in (feed.from + 1)..feed.at
                        /\ \A j \in 1..(i - 1) : rest[j] < rest[i]
                        /\ \A n \in 1..last : yields[n].log < rest[i]
      BY <2>5, <2>7 DEF QueueInOrder
    <3>5. \A j \in 1..(k + i - 1) : feed.queue[j] < feed.queue[k + i]
      BY <2>3 DEF FeedInv, QueueInOrder
    <3>1. rest[i] = feed.queue[k + i] /\ k + i \in DOMAIN feed.queue /\ i \in Nat /\ k \in Nat /\ i > 0
      BY <2>1, <2>3
    <3>2. \A j \in 1..(i - 1) : rest[j] = feed.queue[k + j] /\ k + j \in 1..(k + i - 1)
      <4>1. \A j \in 1..(i - 1) : j \in DOMAIN rest
        BY <2>3
      <4>2. \A j \in 1..(i - 1) : k + j \in 1..(k + i - 1)
        BY <3>1
      <4> QED
        BY <2>3, <4>1, <4>2
    <3>3. \A n \in DOMAIN feed.yields : feed.yields[n].log < rest[i]
      BY <3>1 DEF FeedInv, QueueInOrder
    <3>4. p < rest[i]
      BY <2>9, <3>1
    <3> QED
      BY <2>4, <2>5, <3>1, <3>2, <3>3, <3>4, <3>5 DEF FeedInv, QueueInOrder
  <2>11. QueueIsFiltered'
    BY <1>1, <2>3, <2>7 DEF FeedInv, QueueIsFiltered
  <2>12. NothingLost'
    <3> SUFFICES ASSUME NEW q \in (feed.from + 1)..feed.at, Ours(emitted[q])
                 PROVE  \/ \E i \in DOMAIN rest : rest[i] = q
                        \/ \E n \in DOMAIN yields : yields[n].log = q
      BY <1>1, <2>7 DEF NothingLost
    <3>1. CASE \E n \in DOMAIN feed.yields : feed.yields[n].log = q
      BY <2>5, <3>1
    <3>2. CASE \E i \in DOMAIN feed.queue : feed.queue[i] = q
      <4>1. PICK i \in DOMAIN feed.queue : feed.queue[i] = q
        BY <3>2
      <4>2. i \in 1..Len(feed.queue) /\ i \in Stops(feed.queue)
        BY <1>1, <1>2, <4>1 DEF Ours
      <4>3. i = k \/ i > k
        BY <1>4, <2>1, <4>2
      <4>4. CASE i = k
        <5>1. yield.log = q
          BY <2>4, <4>1, <4>4 DEF p
        <5>2. last \in DOMAIN yields /\ yields[last] = yield
          BY <2>5
        <5> QED
          BY <5>1, <5>2
      <4>5. CASE i > k
        <5>1. i - k \in DOMAIN rest /\ k + (i - k) = i
          <6>1. i \in 1..Len(feed.queue) /\ Len(feed.queue) \in Nat /\ k \in Nat
            BY <2>3, <4>2
          <6>2. i - k \in 1..(Len(feed.queue) - k) /\ k + (i - k) = i
            BY <6>1, <4>5
          <6> QED
            BY <2>3, <6>2
        <5>2. rest[i - k] = feed.queue[i]
          BY <2>3, <5>1
        <5> QED
          BY <4>1, <5>1, <5>2
      <4> QED
        BY <4>3, <4>4, <4>5
    <3> QED
      BY <3>1, <3>2 DEF FeedInv, NothingLost
  <2>13. YieldsAreTrue'
    <3>1. \A n \in DOMAIN feed.yields : feed.yields[n].log < p
      <4>1. \A n \in DOMAIN feed.yields, i \in DOMAIN feed.queue : feed.yields[n].log < feed.queue[i]
        BY <1>1 DEF FeedInv, QueueInOrder
      <4>2. k \in DOMAIN feed.queue
        BY <2>1, <2>3
      <4> QED
        BY <4>1, <4>2 DEF p
    <3> SUFFICES ASSUME NEW n \in 1..last
                 PROVE  /\ yields[n].log \in (feed.from + 1)..feed.at
                        /\ Ours(emitted[yields[n].log])
                        /\ \A j \in 1..(n - 1) : yields[j].log < yields[n].log
                        /\ Truthful(emitted[yields[n].log], yields[n].gives)
      BY <1>1, <2>5, <2>7 DEF YieldsAreTrue
    <3>2. CASE n = last
      <4>1. \A j \in 1..(n - 1) : j \in DOMAIN feed.yields
        BY <2>5, <3>2
      <4> QED
        BY <2>1, <2>2, <2>4, <2>5, <3>1, <3>2, <4>1 DEF Ours, log
    <3>3. CASE n \in DOMAIN feed.yields
      <4>1. \A j \in 1..(n - 1) : j \in DOMAIN feed.yields
        BY <2>5, <3>3
      <4> QED
        BY <2>5, <3>3, <4>1 DEF FeedInv, YieldsAreTrue
    <3> QED
      BY <2>5, <3>2, <3>3
  <2> QED
    BY <2>8, <2>10, <2>11, <2>12, <2>13 DEF FeedInv
<1>5. CASE Stops(feed.queue) = {} /\ feed' = [feed EXCEPT !.queue = <<>>, !.state = IF @ = "ended" THEN "lost" ELSE @]
  BY <1>3, <1>5
<1>6. CASE \E k \in Stops(feed.queue) :
            /\ \A j \in 1..(k - 1) : j \notin Stops(feed.queue)
            /\ LET log == emitted[feed.queue[k]] IN
                \E failed \in {FALSE, faults < MaxFaults /\ ~log.timestamped /\ DecodeLog(log) # DecodeFailed} :
                    feed' = [feed EXCEPT !.queue = SubSeq(@, k + 1, Len(@)),
                                         !.yields = Append(@, [log |-> feed.queue[k],
                                                               gives |-> IF failed THEN Failure("header") ELSE DecodeLog(log)])]
  BY <1>4, <1>6
<1> QED
  BY <1>5, <1>6 DEF NextEvent

LEMMA FeedKept == FeedInv /\ UNCHANGED <<emitted, feed>> => FeedInv'
BY DEF FeedInv, FeedTypeOK, QueueInOrder, QueueIsFiltered, NothingLost, YieldsAreTrue

\* Between its subscription and its end a market feed gives every log of the
\* vocabulary its addresses emitted, in order and once, and an error only for a
\* log that cannot be read, wherever the socket dies (feeds/market.rs
\* MarketFeed::next_decoded, transport/ws.rs subscribe_logs).
THEOREM FeedsHaveNoHoles == Spec => []FeedHasNoHoles
<1>1. Init => FeedInv
  BY FeedStarts DEF Init
<1>2. FeedInv /\ [Next]_vars => FeedInv'
  <2> SUFFICES ASSUME FeedInv, [Next]_vars PROVE FeedInv'
    OBVIOUS
  <2>1. CASE UNCHANGED <<emitted, feed>>
    BY <2>1, FeedKept
  <2>2. CASE \E log \in Logs : Emit(log)
    BY <2>2, EmitKeepsFeed
  <2>3. CASE SubscribeFeed \/ Establish \/ StreamEnds
    BY <2>3, SubscribeKeepsFeed
  <2>4. CASE Forward
    BY <2>4, ForwardKeepsFeed
  <2>5. CASE NextEvent
    BY <2>5, NextEventKeepsFeed
  <2>6. Drop \/ Reconnect \/ LiveNext => UNCHANGED <<emitted, feed>>
    BY DEF Drop, Reconnect, LiveNext
  <2>7. FeedsNext => \/ \E log \in Logs : Emit(log)
                     \/ SubscribeFeed \/ Establish \/ StreamEnds \/ Forward \/ NextEvent
                     \/ UNCHANGED <<emitted, feed>>
    BY <2>6 DEF FeedsNext
  <2>8. [Next]_vars => FeedsNext \/ UNCHANGED <<emitted, feed>>
    BY DEF Next, vars, feeding
  <2> QED
    BY <2>1, <2>2, <2>3, <2>4, <2>5, <2>7, <2>8
<1>3. FeedInv => FeedHasNoHoles
  <2> SUFFICES ASSUME FeedInv PROVE FeedHasNoHoles
    OBVIOUS
  <2> DEFINE due == {p \in (feed.from + 1)..feed.at : Ours(emitted[p])}
  <2>1. /\ feed.queue \in Seq(Nat) /\ feed.yields \in Seq([log : Nat, gives : Gives])
        /\ feed.from \in Nat /\ feed.at \in Nat
    BY DEF FeedInv, FeedTypeOK
  <2>2. \A k \in DOMAIN feed.yields : feed.yields[k].log \in Nat
    <3>1. \A S : \A s \in Seq(S) : \A k \in DOMAIN s : s[k] \in S
      OBVIOUS
    <3>2. \A k \in DOMAIN feed.yields : feed.yields[k] \in [log : Nat, gives : Gives]
      BY <2>1, <3>1, Zenon
    <3> QED
      BY <3>2
  <2>3. ASSUME NEW k \in DOMAIN feed.yields, NEW p \in due, p < feed.yields[k].log
        PROVE  \E j \in 1..(k - 1) : feed.yields[j].log = p
    <3>1. ~ \E i \in DOMAIN feed.queue : feed.queue[i] = p
      <4>1. \A i \in DOMAIN feed.queue : feed.yields[k].log < feed.queue[i]
        BY <2>3 DEF FeedInv, QueueInOrder
      <4>2. p \in Int /\ feed.yields[k].log \in Int
        BY <2>1, <2>3, <2>2
      <4> QED
        BY <2>3, <4>1, <4>2
    <3>2. PICK j \in DOMAIN feed.yields : feed.yields[j].log = p
      BY <2>1, <2>3, <3>1 DEF FeedInv, NothingLost
    <3>3. j < k
      <4> SUFFICES ASSUME j >= k PROVE FALSE
        BY <2>1, <2>3, <3>2
      <4>1. j > k
        BY <2>1, <2>3, <3>2
      <4>2. k \in 1..(j - 1)
        BY <2>1, <3>2, <4>1
      <4>3. feed.yields[k].log < feed.yields[j].log
        BY <3>2, <4>2 DEF FeedInv, YieldsAreTrue
      <4>4. p \in Int /\ feed.yields[k].log \in Int
        BY <2>1, <2>3, <2>2
      <4> QED
        BY <2>3, <3>2, <4>3, <4>4
    <3>4. j \in 1..(k - 1)
      <4>1. DOMAIN feed.yields = 1..Len(feed.yields)
        BY <2>1
      <4> QED
        BY <3>2, <3>3, <4>1
    <3> QED
      BY <3>2, <3>4
  <2>4. feed.state = "lost" => due \subseteq {feed.yields[k].log : k \in DOMAIN feed.yields}
    BY <2>1 DEF FeedInv, NothingLost
  <2> QED
    BY <2>1, <2>3, <2>4 DEF FeedInv, YieldsAreTrue, Truthful, FeedHasNoHoles
<1> QED
  BY <1>1, <1>2, <1>3, PTL DEF Spec

-----------------------------------------------------------------------------
(***************************************************************************)
(* The chain.  A hash names one block for ever: the blocks of a fork have  *)
(* hashes no earlier block had.                                            *)
(***************************************************************************)

NodeInv ==
    /\ forks \in Nat
    /\ chain \in Seq(Nat \X Nat)
    /\ \A n \in 1..Height : chain[n] \in DOMAIN said /\ chain[n][1] = n
    /\ \A h \in DOMAIN said :
        /\ h \in Nat \X Nat
        /\ h[2] <= forks
        /\ h[2] = forks => h[1] <= Height

\* What no step takes back.
ChainGrows ==
    /\ Height' >= Height
    /\ \A h \in DOMAIN said : h \in DOMAIN said' /\ said'[h] = said[h]

LEMMA ExtendKeepsNode ==
    ASSUME NodeInv, NEW first \in 1..(Height + 1), NEW fork \in {forks, forks + 1},
           NEW hashes \in Seq(Nat \X Nat), NEW worlds,
           hashes # <<>>, first + Len(hashes) > Height,
           \A i \in DOMAIN hashes : hashes[i] = <<first + i - 1, fork>>,
           fork = forks => first = Height + 1,
           Extend(hashes, worlds), forks' = fork
    PROVE  NodeInv' /\ ChainGrows
<1>1. /\ forks \in Nat /\ fork \in Nat /\ Height \in Nat /\ first \in Nat /\ 1 <= first /\ first <= Height + 1
      /\ chain \in Seq(Nat \X Nat) /\ Len(hashes) \in Nat /\ Len(hashes) >= 1
      /\ DOMAIN hashes = 1..Len(hashes)
  BY DEF NodeInv, Height
<1>2. hashes[1] = <<first, fork>>
  <2>1. 1 \in DOMAIN hashes /\ first + 1 - 1 = first
    BY <1>1
  <2>2. hashes[1] = <<first + 1 - 1, fork>>
    BY <2>1
  <2> QED
    BY <2>1, <2>2
<1> DEFINE base == SubSeq(chain, 1, first - 1)
           new == {hashes[i] : i \in DOMAIN hashes}
<1>3. chain' = base \o hashes
  <2>1. hashes[1][1] = first
    BY <1>2
  <2> QED
    BY <2>1 DEF Extend
<1>4. /\ base \in Seq(Nat \X Nat) /\ Len(base) = first - 1
      /\ \A n \in 1..(first - 1) : base[n] = chain[n]
  <2>1. first \in 1..(Len(chain) + 1)
    BY DEF Height
  <2> QED
    BY <1>1, <2>1, Beginning
<1>5. /\ chain' \in Seq(Nat \X Nat) /\ Len(chain') = first - 1 + Len(hashes)
      /\ \A n \in 1..(first - 1) : chain'[n] = chain[n]
      /\ \A n \in first..(first - 1 + Len(hashes)) : chain'[n] = hashes[n - first + 1] /\ n - first + 1 \in DOMAIN hashes
  <2> HIDE DEF base
  <2>1. chain' \in Seq(Nat \X Nat) /\ Len(chain') = first - 1 + Len(hashes)
    <3>1. base \o hashes \in Seq(Nat \X Nat) /\ Len(base \o hashes) = Len(base) + Len(hashes)
      BY <1>4, Concatenated
    <3> QED
      BY <1>3, <1>4, <3>1
  <2>2. \A n \in 1..(first - 1) : chain'[n] = base[n]
    BY <1>1, <1>3, <1>4
  <2>3. \A n \in first..(first - 1 + Len(hashes)) : chain'[n] = hashes[n - (first - 1)]
    <3>1. \A n \in (Len(base) + 1)..(Len(base) + Len(hashes)) : (base \o hashes)[n] = hashes[n - Len(base)]
      BY <1>4, Concatenated
    <3>2. Len(base) + 1 = first
      BY <1>1, <1>4
    <3> QED
      BY <1>3, <1>4, <3>1, <3>2
  <2>4. \A n \in first..(first - 1 + Len(hashes)) : n - first + 1 = n - (first - 1) /\ n - first + 1 \in DOMAIN hashes
    BY <1>1
  <2> QED
    BY <1>4, <2>1, <2>2, <2>3, <2>4
<1>6. /\ DOMAIN said' = new \cup DOMAIN said
      /\ \A h \in DOMAIN said : h \notin new => said'[h] = said[h]
  <2> DEFINE fresh == [h \in new |-> [world |-> worlds[h[1]], mined |-> clock]]
  <2>1. said' = Over(fresh, said)
    BY Zenon DEF Extend
  <2>2. DOMAIN fresh = new
    OBVIOUS
  <2> HIDE DEF fresh, new
  <2>3. /\ DOMAIN Over(fresh, said) = DOMAIN fresh \cup DOMAIN said
        /\ \A h \in DOMAIN said : h \notin DOMAIN fresh => Over(fresh, said)[h] = said[h]
    BY OverIs
  <2> QED
    BY <2>1, <2>2, <2>3
<1>7. \A h \in DOMAIN said : h \notin new
  <2> SUFFICES ASSUME NEW i \in DOMAIN hashes, hashes[i] \in DOMAIN said PROVE FALSE
    OBVIOUS
  <2>1. hashes[i][1] = first + i - 1 /\ hashes[i][2] = fork /\ i \in Nat /\ i >= 1
    <3>1. i \in Nat /\ i >= 1
      BY <1>1
    <3>2. hashes[i] = <<first + i - 1, fork>>
      OBVIOUS
    <3> QED
      BY <3>1, <3>2
  <2>2. fork <= forks /\ (fork = forks => first + i - 1 <= Height)
    BY <2>1 DEF NodeInv
  <2> QED
    BY <1>1, <2>1, <2>2
<1>8. Height' = first - 1 + Len(hashes) /\ Height' >= Height
  BY <1>1, <1>5 DEF Height
<1>9. ChainGrows
  BY <1>6, <1>7, <1>8 DEF ChainGrows
<1>10. ASSUME NEW n \in 1..Height' PROVE chain'[n] \in DOMAIN said' /\ chain'[n][1] = n
  <2>1. CASE n < first
    <3>1. n \in 1..(first - 1) /\ n \in 1..Height
      BY <1>1, <1>10, <2>1
    <3> QED
      BY <1>5, <1>6, <3>1 DEF NodeInv
  <2>2. CASE n >= first
    <3>1. n \in first..(first - 1 + Len(hashes))
      BY <1>1, <1>8, <1>10, <2>2
    <3>2. chain'[n] = hashes[n - first + 1] /\ n - first + 1 \in DOMAIN hashes /\ n \in Nat
      BY <1>5, <1>1, <1>10, <3>1
    <3>3. hashes[n - first + 1] = <<n, fork>>
      <4>1. first + (n - first + 1) - 1 = n
        BY <1>1, <3>2
      <4>2. hashes[n - first + 1] = <<first + (n - first + 1) - 1, fork>>
        BY <3>2
      <4> QED
        BY <4>1, <4>2
    <3> QED
      BY <1>6, <3>2, <3>3
  <2> QED
    BY <1>1, <1>10, <2>1, <2>2
<1>11. ASSUME NEW h \in DOMAIN said'
       PROVE  h \in Nat \X Nat /\ h[2] <= forks' /\ (h[2] = forks' => h[1] <= Height')
  <2>1. CASE h \in DOMAIN said
    <3>1. h \in Nat \X Nat /\ h[2] <= forks /\ (h[2] = forks => h[1] <= Height) /\ h[1] \in Nat /\ h[2] \in Nat
      BY <2>1 DEF NodeInv
    <3> QED
      BY <1>1, <1>8, <3>1
  <2>2. CASE h \in new
    <3>1. PICK i \in DOMAIN hashes : h = <<first + i - 1, fork>>
      BY <2>2
    <3>2. PICK n : n = first + i - 1
      OBVIOUS
    <3>3. n \in Nat /\ n <= Height'
      BY <1>1, <1>8, <3>1, <3>2
    <3>4. h = <<n, fork>>
      BY <3>1, <3>2
    <3> QED
      BY <1>1, <3>3, <3>4
  <2> QED
    BY <1>6, <1>11, <2>1, <2>2
<1> QED
  BY <1>1, <1>5, <1>9, <1>10, <1>11 DEF NodeInv

LEMMA MineBlockKeepsNode ==
    ASSUME NodeInv, NEW world, MineBlock(world)
    PROVE  NodeInv' /\ ChainGrows
<1> DEFINE hashes == <<Hash(Height + 1, forks)>>
<1>1. Height \in Nat /\ forks \in Nat
  BY DEF NodeInv, Height
<1>2. /\ hashes \in Seq(Nat \X Nat) /\ hashes # <<>> /\ Len(hashes) = 1
      /\ \A i \in DOMAIN hashes : hashes[i] = <<Height + 1 + i - 1, forks>>
  BY <1>1 DEF Hash
<1>3. Extend(hashes, [n \in {Height + 1} |-> world]) /\ forks' = forks
  BY DEF MineBlock
<1> HIDE DEF hashes
<1> QED
  BY <1>1, <1>2, <1>3, ExtendKeepsNode

LEMMA ReorganizeKeepsNode ==
    ASSUME NodeInv, NEW world, Reorganize(world)
    PROVE  NodeInv' /\ ChainGrows
<1> DEFINE hashes == [i \in 1..(Depth + 1) |-> Hash(Height - Depth + i, forks + 1)]
           first == Height - Depth + 1
<1>1. Height \in Nat /\ forks \in Nat /\ Depth \in Nat /\ Height >= Depth + 1
  BY ChainAssumption DEF NodeInv, Height, Reorganize
<1>2. /\ hashes \in Seq(Nat \X Nat) /\ hashes # <<>> /\ Len(hashes) = Depth + 1
      /\ \A i \in DOMAIN hashes : hashes[i] = <<first + i - 1, forks + 1>>
      /\ first \in 1..(Height + 1)
  BY <1>1 DEF Hash
<1>3. \E worlds : Extend(hashes, worlds)
  BY DEF Reorganize
<1>4. forks' = forks + 1
  BY DEF Reorganize
<1>5. first + Len(hashes) > Height /\ (forks + 1 = forks => first = Height + 1)
  BY <1>1, <1>2
<1> HIDE DEF hashes, first
<1> QED
  BY <1>1, <1>2, <1>3, <1>4, <1>5, ExtendKeepsNode

LEMMA NodeKept ==
    ASSUME NodeInv, UNCHANGED <<chain, said, forks>>
    PROVE  NodeInv' /\ ChainGrows
BY DEF NodeInv, ChainGrows, Height

\* Every step leaves the blocks there were.
LEMMA NodeKeeps ==
    ASSUME NodeInv, [Next]_vars
    PROVE  NodeInv' /\ ChainGrows
<1>1. CASE UNCHANGED <<chain, said, forks>>
  BY <1>1, NodeKept
<1>2. CASE \E world : MineBlock(world)
  BY <1>2, MineBlockKeepsNode
<1>3. CASE \E world : Reorganize(world)
  BY <1>3, ReorganizeKeepsNode
<1>4. NodeNext => (\E world : MineBlock(world)) \/ (\E world : Reorganize(world)) \/ UNCHANGED <<chain, said, forks>>
  BY DEF NodeNext, Tick
<1>5. ReadsNext => UNCHANGED node
  BY DEF ReadsNext, BeginRead, Begin, Serve, Fault, Poll, Invalidate
<1>6. TradesNext(Calls, Theirs) => (\E world : MineBlock(world)) \/ UNCHANGED node
  BY DEF TradesNext, BeginTrade, Submit, SendFails, Receipt, TimeOut, MineOurs, MineTheirs
<1>7. FeedsNext => UNCHANGED node
  BY DEF FeedsNext, LiveNext
<1> QED
  BY <1>1, <1>2, <1>3, <1>4, <1>5, <1>6, <1>7 DEF Next, vars, node

LEMMA NodeStarts == ReadsInit => NodeInv
<1> SUFFICES ASSUME ReadsInit PROVE NodeInv
  OBVIOUS
<1>1. chain = [n \in 1..3 |-> Hash(n, 0)] /\ forks = 0
  BY DEF ReadsInit
<1>2. DOMAIN said = {Hash(n, 0) : n \in 1..3}
  BY DEF ReadsInit
<1>3. chain \in Seq(Nat \X Nat) /\ Len(chain) = 3
  BY <1>1 DEF Hash
<1> QED
  BY <1>1, <1>2, <1>3 DEF NodeInv, Height, Hash

-----------------------------------------------------------------------------
(***************************************************************************)
(* The reads.  That pinned answers agree is not inductive by itself: the   *)
(* block must be resolved before anything pinned to it is asked, must not  *)
(* be resolved again, and must stay known.                                 *)
(***************************************************************************)

PinnedOps == StateReads \cup {"get_snapshot"}

Header == R("header")
Resolved(job) == Header \in DOMAIN job.held

IsJob(job) ==
    DOMAIN job = {"op", "how", "at", "held", "asked", "answers", "begun", "since", "done", "refused"}

\* Not what a call pinned to a block may ask.
Unpinned == {"send", "preflight", "balance", "pool_price", "funding_rate"}

\* An answer to a pinned request is that of the job's own block; a batch's rows
\* may each fail, and a proof may leave slots out.
AsSaid(request, value, truth) ==
    CASE request.call = "rows" ->
            DOMAIN value = DOMAIN truth /\ \A k \in DOMAIN value : Failed(value[k]) \/ value[k] = truth[k]
      [] request.call = "get_proof" ->
            DOMAIN value \subseteq DOMAIN truth /\ \A t \in DOMAIN value : value[t] = truth[t]
      [] OTHER -> value = truth
OfItsBlock(job, request, answer) ==
    Pinned(job, request) /\ ~Failed(answer) =>
        Resolved(job) /\ AsSaid(request, answer.value, Says(request, WorldAt(BlockOf(job))))

\* What the live market has been told of and is now reading: the heads a
\* refresh is to cover.
Floor == IF live.state = "refreshing" THEN live.told - Len(live.heads) ELSE 0
Covers(number) == number \in Nat /\ number + SnapshotLag + Behind >= Floor

FollowsHead(job) == job.op = "pool" /\ job.how = "lagged"

\* An answer that resolves the block: one the chain has, and recent enough.
Resolves(job, request, answer) ==
    /\ request = Header /\ ~Failed(answer) =>
        /\ answer.value \in DOMAIN said
        /\ FollowsHead(job) => Covers(answer.value[1])
    /\ request = R("head") /\ FollowsHead(job) /\ ~Failed(answer) => Covers(answer.value)

HeldOK(job) ==
    \A r \in DOMAIN job.held :
        /\ OfItsBlock(job, r, job.held[r])
        /\ Resolves(job, r, job.held[r])
        /\ Failed(job.held[r]) => Alone(r)

\* What an operation may ask for, given what it holds.
MayAsk(job, request) ==
    /\ request \notin DOMAIN job.held
    /\ job.op \in PinnedOps => request.call \notin Unpinned
    /\ Pinned(job, request) => Resolved(job)
    /\ FollowsHead(job) /\ request = Header => R("head") \in DOMAIN job.held

AskedOK(job) == \A r \in job.asked : MayAsk(job, r)

AnswersOK(job) ==
    \A r \in DOMAIN job.answers :
        /\ MayAsk(job, r)
        /\ OfItsBlock(job, r, job.answers[r])
        /\ Resolves(job, r, job.answers[r])

EndsWhole(job) == Answered(job) => Due(job) = {}

JobOK(job) == IsJob(job) /\ HeldOK(job) /\ AskedOK(job) /\ AnswersOK(job) /\ EndsWhole(job)

JobsOK ==
    /\ \E S : jobs \in Seq(S)
    /\ \A i \in DOMAIN jobs : JobOK(jobs[i])

\* The live market reads one pool at a time, and covers what it was told.
LiveOK ==
    /\ DOMAIN live = {"state", "heads", "since", "told", "ok", "latest"}
    /\ live.told \in Nat /\ live.since \in Nat /\ \E S : live.heads \in Seq(S)
    /\ live.since + Len(live.heads) <= live.told /\ live.told <= Height
    /\ live.state \in {"none", "starting", "watching", "refreshing", "failed", "silent", "closed"}
    /\ live.state \in {"none", "starting"} => live.heads = <<>>
    /\ ~session.quotes => live.state = "none"
    /\ session.quotes =>
        IF live.state \in {"starting", "refreshing"} THEN Len(jobs) = 1 /\ FollowsHead(jobs[1]) ELSE jobs = <<>>
    /\ live.state = "watching" /\ live.ok =>
        /\ live.latest.whole
        /\ live.told - Len(live.heads) > live.since =>
            /\ live.latest.block[1] \in Nat
            /\ live.latest.block[1] + SnapshotLag + Behind >= live.told - Len(live.heads)

IInv == NodeInv /\ session \in Sessions /\ JobsOK /\ LiveOK

-----------------------------------------------------------------------------
(* What is due: the unheld requests of the first step not held whole.      *)

IsSeq(s) == \E S : s \in Seq(S)

LEMMA SequencesJoin ==
    ASSUME NEW s, NEW t, IsSeq(s), IsSeq(t)
    PROVE  /\ IsSeq(s \o t) /\ Len(s \o t) = Len(s) + Len(t)
           /\ Len(s) \in Nat /\ Len(t) \in Nat /\ DOMAIN s = 1..Len(s) /\ DOMAIN t = 1..Len(t)
           /\ DOMAIN (s \o t) = 1..(Len(s) + Len(t))
           /\ \A i \in 1..Len(s) : (s \o t)[i] = s[i]
           /\ \A i \in (Len(s) + 1)..(Len(s) + Len(t)) : (s \o t)[i] = t[i - Len(s)]
<1>1. PICK S, T : s \in Seq(S) /\ t \in Seq(T)
  BY DEF IsSeq
<1>2. s \in Seq(S \cup T) /\ t \in Seq(S \cup T)
  BY <1>1
<1>3. /\ s \o t \in Seq(S \cup T) /\ Len(s \o t) = Len(s) + Len(t)
      /\ \A i \in 1..Len(s) : (s \o t)[i] = s[i]
      /\ \A i \in (Len(s) + 1)..(Len(s) + Len(t)) : (s \o t)[i] = t[i - Len(s)]
  BY <1>2, Concatenated
<1>4. DOMAIN (s \o t) = 1..Len(s \o t)
  BY <1>3
<1> QED
  BY <1>1, <1>3, <1>4 DEF IsSeq

LEMMA OneStep ==
    ASSUME NEW step
    PROVE  IsSeq(<<step>>) /\ Len(<<step>>) = 1 /\ DOMAIN <<step>> = {1} /\ <<step>>[1] = step
<1>1. <<step>> \in Seq({step})
  OBVIOUS
<1>2. Len(<<step>>) = 1 /\ <<step>>[1] = step
  OBVIOUS
<1>3. DOMAIN <<step>> = 1..1
  BY <1>1, <1>2
<1>4. 1..1 = {1}
  OBVIOUS
<1>5. IsSeq(<<step>>)
  BY <1>1 DEF IsSeq
<1> QED
  BY <1>2, <1>3, <1>4, <1>5

LEMMA DueIs ==
    ASSUME NEW steps, NEW held, IsSeq(steps)
    PROVE  /\ \A r \in FirstUnheld(steps, held) :
                /\ r \notin DOMAIN held
                /\ \E i \in DOMAIN steps : r \in steps[i] /\ \A j \in 1..(i - 1) : steps[j] \subseteq DOMAIN held
           /\ FirstUnheld(steps, held) = {} => \A i \in DOMAIN steps : steps[i] \subseteq DOMAIN held
<1> DEFINE open == {i \in DOMAIN steps : Unheld(steps[i], held) # {}}
<1>1. DOMAIN steps = 1..Len(steps) /\ Len(steps) \in Nat
  BY DEF IsSeq
<1>2. \A i \in DOMAIN steps : Unheld(steps[i], held) = {} <=> steps[i] \subseteq DOMAIN held
  BY DEF Unheld, Holds
<1>3. CASE open = {}
  <2>1. FirstUnheld(steps, held) = {}
    BY <1>3 DEF FirstUnheld
  <2> QED
    BY <1>2, <1>3, <2>1
<1>4. CASE open # {}
  <2>1. FirstUnheld(steps, held) = Unheld(steps[Min(open)], held)
    BY <1>4 DEF FirstUnheld
  <2>2. Min(open) \in open /\ \A n \in open : Min(open) <= n
    <3>1. open \subseteq Nat
      BY <1>1
    <3> HIDE DEF open
    <3> QED
      BY <1>4, <3>1, MinIs
  <2>3. Min(open) \in DOMAIN steps /\ Unheld(steps[Min(open)], held) # {}
    BY <2>2
  <2>4. \A j \in 1..(Min(open) - 1) : steps[j] \subseteq DOMAIN held
    <3> SUFFICES ASSUME NEW j \in 1..(Min(open) - 1) PROVE j \notin open /\ j \in DOMAIN steps
      BY <1>2
    <3>1. Min(open) \in 1..Len(steps)
      BY <1>1, <2>3
    <3> DEFINE m == Min(open)
    <3> HIDE DEF m
    <3>2. m \in 1..Len(steps) /\ j \in 1..(m - 1) /\ m = Min(open)
      BY <3>1 DEF m
    <3>3. j \in 1..Len(steps) /\ ~(m <= j)
      BY <1>1, <3>2
    <3> QED
      BY <1>1, <2>2, <3>2, <3>3
  <2> HIDE DEF open
  <2>5. \A r \in Unheld(steps[Min(open)], held) : r \notin DOMAIN held /\ r \in steps[Min(open)]
    BY DEF Unheld, Holds
  <2> QED
    BY <2>1, <2>3, <2>4, <2>5
<1> QED
  BY <1>3, <1>4

\* Whatever the steps, what is due is not held.
LEMMA DueIsUnheld ==
    ASSUME NEW steps, NEW held, NEW r \in FirstUnheld(steps, held)
    PROVE  r \notin DOMAIN held
BY DEF FirstUnheld, Unheld, Holds

-----------------------------------------------------------------------------
(* The steps of a pinned read: what resolves the block comes first, and    *)
(* nothing in them is a call that cannot be pinned.                        *)

Avoids(calls, steps) == IsSeq(steps) /\ \A i \in DOMAIN steps : \A r \in steps[i] : r.call \notin calls

Pinnable(steps) == Avoids(Unpinned, steps)

\* And what no current read of more than one call is either.
Unread == Unpinned \cup {"liq_fee"}
Plain(steps) == Avoids(Unread, steps)

LEMMA AvoidsJoin ==
    ASSUME NEW calls, NEW s, NEW t, Avoids(calls, s), Avoids(calls, t)
    PROVE  Avoids(calls, s \o t)
<1>1. IsSeq(s) /\ IsSeq(t)
  BY DEF Avoids
<1> USE <1>1, SequencesJoin
<1>2. ASSUME NEW i \in DOMAIN (s \o t) PROVE \A r \in (s \o t)[i] : r.call \notin calls
  <2>1. i \in 1..(Len(s) + Len(t)) /\ Len(s) \in Nat /\ Len(t) \in Nat
    BY <1>2
  <2>2. CASE i \in 1..Len(s)
    <3>1. (s \o t)[i] = s[i] /\ i \in DOMAIN s
      BY <2>2
    <3> QED
      BY <3>1 DEF Avoids
  <2>3. CASE i \in (Len(s) + 1)..(Len(s) + Len(t))
    <3>1. (s \o t)[i] = t[i - Len(s)] /\ DOMAIN t = 1..Len(t)
      BY <2>3
    <3>2. i - Len(s) \in 1..Len(t)
      BY <2>1, <2>3
    <3> QED
      BY <3>1, <3>2 DEF Avoids
  <2> QED
    BY <2>1, <2>2, <2>3
<1> QED
  BY <1>2 DEF Avoids

LEMMA PinnableJoin ==
    ASSUME NEW s, NEW t, Pinnable(s), Pinnable(t)
    PROVE  Pinnable(s \o t)
BY AvoidsJoin DEF Pinnable

LEMMA PinnableOne ==
    ASSUME NEW step, \A r \in step : r.call \notin Unpinned
    PROVE  Pinnable(<<step>>)
BY OneStep DEF Pinnable, Avoids

LEMMA PlainJoin ==
    ASSUME NEW s, NEW t, Plain(s), Plain(t)
    PROVE  Plain(s \o t)
BY AvoidsJoin DEF Plain

LEMMA PlainOne ==
    ASSUME NEW step, \A r \in step : r.call \notin Unread
    PROVE  Plain(<<step>>)
BY OneStep DEF Plain, Avoids

LEMMA PlainNone == Plain(<<>>) /\ Pinnable(<<>>)
<1>1. <<>> \in Seq({})
  OBVIOUS
<1> QED
  BY <1>1 DEF Plain, Pinnable, Avoids, IsSeq

LEMMA PlainIsPinnable ==
    ASSUME NEW steps, Plain(steps)
    PROVE  Pinnable(steps)
BY DEF Plain, Pinnable, Avoids, Unread

LEMMA HandlePlain ==
    ASSUME NEW how
    PROVE  Plain(Handle(how))
<1>1. Plain(<<{R("head")}>>) /\ Plain(<<{R("header")}>>)
  BY PlainOne DEF R, Unread, Unpinned
<1>2. <<{R("head")}, {R("header")}>> = <<{R("head")}>> \o <<{R("header")}>>
  OBVIOUS
<1> QED
  BY <1>1, <1>2, PlainJoin DEF Handle

LEMMA FeesPinnable ==
    ASSUME NEW held, NEW request
    PROVE  Pinnable(FeesAfter(held, request))
<1>1. ASSUME NEW fees PROVE Pinnable(FeeSteps(held, fees))
  <2> DEFINE a == <<{At("fees", fees)}>>
             b == IF Holds(held, At("fees", fees)) /\ Len(Got(held, At("fees", fees))) = 1
                  THEN <<{At("liq_fee", fees)}>> ELSE <<>>
             c == <<{At("bounds", fees)}>>
  <2>1. Pinnable(a) /\ Pinnable(<<{At("liq_fee", fees)}>>) /\ Pinnable(c)
    BY PinnableOne DEF At, Unpinned
  <2>2. Pinnable(b)
    BY <2>1, PlainNone
  <2>3. FeeSteps(held, fees) = (a \o b) \o c
    BY DEF FeeSteps
  <2> HIDE DEF a, b, c
  <2> QED
    BY <2>1, <2>2, <2>3, PinnableJoin
<1> QED
  BY <1>1, PlainNone DEF FeesAfter

LEMMA BatchPlain ==
    ASSUME NEW op, NEW held
    PROVE  Plain(Batch(op, held))
<1>1. ASSUME NEW c, NEW r \in ChunkReads(op, held, c)
      PROVE  r.call \in {"rows", "extsload", "get_proof", "storage_at"}
  <2>1. RowsOf(c).call = "rows"
    BY DEF RowsOf
  <2>2. Growth(held, c).call = "extsload" /\ Proof(held, c).call = "get_proof"
    BY DEF Growth, Proof
  <2>3. \A t : TickRead(c, t).call = "storage_at"
    BY DEF TickRead
  <2>4. \A q \in EquityReads(held, c) : q.call \in {"rows", "extsload", "get_proof", "storage_at"}
    BY <2>2, <2>3 DEF EquityReads, TickReads
  <2> QED
    BY <1>1, <2>1, <2>4 DEF ChunkReads
<1> QED
  BY <1>1, PlainOne DEF Batch, Unread, Unpinned

LEMMA ReadStepsPlain ==
    ASSUME NEW op \in StateReads, NEW held
    PROVE  Plain(ReadSteps(op, held))
<1>1. ASSUME NEW call, call \notin Unread PROVE Plain(<<{R(call)}>>)
  BY <1>1, PlainOne DEF R
<1>2. Plain(MarkFrom)
  <2>1. MarkFrom = <<{R("index"), R("emas")}>>
    BY DEF MarkFrom
  <2> QED
    BY <2>1, PlainOne DEF R, Unread, Unpinned
<1>3. Plain(Mark) /\ Plain(MakerMarket) /\ Plain(TakerMarket)
  <2>1. Plain(<<{R("perp_views")}>>) /\ Plain(<<{R("maker_views")}>>) /\ Plain(<<{R("taker_views")}>>)
    BY <1>1 DEF Unread, Unpinned
  <2> QED
    BY <1>2, <2>1, PlainJoin DEF Mark, MakerMarket, TakerMarket, PerpViews
<1>4. CASE op \in OneCallReads
  <2>1. CallOf(op) \notin Unread
    BY <1>4 DEF CallOf, OneCallReads, Unread, Unpinned
  <2>2. ReadSteps(op, held) = <<{R(CallOf(op))}>>
    BY <1>4 DEF ReadSteps, OneCallReads, PositionReads
  <2> QED
    BY <1>1, <2>1, <2>2
<1>5. CASE op \in PositionReads
  <2>1. Plain(<<{At(op, Asked[1])}>>)
    BY <1>5, PlainOne DEF At, PositionReads, Unread, Unpinned
  <2> QED
    BY <1>5, <2>1 DEF ReadSteps, PositionReads, OneCallReads
<1>6. CASE op = "margin_ratios"
  <2>1. Plain(<<{R("modules")}>>) /\ Plain(<<{R("maker_ratios"), R("taker_ratios")}>>)
    BY PlainOne DEF R, Unread, Unpinned
  <2>2. MarginRatios = <<{R("modules")}>> \o <<{R("maker_ratios"), R("taker_ratios")}>>
    BY DEF MarginRatios
  <2>3. ReadSteps(op, held) = MarginRatios
    BY <1>6 DEF ReadSteps, OneCallReads, PositionReads
  <2> QED
    BY <2>1, <2>2, <2>3, PlainJoin
<1>7. CASE op = "emas"
  <2>1. Plain(<<{R("rates"), R("emas")}>>)
    BY PlainOne DEF R, Unread, Unpinned
  <2>2. ReadSteps(op, held) = Emas
    BY <1>7 DEF ReadSteps, OneCallReads, PositionReads
  <2> QED
    BY <2>1, <2>2 DEF Emas
<1>8. CASE op = "mark"
  BY <1>3, <1>8 DEF ReadSteps, OneCallReads, PositionReads
<1>9. CASE op = "pool"
  <2> DEFINE ticks == IF Holds(held, R("bitmaps")) /\ Got(held, R("bitmaps")) # {}
                      THEN <<{[call |-> "ticks", part |-> <<>>, ticks |-> Got(held, R("bitmaps"))]}>> ELSE <<>>
  <2>1. Plain(ticks)
    BY PlainOne, PlainNone DEF Unread, Unpinned
  <2>2. Plain(<<{R("bitmaps")}>>) /\ Plain(<<{ImpactBounds}>>)
    BY <1>1 DEF Unread, Unpinned, ImpactBounds
  <2>3. TickMap(held) = <<{R("bitmaps")}>> \o ticks
    BY DEF TickMap
  <2> HIDE DEF ticks
  <2>4. ReadSteps(op, held) = (Mark \o <<{ImpactBounds}>>) \o TickMap(held)
    BY <1>9 DEF ReadSteps, OneCallReads, PositionReads, Pool
  <2> QED
    BY <1>3, <2>1, <2>2, <2>3, <2>4, PlainJoin
<1>10. CASE op = "maker_equities"
  <2>1. ReadSteps(op, held) = MakerMarket \o Batch("maker_equities", held)
    BY <1>10 DEF ReadSteps, OneCallReads, PositionReads, MakerEquities
  <2> QED
    BY <1>3, <2>1, BatchPlain, PlainJoin
<1>11. CASE op = "taker_healths"
  <2>1. ReadSteps(op, held) = TakerMarket \o Batch("taker_healths", held)
    BY <1>11 DEF ReadSteps, OneCallReads, PositionReads, TakerHealths
  <2> QED
    BY <1>3, <2>1, BatchPlain, PlainJoin
<1>12. CASE op \in {"positions", "owners", "maker_bands"}
  <2>1. ReadSteps(op, held) = Batch(op, held)
    BY <1>12 DEF ReadSteps, OneCallReads, PositionReads
  <2> QED
    BY <2>1, BatchPlain
<1> QED
  BY <1>4, <1>5, <1>6, <1>7, <1>8, <1>9, <1>10, <1>11, <1>12 DEF StateReads, BatchReads

\* The header is a step of its own; before it only the head and the immutables
\* are asked for, and the head is when the handle is a lagged one.
Led(steps, how) ==
    \E k \in DOMAIN steps :
        /\ steps[k] = {Header}
        /\ \A i \in 1..(k - 1) : \A r \in steps[i] : r.call \in {"head", "pool_id", "pool_key"}
        /\ how = "lagged" => \E i \in 1..(k - 1) : R("head") \in steps[i]

LEMMA LedThen ==
    ASSUME NEW s, NEW t, NEW how, IsSeq(s), IsSeq(t), Led(s, how)
    PROVE  Led(s \o t, how)
<1>1. PICK k \in DOMAIN s :
        /\ s[k] = {Header}
        /\ \A i \in 1..(k - 1) : \A r \in s[i] : r.call \in {"head", "pool_id", "pool_key"}
        /\ how = "lagged" => \E i \in 1..(k - 1) : R("head") \in s[i]
  BY DEF Led
<1>2. /\ DOMAIN s = 1..Len(s) /\ Len(s) \in Nat /\ Len(t) \in Nat
      /\ DOMAIN (s \o t) = 1..(Len(s) + Len(t)) /\ \A i \in 1..Len(s) : (s \o t)[i] = s[i]
  BY SequencesJoin
<1>3. k \in DOMAIN (s \o t) /\ \A i \in 1..(k - 1) : i \in 1..Len(s)
  BY <1>2
<1> QED
  BY <1>1, <1>2, <1>3 DEF Led

LEMMA HandleForLed ==
    ASSUME NEW op, NEW how
    PROVE  Led(HandleFor(op, how), how) /\ Plain(HandleFor(op, how))
<1> DEFINE immutable == <<Immutables>>
<1>1. Led(Handle(how), how)
  <2>1. CASE how = "number"
    <3>1. Handle(how) = <<{R("header")}>>
      BY <2>1 DEF Handle
    <3> QED
      BY <2>1, <3>1, OneStep DEF Led, Header
  <2>2. CASE how # "number"
    <3>1. Handle(how) = <<{R("head")}, {R("header")}>>
      BY <2>2 DEF Handle
    <3>2. DOMAIN Handle(how) = 1..2
      BY <3>1
    <3>3. 2 \in 1..2 /\ 1 \in 1..(2 - 1) /\ \A i \in 1..(2 - 1) : i = 1
      OBVIOUS
    <3>4. Handle(how)[2] = {Header} /\ Handle(how)[1] = {R("head")} /\ R("head").call = "head"
      BY <3>1 DEF Header, R
    <3> QED
      BY <3>2, <3>3, <3>4 DEF Led
  <2> QED
    BY <2>1, <2>2
<1>2. Plain(immutable) /\ Plain(Handle(how))
  BY PlainOne, HandlePlain DEF Immutables, R, Unread, Unpinned
<1>3. IsSeq(immutable) /\ IsSeq(Handle(how))
  BY <1>2 DEF Plain, Avoids
<1>4. Led(immutable \o Handle(how), how)
  <2>1. PICK k \in DOMAIN Handle(how) :
        /\ Handle(how)[k] = {Header}
        /\ \A i \in 1..(k - 1) : \A r \in Handle(how)[i] : r.call \in {"head", "pool_id", "pool_key"}
        /\ how = "lagged" => \E i \in 1..(k - 1) : R("head") \in Handle(how)[i]
    BY <1>1 DEF Led
  <2>2. /\ DOMAIN (immutable \o Handle(how)) = 1..(1 + Len(Handle(how)))
        /\ (immutable \o Handle(how))[1] = Immutables
        /\ \A i \in 2..(1 + Len(Handle(how))) : (immutable \o Handle(how))[i] = Handle(how)[i - 1]
        /\ DOMAIN Handle(how) = 1..Len(Handle(how)) /\ Len(Handle(how)) \in Nat
    <3>1. Len(immutable) = 1 /\ immutable[1] = Immutables
      BY OneStep
    <3> DEFINE handle == Handle(how)
    <3> HIDE DEF immutable, handle
    <3>2. IsSeq(immutable) /\ IsSeq(handle)
      BY <1>3 DEF handle
    <3>3. /\ Len(handle) \in Nat /\ DOMAIN handle = 1..Len(handle)
          /\ DOMAIN (immutable \o handle) = 1..(Len(immutable) + Len(handle))
          /\ \A i \in 1..Len(immutable) : (immutable \o handle)[i] = immutable[i]
          /\ \A i \in (Len(immutable) + 1)..(Len(immutable) + Len(handle)) :
                (immutable \o handle)[i] = handle[i - Len(immutable)]
      BY <3>2, SequencesJoin
    <3>4. /\ DOMAIN (immutable \o handle) = 1..(1 + Len(handle))
          /\ (immutable \o handle)[1] = Immutables
          /\ \A i \in 2..(1 + Len(handle)) : (immutable \o handle)[i] = handle[i - 1]
      BY <3>1, <3>3
    <3> QED
      BY <3>3, <3>4 DEF handle
  <2>3. PICK m : m = k + 1 /\ m \in 1..(1 + Len(Handle(how))) /\ m \in 2..(1 + Len(Handle(how))) /\ m - 1 = k /\ k \in Nat
    BY <2>2
  <2>4. \A i \in 1..(m - 1) : i = 1 \/ (i - 1 \in 1..(k - 1) /\ i \in 2..(1 + Len(Handle(how))))
    BY <2>2, <2>3
  <2>5. \A i \in 1..(k - 1) : i + 1 \in 1..(m - 1) /\ i + 1 \in 2..(1 + Len(Handle(how))) /\ i + 1 - 1 = i
    BY <2>2, <2>3
  <2>6. \A r \in Immutables : r.call \in {"head", "pool_id", "pool_key"}
    BY DEF Immutables, R
  <2> DEFINE steps == immutable \o Handle(how)
  <2>7. steps[m] = {Header}
    BY <2>1, <2>2, <2>3
  <2>8. \A i \in 1..(m - 1) : \A r \in steps[i] : r.call \in {"head", "pool_id", "pool_key"}
    BY <2>1, <2>2, <2>4, <2>6
  <2>9. how = "lagged" => \E i \in 1..(m - 1) : R("head") \in steps[i]
    <3>1. SUFFICES ASSUME how = "lagged"
                   PROVE  \E i \in 1..(m - 1) : R("head") \in steps[i]
      OBVIOUS
    <3>2. PICK i \in 1..(k - 1) : R("head") \in Handle(how)[i]
      BY <2>1, <3>1
    <3>3. R("head") \in steps[i + 1] /\ i + 1 \in 1..(m - 1)
      <4>1. i + 1 \in 1..(m - 1) /\ i + 1 \in 2..(1 + Len(Handle(how))) /\ i + 1 - 1 = i
        BY <2>5
      <4>2. steps[i + 1] = Handle(how)[i + 1 - 1]
        BY <2>2, <4>1
      <4> QED
        BY <3>2, <4>1, <4>2
    <3> QED
      BY <3>3
  <2>10. m \in DOMAIN steps
    BY <2>2, <2>3
  <2> HIDE DEF steps
  <2>11. Led(steps, how)
    BY <2>7, <2>8, <2>9, <2>10 DEF Led
  <2> QED
    BY <2>11 DEF steps
<1> HIDE DEF immutable
<1>5. Led(Handle(how) \o immutable, how)
  BY <1>1, <1>3, LedThen
<1>6. Plain(immutable \o Handle(how)) /\ Plain(Handle(how) \o immutable)
  BY <1>2, PlainJoin
<1>7. HandleFor(op, how) \in {Handle(how), immutable \o Handle(how), Handle(how) \o immutable}
  BY DEF HandleFor, immutable
<1> QED
  BY <1>1, <1>2, <1>4, <1>5, <1>6, <1>7

LEMMA StepsLed ==
    ASSUME NEW op \in PinnedOps, NEW how, NEW held
    PROVE  /\ Pinnable(Steps(op, how, held))
           /\ op \in StateReads => Plain(Steps(op, how, held)) /\ Led(Steps(op, how, held), how)
           /\ op = "get_snapshot" => Led(Steps(op, how, held), "lagged")
<1>1. CASE op \in StateReads
  <2>1. Steps(op, how, held) = HandleFor(op, how) \o ReadSteps(op, held)
    BY <1>1 DEF Steps, StateReads, HeadReads, OneCallReads, PositionReads, BatchReads
  <2>2. Led(HandleFor(op, how), how) /\ Plain(HandleFor(op, how)) /\ Plain(ReadSteps(op, held))
    BY <1>1, HandleForLed, ReadStepsPlain
  <2>3. Plain(HandleFor(op, how) \o ReadSteps(op, held)) /\ Pinnable(HandleFor(op, how) \o ReadSteps(op, held))
    BY <2>2, PlainJoin, PlainIsPinnable
  <2>4. Led(HandleFor(op, how) \o ReadSteps(op, held), how)
    BY <2>2, LedThen DEF Plain, Avoids
  <2>5. op # "get_snapshot"
    BY <1>1 DEF StateReads, OneCallReads, PositionReads, BatchReads
  <2> QED
    BY <2>1, <2>3, <2>4, <2>5
<1>2. CASE op = "get_snapshot"
  <2> DEFINE views == <<{R("snapshot_views")}>>
             fees == FeesAfter(held, R("snapshot_views"))
  <2>1. Steps(op, how, held) = ((Handle("lagged") \o views) \o MarkFrom) \o fees
    <3>1. Steps(op, how, held) = Snapshot(held)
      BY <1>2 DEF Steps, HeadReads, StateReads, OneCallReads, PositionReads, BatchReads
    <3> QED
      BY <3>1 DEF Snapshot
  <2>2. Pinnable(views) /\ Pinnable(MarkFrom)
    <3>1. MarkFrom = <<{R("index"), R("emas")}>>
      BY DEF MarkFrom
    <3> QED
      BY <3>1, PinnableOne DEF R, Unpinned
  <2>3. Pinnable(fees)
    BY FeesPinnable
  <2>4. Led(Handle("lagged"), "lagged") /\ Pinnable(Handle("lagged"))
    <3>1. HandleFor("mark", "lagged") = Handle("lagged")
      BY DEF HandleFor
    <3> QED
      BY <3>1, HandleForLed, PlainIsPinnable
  <2> HIDE DEF views, fees
  <2>5. Led(Handle("lagged") \o views, "lagged") /\ Pinnable(Handle("lagged") \o views)
    BY <2>2, <2>4, LedThen, PinnableJoin DEF Pinnable, Avoids
  <2>6. /\ Led((Handle("lagged") \o views) \o MarkFrom, "lagged")
        /\ Pinnable((Handle("lagged") \o views) \o MarkFrom)
    BY <2>2, <2>5, LedThen, PinnableJoin DEF Pinnable, Avoids
  <2>7. /\ Led(((Handle("lagged") \o views) \o MarkFrom) \o fees, "lagged")
        /\ Pinnable(((Handle("lagged") \o views) \o MarkFrom) \o fees)
    BY <2>3, <2>6, LedThen, PinnableJoin DEF Pinnable, Avoids
  <2>8. op \notin StateReads
    BY <1>2 DEF StateReads, OneCallReads, PositionReads, BatchReads
  <2> QED
    BY <2>1, <2>7, <2>8, <1>2
<1> QED
  BY <1>1, <1>2 DEF PinnedOps

\* What is due may be asked.
LEMMA DueMayBeAsked ==
    ASSUME NEW job, NEW r \in Due(job)
    PROVE  MayAsk(job, r)
<1> DEFINE steps == Steps(job.op, job.how, job.held)
<1>1. r \in FirstUnheld(steps, job.held) /\ r \notin DOMAIN job.held
  BY DueIsUnheld DEF Due
<1>2. job.op \in StateReads => job.op \in PinnedOps
  BY DEF PinnedOps
<1>3. CASE job.op \notin PinnedOps
  <2>1. ~Pinned(job, r) /\ ~FollowsHead(job)
    BY <1>3 DEF Pinned, FollowsHead, PinnedOps, StateReads
  <2> QED
    BY <1>1, <1>3, <2>1 DEF MayAsk
<1>4. CASE job.op \in PinnedOps
  <2>1. PICK how : /\ Pinnable(steps) /\ Led(steps, how)
                   /\ FollowsHead(job) => how = "lagged"
    BY <1>4, StepsLed DEF PinnedOps, FollowsHead, StateReads
  <2> HIDE DEF steps
  <2>2. PICK k \in DOMAIN steps :
        /\ steps[k] = {Header}
        /\ \A i \in 1..(k - 1) : \A q \in steps[i] : q.call \in {"head", "pool_id", "pool_key"}
        /\ how = "lagged" => \E i \in 1..(k - 1) : R("head") \in steps[i]
    BY <2>1 DEF Led
  <2>3. PICK i \in DOMAIN steps : r \in steps[i] /\ \A j \in 1..(i - 1) : steps[j] \subseteq DOMAIN job.held
    BY <1>1, <2>1, DueIs DEF Pinnable, Avoids
  <2>4. DOMAIN steps = 1..Len(steps) /\ Len(steps) \in Nat
    BY <2>1, SequencesJoin DEF Pinnable, Avoids
  <2>5. r.call \notin Unpinned
    BY <2>1, <2>3 DEF Pinnable, Avoids
  <2>6. Pinned(job, r) => Resolved(job)
    <3> SUFFICES ASSUME Pinned(job, r) PROVE Resolved(job)
      OBVIOUS
    <3>1. r.call \notin {"head", "header", "pool_id", "pool_key"}
      BY DEF Pinned
    <3>2. r # Header
      BY <3>1 DEF Header, R
    <3>3. ~(i \in 1..(k - 1)) /\ i # k
      BY <2>2, <2>3, <3>1, <3>2
    <3>4. k \in 1..(i - 1)
      BY <2>4, <3>3
    <3> QED
      BY <2>2, <2>3, <3>4 DEF Resolved
  <2>7. FollowsHead(job) /\ r = Header => R("head") \in DOMAIN job.held
    <3> SUFFICES ASSUME FollowsHead(job), r = Header PROVE R("head") \in DOMAIN job.held
      OBVIOUS
    <3>1. r.call = "header"
      BY DEF Header, R
    <3>2. ~(i \in 1..(k - 1))
      BY <2>2, <2>3, <3>1
    <3>3. \A j \in 1..(k - 1) : j \in 1..(i - 1)
      BY <2>4, <3>2
    <3> QED
      BY <2>1, <2>2, <2>3, <3>3
  <2> QED
    BY <1>1, <2>5, <2>6, <2>7 DEF MayAsk
<1> QED
  BY <1>3, <1>4
-----------------------------------------------------------------------------
(* What an operation comes to hold.                                        *)

\* What is held stays, and what is added is sound by what was held already.
LEMMA HeldGrows ==
    ASSUME NEW job, NEW after, NEW more, HeldOK(job),
           after.op = job.op, after.how = job.how, after.held = Over(more, job.held),
           \A r \in DOMAIN more :
                /\ r \notin DOMAIN job.held
                /\ OfItsBlock(job, r, more[r])
                /\ Resolves(job, r, more[r])
                /\ Failed(more[r]) => Alone(r)
    PROVE  HeldOK(after)
<1>1. /\ DOMAIN after.held = DOMAIN more \cup DOMAIN job.held
      /\ \A r \in DOMAIN more : after.held[r] = more[r]
      /\ \A r \in DOMAIN job.held : r \notin DOMAIN more => after.held[r] = job.held[r]
  <2>1. /\ DOMAIN Over(more, job.held) = DOMAIN more \cup DOMAIN job.held
        /\ \A r \in DOMAIN more : Over(more, job.held)[r] = more[r]
        /\ \A r \in DOMAIN job.held : r \notin DOMAIN more => Over(more, job.held)[r] = job.held[r]
    BY OverIs
  <2> QED
    BY <2>1
<1>2. /\ FollowsHead(after) = FollowsHead(job)
      /\ \A r : Pinned(after, r) = Pinned(job, r)
  BY DEF FollowsHead, Pinned
<1>3. Resolved(job) => Resolved(after) /\ BlockOf(after) = BlockOf(job)
  <2> SUFFICES ASSUME Header \in DOMAIN job.held PROVE Resolved(after) /\ BlockOf(after) = BlockOf(job)
    BY DEF Resolved
  <2>1. Header \notin DOMAIN more
    OBVIOUS
  <2> QED
    BY <1>1, <2>1 DEF Resolved, BlockOf, Got, Header
<1>4. \A r, answer : OfItsBlock(job, r, answer) => OfItsBlock(after, r, answer)
  BY <1>2, <1>3 DEF OfItsBlock
<1>5. \A r, answer : Resolves(job, r, answer) => Resolves(after, r, answer)
  BY <1>2 DEF Resolves
<1>6. ASSUME NEW r \in DOMAIN after.held
      PROVE  /\ OfItsBlock(after, r, after.held[r]) /\ Resolves(after, r, after.held[r])
             /\ Failed(after.held[r]) => Alone(r)
  <2>1. CASE r \in DOMAIN more
    BY <1>1, <1>4, <1>5, <2>1
  <2>2. CASE r \notin DOMAIN more
    <3>1. r \in DOMAIN job.held /\ after.held[r] = job.held[r]
      BY <1>1, <1>6, <2>2
    <3> QED
      BY <1>4, <1>5, <3>1 DEF HeldOK
  <2> QED
    BY <2>1, <2>2
<1> QED
  BY <1>6 DEF HeldOK

\* The cache answers nothing that is pinned to a block, and not the block.
LEMMA CachedIsSound ==
    ASSUME NEW job, NEW r \in Due(job), NEW now, FromCache(r, now) # None
    PROVE  /\ r \notin DOMAIN job.held /\ r # Header /\ r # R("head")
           /\ OfItsBlock(job, r, FromCache(r, now))
           /\ Resolves(job, r, FromCache(r, now))
           /\ Failed(FromCache(r, now)) => Alone(r)
<1>1. MayAsk(job, r)
  BY DueMayBeAsked
<1>2. \A v : ~Failed(Value(v))
  BY DEF Failed, Value
<1>3. CASE KeyOf(r) # None /\ CacheGet(cache, KeyOf(r), now) # None
  <2>1. r.call \in {"balance", "pool_price", "funding_rate", "fees", "bounds"}
    BY <1>3 DEF KeyOf
  <2>2. ~Pinned(job, r)
    BY <1>1, <2>1 DEF Pinned, MayAsk, PinnedOps, Unpinned
  <2>3. FromCache(r, now) = Value(CacheGet(cache, KeyOf(r), now))
    BY <1>3, <2>1 DEF FromCache
  <2>4. r # Header /\ r # R("head")
    BY <2>1 DEF Header, R
  <2> QED
    BY <1>1, <1>2, <2>2, <2>3, <2>4 DEF OfItsBlock, Resolves, MayAsk
<1>4. CASE ~(KeyOf(r) # None /\ CacheGet(cache, KeyOf(r), now) # None) /\ r.call \in {"pool_id", "pool_key"} /\ immutables
  <2>1. FromCache(r, now) = Value(HeadWorld.era)
    BY <1>4 DEF FromCache
  <2>2. ~Pinned(job, r) /\ r # Header /\ r # R("head")
    BY <1>4 DEF Pinned, Header, R
  <2> QED
    BY <1>1, <1>2, <2>1, <2>2 DEF OfItsBlock, Resolves, MayAsk
<1>5. CASE ~(KeyOf(r) # None /\ CacheGet(cache, KeyOf(r), now) # None) /\ r.call = "get_proof" /\ ~proofs
  <2>1. FromCache(r, now) = Failure("latched")
    BY <1>5 DEF FromCache
  <2>2. Failed(FromCache(r, now)) /\ Alone(r) /\ r # Header /\ r # R("head")
    BY <1>5, <2>1 DEF Failed, Failure, Alone, Header, R
  <2> QED
    BY <1>1, <2>2 DEF OfItsBlock, Resolves, MayAsk
<1> QED
  BY <1>3, <1>4, <1>5 DEF FromCache

\* With what the cache has, an operation is as sound as it was.
LEMMA HitIs ==
    ASSUME NEW job, NEW now, IsJob(job), HeldOK(job), job.answers = << >>
    PROVE  /\ IsJob(Hit(job, now)) /\ HeldOK(Hit(job, now))
           /\ \A f \in DOMAIN job : f # "held" => Hit(job, now)[f] = job[f]
           /\ \A r \in {Header, R("head")} : r \in DOMAIN Hit(job, now).held => r \in DOMAIN job.held
<1> DEFINE more == Hits(Due(job) \ DOMAIN job.answers, now)
           after == Hit(job, now)
<1>1. /\ \A r \in DOMAIN more : r \in Due(job) /\ FromCache(r, now) # None /\ more[r] = FromCache(r, now)
  BY DEF Hits
<1>2. after = [job EXCEPT !.held = Over(more, @)]
  BY DEF Hit
<1> HIDE DEF more, after
<1>3. /\ DOMAIN after = DOMAIN job /\ after.held = Over(more, job.held)
      /\ \A f \in DOMAIN job : f # "held" => after[f] = job[f]
  BY <1>2 DEF IsJob
<1>4. after.op = job.op /\ after.how = job.how
  BY <1>3 DEF IsJob
<1>5. \A r \in DOMAIN more :
        /\ r \notin DOMAIN job.held /\ r # Header /\ r # R("head")
        /\ OfItsBlock(job, r, more[r])
        /\ Resolves(job, r, more[r])
        /\ Failed(more[r]) => Alone(r)
  BY <1>1, CachedIsSound
<1>6. HeldOK(after)
  BY <1>3, <1>4, <1>5, HeldGrows
<1>7. DOMAIN Over(more, job.held) = DOMAIN more \cup DOMAIN job.held
  BY DEF Over
<1> QED
  BY <1>3, <1>5, <1>6, <1>7 DEF IsJob, after

\* At its await an operation asks for what is due.
LEMMA ResumedIsSound ==
    ASSUME NEW job, NEW now, IsJob(job), HeldOK(job), job.answers = << >>
    PROVE  /\ JobOK(Resume(job, now))
           /\ Resume(job, now).op = job.op /\ Resume(job, now).how = job.how
           /\ Resume(job, now).answers = << >>
           /\ \A r \in {Header, R("head")} : r \in DOMAIN Resume(job, now).held => r \in DOMAIN job.held
<1> DEFINE once == Hit(job, now)
           twice == Hit(once, now)
           after == AtAwait(twice, now)
<1>1. /\ IsJob(once) /\ HeldOK(once)
      /\ \A f \in DOMAIN job : f # "held" => once[f] = job[f]
      /\ \A r \in {Header, R("head")} : r \in DOMAIN once.held => r \in DOMAIN job.held
  BY HitIs
<1>2. once.answers = << >> /\ once.op = job.op /\ once.how = job.how
  BY <1>1 DEF IsJob
<1>3. /\ IsJob(twice) /\ HeldOK(twice)
      /\ \A f \in DOMAIN once : f # "held" => twice[f] = once[f]
      /\ \A r \in {Header, R("head")} : r \in DOMAIN twice.held => r \in DOMAIN once.held
  <2> HIDE DEF once
  <2> QED
    BY <1>1, <1>2, HitIs
<1>4. twice.answers = << >> /\ twice.op = job.op /\ twice.how = job.how
  BY <1>1, <1>2, <1>3 DEF IsJob
<1>5. Resume(job, now) = after
  BY DEF Resume
<1> HIDE DEF once, twice
<1>6. /\ DOMAIN after = DOMAIN twice /\ after.op = twice.op /\ after.how = twice.how /\ after.held = twice.held
      /\ after.answers = << >> /\ after.asked = Due(twice) \ DOMAIN twice.answers
      /\ after.done = (Due(twice) = {})
  BY <1>3, <1>4 DEF AtAwait, Waiting, IsJob
<1> HIDE DEF after
<1>7. Due(after) = Due(twice)
  BY <1>6 DEF Due
<1>8. HeldOK(after)
  BY <1>3, <1>6 DEF HeldOK, OfItsBlock, Resolves, Pinned, Resolved, BlockOf, FollowsHead
<1>9. AskedOK(after)
  <2>1. \A r \in after.asked : r \in Due(after)
    BY <1>6, <1>7
  <2> QED
    BY <2>1, DueMayBeAsked DEF AskedOK
<1>10. AnswersOK(after)
  BY <1>6 DEF AnswersOK
<1>11. EndsWhole(after)
  BY <1>6, <1>7 DEF EndsWhole, Answered
<1>12. IsJob(after)
  BY <1>3, <1>6 DEF IsJob
<1> QED
  BY <1>1, <1>2, <1>3, <1>4, <1>5, <1>6, <1>8, <1>9, <1>10, <1>11, <1>12 DEF JobOK

\* An operation begun holds nothing but what the cache had.
LEMMA NewJobIsSound ==
    ASSUME NEW op, NEW how, NEW number, NEW now
    PROVE  LET job == Resume(NewJob(op, how, number), now) IN
           /\ JobOK(job) /\ job.op = op /\ job.how = how /\ job.answers = << >>
           /\ Header \notin DOMAIN job.held /\ R("head") \notin DOMAIN job.held
<1> DEFINE new == NewJob(op, how, number)
<1>1. IsJob(new) /\ new.op = op /\ new.how = how /\ new.answers = << >> /\ DOMAIN new.held = {}
  BY DEF NewJob, IsJob
<1> HIDE DEF new
<1>2. HeldOK(new)
  BY <1>1 DEF HeldOK
<1>3. /\ JobOK(Resume(new, now))
      /\ Resume(new, now).op = new.op /\ Resume(new, now).how = new.how
      /\ Resume(new, now).answers = << >>
      /\ \A r \in {Header, R("head")} : r \in DOMAIN Resume(new, now).held => r \in DOMAIN new.held
  BY <1>1, <1>2, ResumedIsSound
<1> QED
  BY <1>1, <1>3 DEF new

-----------------------------------------------------------------------------
(* What an operation is answered.                                          *)

Took(job, request, answer) == [job EXCEPT !.asked = @ \ {request}, !.answers = Put(@, request, answer)]

LEMMA TookIsSound ==
    ASSUME NEW job, JobOK(job), NEW request \in job.asked, NEW answer,
           OfItsBlock(job, request, answer), Resolves(job, request, answer)
    PROVE  JobOK(Took(job, request, answer))
<1> DEFINE after == Took(job, request, answer)
<1>1. /\ DOMAIN after = DOMAIN job /\ after.asked = job.asked \ {request}
      /\ after.answers = Put(job.answers, request, answer)
      /\ \A f \in DOMAIN job : f \notin {"asked", "answers"} => after[f] = job[f]
  BY DEF Took, JobOK, IsJob
<1> HIDE DEF after
<1>2. /\ after.op = job.op /\ after.how = job.how /\ after.held = job.held
      /\ after.done = job.done /\ after.refused = job.refused
  BY <1>1 DEF JobOK, IsJob
<1>3. /\ \A r : MayAsk(job, r) => MayAsk(after, r)
      /\ \A r, a : OfItsBlock(job, r, a) => OfItsBlock(after, r, a)
      /\ \A r, a : Resolves(job, r, a) => Resolves(after, r, a)
  BY <1>2 DEF MayAsk, OfItsBlock, Resolves, Pinned, Resolved, BlockOf, FollowsHead
<1>4. HeldOK(after)
  BY <1>2, <1>3 DEF HeldOK, JobOK
<1>5. AskedOK(after)
  BY <1>1, <1>3 DEF AskedOK, JobOK
<1>6. AnswersOK(after)
  <2>1. /\ DOMAIN Put(job.answers, request, answer) = DOMAIN job.answers \cup {request}
        /\ Put(job.answers, request, answer)[request] = answer
        /\ \A y \in DOMAIN job.answers : y # request => Put(job.answers, request, answer)[y] = job.answers[y]
    BY DEF Put
  <2>2. ASSUME NEW r \in DOMAIN after.answers
        PROVE  MayAsk(job, r) /\ OfItsBlock(job, r, after.answers[r]) /\ Resolves(job, r, after.answers[r])
    <3>1. CASE r = request
      BY <1>1, <2>1, <3>1 DEF JobOK, AskedOK
    <3>2. CASE r # request
      <4>1. r \in DOMAIN job.answers /\ after.answers[r] = job.answers[r]
        BY <1>1, <2>1, <2>2, <3>2
      <4> QED
        BY <4>1 DEF JobOK, AnswersOK
    <3> QED
      BY <3>1, <3>2
  <2> QED
    BY <1>3, <2>2 DEF AnswersOK
<1>7. Due(after) = Due(job)
  BY <1>2 DEF Due
<1>8. EndsWhole(after)
  BY <1>2, <1>7 DEF EndsWhole, Answered, JobOK
<1>9. IsJob(after)
  BY <1>1 DEF IsJob, JobOK
<1> QED
  BY <1>4, <1>5, <1>6, <1>8, <1>9 DEF JobOK, after

\* A failure says nothing, and only the head and the header resolve.
LEMMA FailureIsSound ==
    ASSUME NEW job, NEW request, NEW answer, Failed(answer)
    PROVE  OfItsBlock(job, request, answer) /\ Resolves(job, request, answer)
BY DEF OfItsBlock, Resolves

\* The truth is as said, and what is no batch's rows and no proof is the truth.
LEMMA TruthIsSaid ==
    ASSUME NEW request, NEW truth
    PROVE  /\ AsSaid(request, truth, truth)
           /\ \A value : AsSaid(request, value, truth) /\ request.call \notin {"rows", "get_proof"} => value = truth
BY DEF AsSaid

\* The heads the live market was told of are the chain's.
LEMMA FloorIsMined ==
    ASSUME NodeInv, LiveOK
    PROVE  Floor \in Int /\ Floor <= Height /\ Height \in Nat
<1>1. Height \in Nat
  BY DEF NodeInv, Height
<1>2. Len(live.heads) \in Nat /\ live.told \in Nat /\ live.told <= Height
  BY DEF LiveOK
<1> QED
  BY <1>1, <1>2 DEF Floor

\* A resolved block is one the chain has had.
LEMMA ResolvedIsKnown ==
    ASSUME NEW job, HeldOK(job), Resolved(job)
    PROVE  /\ BlockOf(job) \in DOMAIN said
           /\ FollowsHead(job) => Covers(BlockOf(job)[1])
<1>1. ~Alone(Header)
  BY DEF Alone, Header, R
<1>2. Resolves(job, Header, job.held[Header]) /\ ~Failed(job.held[Header])
  BY <1>1 DEF HeldOK, Resolved
<1> QED
  BY <1>2 DEF Resolves, BlockOf, Got, Header

\* What a replica serves is the block's own, or resolves it.
LEMMA ServedIsSound ==
    ASSUME NodeInv, LiveOK, NEW job, JobOK(job), NEW request \in job.asked, NEW behind \in 0..Behind,
           NEW answer \in Served(job, request, behind)
    PROVE  OfItsBlock(job, request, answer) /\ Resolves(job, request, answer)
<1>1. MayAsk(job, request)
  BY DEF JobOK, AskedOK
<1>2. \A v : Value(v).value = v /\ ~Failed(Value(v))
  BY DEF Value, Failed
<1>3. Failed(Missing)
  BY DEF Missing, Failed, Failure
<1>4. Floor \in Int /\ Floor <= Height /\ Height \in Nat
  BY FloorIsMined
<1>5. SnapshotLag \in Nat /\ Behind \in Nat /\ behind \in Nat /\ behind <= Behind
  BY ReadsAssumption, ChainAssumption
<1>6. Header.call = "header" /\ R("head").call = "head"
  BY DEF Header, R
<1>7. Pinned(job, request) => request.call \notin {"head", "header", "preflight"} /\ Resolved(job)
  BY <1>1 DEF Pinned, MayAsk, PinnedOps, Unpinned
<1>8. CASE request.call = "head"
  <2> DEFINE number == Saturating(Seen(behind), Lagged(job.how))
  <2>1. answer = Value(number)
    BY <1>7, <1>8 DEF Served
  <2>2. FollowsHead(job) => Covers(number)
    <3> SUFFICES ASSUME FollowsHead(job) PROVE Covers(number)
      OBVIOUS
    <3>1. Lagged(job.how) = SnapshotLag
      BY DEF Lagged, FollowsHead
    <3>2. Seen(behind) = Height - behind
      BY DEF Seen
    <3> QED
      BY <1>4, <1>5, <3>1, <3>2 DEF Covers, Saturating
  <2> HIDE DEF number
  <2>3. ~Pinned(job, request) /\ request # Header
    BY <1>6, <1>7, <1>8
  <2> QED
    BY <1>2, <2>1, <2>2, <2>3 DEF OfItsBlock, Resolves
<1>9. CASE request.call = "header"
  <2> DEFINE number == IF job.how = "number" THEN job.at ELSE Got(job.held, R("head"))
  <2>1. answer \in {IF number \in 1..Seen(behind) THEN Value(chain[number]) ELSE Missing}
    BY <1>7, <1>9 DEF Served
  <2>2. ~Pinned(job, request) /\ request # R("head")
    BY <1>6, <1>7, <1>9
  <2>3. CASE number \in 1..Seen(behind)
    <3>1. number \in 1..Height
      BY <1>4, <1>5, <2>3 DEF Seen
    <3>2. chain[number] \in DOMAIN said /\ chain[number][1] = number
      BY <3>1 DEF NodeInv
    <3>3. FollowsHead(job) /\ request = Header => Covers(number)
      <4> SUFFICES ASSUME FollowsHead(job), request = Header PROVE Covers(number)
        OBVIOUS
      <4>1. R("head") \in DOMAIN job.held
        BY <1>1 DEF MayAsk
      <4>2. ~Alone(R("head"))
        BY DEF Alone, R
      <4>3. Resolves(job, R("head"), job.held[R("head")]) /\ ~Failed(job.held[R("head")])
        BY <4>1, <4>2 DEF JobOK, HeldOK
      <4>4. Covers(job.held[R("head")].value)
        BY <4>3 DEF Resolves
      <4>5. job.how # "number"
        BY DEF FollowsHead
      <4> QED
        BY <4>4, <4>5 DEF Got
    <3>4. answer = Value(chain[number])
      BY <2>1, <2>3
    <3> HIDE DEF number
    <3> QED
      BY <1>2, <2>2, <3>2, <3>3, <3>4 DEF OfItsBlock, Resolves
  <2>4. CASE number \notin 1..Seen(behind)
    <3>1. answer = Missing
      BY <2>1, <2>4
    <3> QED
      BY <1>3, <3>1, FailureIsSound
  <2> QED
    BY <2>3, <2>4
<1>10. CASE Pinned(job, request)
  <2>1. answer \in PinnedAnswers(request, BlockOf(job), behind)
    BY <1>7, <1>10 DEF Served
  <2>2. answer \in {Value(Says(request, WorldAt(BlockOf(job)))), Missing}
    BY <2>1 DEF PinnedAnswers
  <2>3. request # Header /\ request # R("head")
    BY <1>6, <1>7, <1>10
  <2>4. CASE answer = Value(Says(request, WorldAt(BlockOf(job))))
    <3>1. AsSaid(request, answer.value, Says(request, WorldAt(BlockOf(job))))
      BY <1>2, <2>4, TruthIsSaid
    <3> QED
      BY <1>7, <1>10, <2>3, <3>1 DEF OfItsBlock, Resolves
  <2>5. CASE answer = Missing
    BY <1>3, <2>5, FailureIsSound
  <2> QED
    BY <2>2, <2>4, <2>5
<1>11. CASE request.call \notin {"head", "header"} /\ ~Pinned(job, request)
  BY <1>6, <1>11 DEF OfItsBlock, Resolves
<1> QED
  BY <1>8, <1>9, <1>10, <1>11

\* A fault is a failure, or a batch's or a proof's own.
LEMMA FaultIsSound ==
    ASSUME NEW job, JobOK(job), NEW request \in job.asked, NEW answer \in Faults(job, request)
    PROVE  OfItsBlock(job, request, answer) /\ Resolves(job, request, answer)
<1> DEFINE world == WorldAt(BlockOf(job))
<1>1. \A kind : Failed(Failure(kind))
  BY DEF Failed, Failure
<1>2. CASE request.call \in {"rows", "get_proof"}
  <2>1. Resolves(job, request, answer)
    BY <1>2 DEF Resolves, Header, R
  <2>2. Pinned(job, request) => Resolved(job)
    BY DEF JobOK, AskedOK, MayAsk
  <2> HIDE DEF world
  <2>3. CASE request.call = "rows"
    <3>1. Says(request, world) = [i \in DOMAIN request.ids |-> [value |-> world.positions[request.ids[i]]]]
      BY <2>3 DEF Says
    <3>2. Failed(answer) \/ answer = Value([Says(request, world) EXCEPT ![1] = Failure("reverted")])
      BY <1>1, <2>3 DEF Faults, world
    <3> DEFINE rows == [Says(request, world) EXCEPT ![1] = Failure("reverted")]
    <3>3. DOMAIN rows = DOMAIN Says(request, world)
          /\ \A i \in DOMAIN rows : Failed(rows[i]) \/ rows[i] = Says(request, world)[i]
      BY <1>1, <3>1
    <3> HIDE DEF rows
    <3>4. AsSaid(request, rows, Says(request, world))
      BY <2>3, <3>3 DEF AsSaid
    <3> QED
      BY <2>1, <2>2, <3>2, <3>4 DEF OfItsBlock, Value, rows, world
  <2>4. CASE request.call = "get_proof"
    <3> DEFINE words == [t \in request.ticks \ {Min(request.ticks)} |-> SlotWord(TickSlot(t), world)]
    <3>1. Says(request, world) = [t \in request.ticks |-> SlotWord(TickSlot(t), world)]
      BY <2>4 DEF Says
    <3>2. Failed(answer) \/ answer = Value(words)
      BY <1>1, <2>4 DEF Faults, world
    <3>3. DOMAIN words \subseteq DOMAIN Says(request, world) /\ \A t \in DOMAIN words : words[t] = Says(request, world)[t]
      BY <3>1
    <3> HIDE DEF words
    <3>4. AsSaid(request, words, Says(request, world))
      BY <2>4, <3>3 DEF AsSaid
    <3> QED
      BY <2>1, <2>2, <3>2, <3>4 DEF OfItsBlock, Value, world
  <2> QED
    BY <1>2, <2>3, <2>4
<1>3. CASE request.call \notin {"rows", "get_proof"}
  <2>1. answer \in {Failure("Rpc"), Failure("StateUnavailable")}
    BY <1>3 DEF Faults
  <2> QED
    BY <1>1, <2>1, FailureIsSound
<1> QED
  BY <1>2, <1>3

\* A send is no read.
LEMMA SendIsSound ==
    ASSUME NEW job, JobOK(job), NEW request \in job.asked, request.call = "send", NEW answer
    PROVE  OfItsBlock(job, request, answer) /\ Resolves(job, request, answer)
<1>1. ~Pinned(job, request)
  BY DEF JobOK, AskedOK, MayAsk, Pinned, PinnedOps, Unpinned
<1> QED
  BY <1>1 DEF OfItsBlock, Resolves, Header, R

\* What is asked for is what is served.
LEMMA ServableIsAsked ==
    ASSUME NEW job, NEW request \in Servable(job)
    PROVE  request \in job.asked
BY DEF Servable

-----------------------------------------------------------------------------
(* The operations together.                                                *)

\* What the node said stays said.
LEMMA JobKept ==
    ASSUME NEW job, JobOK(job), ChainGrows,
           \/ Floor' = Floor
           \/ Header \notin DOMAIN job.held /\ R("head") \notin DOMAIN job.held /\ job.answers = << >>
    PROVE  JobOK(job)'
<1>1. \A r, answer : OfItsBlock(job, r, answer) => OfItsBlock(job, r, answer)'
  <2> SUFFICES ASSUME Resolved(job) PROVE WorldAt(BlockOf(job))' = WorldAt(BlockOf(job))
    BY DEF OfItsBlock
  <2>1. BlockOf(job) \in DOMAIN said
    BY ResolvedIsKnown DEF JobOK
  <2> QED
    BY <2>1 DEF ChainGrows, WorldAt
<1>2. \A r, answer : r \notin {Header, R("head")} => Resolves(job, r, answer)'
  BY DEF Resolves
<1>3. Floor' = Floor => \A r, answer : Resolves(job, r, answer) => Resolves(job, r, answer)'
  BY DEF Resolves, Covers, ChainGrows
<1>4. HeldOK(job)'
  <2>1. \A r \in DOMAIN job.held : OfItsBlock(job, r, job.held[r])' /\ (Failed(job.held[r]) => Alone(r))
    BY <1>1 DEF JobOK, HeldOK
  <2>2. \A r \in DOMAIN job.held : Resolves(job, r, job.held[r])'
    BY <1>2, <1>3 DEF JobOK, HeldOK
  <2> QED
    BY <2>1, <2>2 DEF HeldOK
<1>5. AnswersOK(job)'
  <2>1. \A r \in DOMAIN job.answers : MayAsk(job, r) /\ OfItsBlock(job, r, job.answers[r])'
    BY <1>1 DEF JobOK, AnswersOK
  <2>2. \A r \in DOMAIN job.answers : Resolves(job, r, job.answers[r])'
    BY <1>3 DEF JobOK, AnswersOK
  <2> QED
    BY <2>1, <2>2 DEF AnswersOK
<1> QED
  BY <1>4, <1>5 DEF JobOK

\* All are sound when each is.
LEMMA EachIsSound ==
    ASSUME \E S : jobs' \in Seq(S),
           \A i \in DOMAIN jobs' : \A job : job = jobs'[i] => JobOK(job)'
    PROVE  JobsOK'
BY DEF JobsOK, JobOK, IsJob, HeldOK, AskedOK, AnswersOK, EndsWhole, OfItsBlock, Resolves, MayAsk,
       Resolved, Covers, Floor, FollowsHead, Pinned, WorldAt, BlockOf, Answered

\* One operation goes on, or is begun, and the others wait.
LEMMA OneGoesOn ==
    ASSUME JobsOK, ChainGrows, Floor' = Floor, NEW i \in DOMAIN jobs, NEW after, JobOK(after),
           jobs' = [jobs EXCEPT ![i] = after]
    PROVE  JobsOK'
<1>1. PICK S : jobs \in Seq(S)
  BY DEF JobsOK
<1>2. jobs' \in Seq(S \cup {after}) /\ DOMAIN jobs' = DOMAIN jobs
  BY <1>1
<1>3. ASSUME NEW j \in DOMAIN jobs', NEW job, job = jobs'[j] PROVE JobOK(job)'
  <2>1. job = after \/ job = jobs[j]
    BY <1>2, <1>3
  <2>2. JobOK(job)
    BY <1>2, <1>3, <2>1 DEF JobsOK
  <2> QED
    BY <2>2, JobKept
<1> QED
  BY <1>2, <1>3, EachIsSound

LEMMA OneMore ==
    ASSUME JobsOK, ChainGrows, Floor' = Floor, NEW new, JobOK(new), jobs' = Append(jobs, new)
    PROVE  JobsOK'
<1>1. PICK S : jobs \in Seq(S)
  BY DEF JobsOK
<1>2. /\ jobs' \in Seq(S \cup {new}) /\ DOMAIN jobs' = 1..(Len(jobs) + 1) /\ DOMAIN jobs = 1..Len(jobs)
      /\ Len(jobs) \in Nat
      /\ \A j \in 1..Len(jobs) : jobs'[j] = jobs[j]
      /\ jobs'[Len(jobs) + 1] = new
  BY <1>1
<1>3. ASSUME NEW j \in DOMAIN jobs', NEW job, job = jobs'[j] PROVE JobOK(job)'
  <2>1. job = new \/ (j \in DOMAIN jobs /\ job = jobs[j])
    BY <1>2, <1>3
  <2>2. JobOK(job)
    BY <1>3, <2>1 DEF JobsOK
  <2> QED
    BY <2>2, JobKept
<1> QED
  BY <1>2, <1>3, EachIsSound

LEMMA AllWait ==
    ASSUME JobsOK, ChainGrows, Floor' = Floor, UNCHANGED jobs
    PROVE  JobsOK'
<1>1. ASSUME NEW j \in DOMAIN jobs', NEW job, job = jobs'[j] PROVE JobOK(job)'
  <2>1. JobOK(job)
    BY <1>1 DEF JobsOK
  <2> QED
    BY <2>1, JobKept
<1> QED
  BY <1>1, EachIsSound DEF JobsOK

-----------------------------------------------------------------------------
(* The steps.                                                              *)

GoesOn ==
    \/ UNCHANGED jobs
    \/ \E i \in DOMAIN jobs : \E after :
        /\ JobOK(after) /\ after.op = jobs[i].op /\ after.how = jobs[i].how
        /\ jobs' = [jobs EXCEPT ![i] = after]

Begins == \E new : JobOK(new) /\ jobs' = Append(jobs, new)

LEMMA WithOne ==
    ASSUME NEW S, NEW s \in Seq(S), NEW i \in DOMAIN s, NEW x
    PROVE  [s EXCEPT ![i] = x] \in Seq(S \cup {x}) /\ Len([s EXCEPT ![i] = x]) = Len(s)
OBVIOUS

LEMMA GoingOnKeeps ==
    ASSUME JobsOK, LiveOK, ChainGrows, NodeInv, NodeInv', GoesOn, UNCHANGED <<session, live>>
    PROVE  JobsOK' /\ LiveOK'
<1>1. Floor' = Floor
  BY DEF Floor
<1>2. JobsOK'
  BY <1>1, AllWait, OneGoesOn DEF GoesOn
<1>3. Height \in Nat /\ Height' \in Nat /\ Height' >= Height
  BY DEF NodeInv, Height, ChainGrows
<1>4. jobs = <<>> => jobs' = <<>>
  BY DEF GoesOn
<1>5. Len(jobs) = 1 /\ FollowsHead(jobs[1]) => Len(jobs') = 1 /\ FollowsHead(jobs'[1])
  <2> SUFFICES ASSUME Len(jobs) = 1, FollowsHead(jobs[1]) PROVE Len(jobs') = 1 /\ FollowsHead(jobs'[1])
    OBVIOUS
  <2>1. CASE UNCHANGED jobs
    BY <2>1
  <2>2. ASSUME NEW i \in DOMAIN jobs, NEW after, after.op = jobs[i].op, after.how = jobs[i].how,
               jobs' = [jobs EXCEPT ![i] = after]
        PROVE  Len(jobs') = 1 /\ FollowsHead(jobs'[1])
    <3>1. PICK S : jobs \in Seq(S)
      BY DEF JobsOK
    <3>2. i = 1 /\ DOMAIN jobs = 1..1
      BY <2>2, <3>1
    <3>3. Len(jobs') = Len(jobs)
      BY <2>2, <3>1, WithOne
    <3>4. jobs'[1] = after
      BY <2>2, <3>2
    <3> QED
      BY <2>2, <3>2, <3>3, <3>4 DEF FollowsHead
  <2> QED
    BY <2>1, <2>2 DEF GoesOn
<1>6. LiveOK'
  <2>1. FollowsHead(jobs[1])' = FollowsHead(jobs'[1])
    BY DEF FollowsHead
  <2> QED
    BY <1>3, <1>4, <1>5, <2>1 DEF LiveOK
<1> QED
  BY <1>2, <1>6

LEMMA BeginningKeeps ==
    ASSUME JobsOK, LiveOK, ChainGrows, NodeInv, NodeInv', Begins, ~session.quotes, UNCHANGED <<session, live>>
    PROVE  JobsOK' /\ LiveOK'
<1>1. Floor' = Floor
  BY DEF Floor
<1>2. JobsOK'
  BY <1>1, OneMore DEF Begins
<1>3. Height \in Nat /\ Height' \in Nat /\ Height' >= Height
  BY DEF NodeInv, Height, ChainGrows
<1> QED
  BY <1>2, <1>3 DEF LiveOK

LEMMA TakeGoesOn ==
    ASSUME JobsOK, NEW i \in DOMAIN jobs, NEW request \in jobs[i].asked, NEW answer,
           OfItsBlock(jobs[i], request, answer), Resolves(jobs[i], request, answer),
           Take(i, request, answer)
    PROVE  GoesOn
<1>1. PICK job : job = jobs[i]
  OBVIOUS
<1>2. JobOK(job)
  BY <1>1 DEF JobsOK
<1>3. JobOK(Took(job, request, answer))
  BY <1>1, <1>2, TookIsSound
<1>4. Took(job, request, answer).op = job.op /\ Took(job, request, answer).how = job.how
  BY <1>2 DEF Took, JobOK, IsJob
<1>5. jobs' = [jobs EXCEPT ![i] = Took(job, request, answer)]
  BY <1>1 DEF Take, Took
<1> QED
  BY <1>1, <1>3, <1>4, <1>5 DEF GoesOn

LEMMA ServeGoesOn ==
    ASSUME NodeInv, LiveOK, JobsOK, NEW i \in DOMAIN jobs, NEW request \in Servable(jobs[i]), Serve(i, request)
    PROVE  GoesOn
<1>1. request \in jobs[i].asked /\ JobOK(jobs[i])
  BY ServableIsAsked DEF JobsOK
<1>2. CASE Unproved(request)
  <2>1. Failed(Failure("unsupported"))
    BY DEF Failed, Failure
  <2>2. Take(i, request, Failure("unsupported"))
    BY <1>2 DEF Serve
  <2> QED
    BY <1>1, <2>1, <2>2, FailureIsSound, TakeGoesOn
<1>3. CASE ~Unproved(request)
  <2>1. PICK behind \in 0..Behind : \E answer \in Served(jobs[i], request, behind) : Take(i, request, answer)
    BY <1>3 DEF Serve
  <2>2. PICK answer \in Served(jobs[i], request, behind) : Take(i, request, answer)
    BY <2>1
  <2>3. OfItsBlock(jobs[i], request, answer) /\ Resolves(jobs[i], request, answer)
    BY <1>1, ServedIsSound
  <2> QED
    BY <1>1, <2>2, <2>3, TakeGoesOn
<1> QED
  BY <1>2, <1>3

LEMMA FaultGoesOn ==
    ASSUME JobsOK, NEW i \in DOMAIN jobs, NEW request \in Servable(jobs[i]), Fault(i, request)
    PROVE  GoesOn
<1>1. request \in jobs[i].asked /\ JobOK(jobs[i])
  BY ServableIsAsked DEF JobsOK
<1>2. PICK answer \in Faults(jobs[i], request) : Take(i, request, answer)
  BY DEF Fault
<1> QED
  BY <1>1, <1>2, FaultIsSound, TakeGoesOn

\* What was answered is held.
LEMMA AnsweredIsHeld ==
    ASSUME NEW job, JobOK(job), \A r \in DOMAIN job.answers : ~Broken(job, r)
    PROVE  LET mid == [job EXCEPT !.held = Over(job.answers, @), !.answers = << >>, !.asked = {}] IN
           /\ IsJob(mid) /\ HeldOK(mid) /\ mid.held = Over(job.answers, job.held) /\ mid.answers = << >>
           /\ mid.op = job.op /\ mid.how = job.how /\ mid.refused = job.refused
<1> DEFINE mid == [job EXCEPT !.held = Over(job.answers, @), !.answers = << >>, !.asked = {}]
<1>1. /\ DOMAIN mid = DOMAIN job /\ mid.held = Over(job.answers, job.held) /\ mid.answers = << >>
      /\ mid.op = job.op /\ mid.how = job.how /\ mid.refused = job.refused
  BY DEF JobOK, IsJob
<1>2. \A r \in DOMAIN job.answers : Failed(job.answers[r]) => Alone(r)
  BY DEF Broken
<1>3. \A r \in DOMAIN job.answers :
          /\ r \notin DOMAIN job.held
          /\ OfItsBlock(job, r, job.answers[r])
          /\ Resolves(job, r, job.answers[r])
  BY DEF JobOK, AnswersOK, MayAsk
<1> HIDE DEF mid
<1>4. HeldOK(job)
  BY DEF JobOK
<1>5. HeldOK(mid)
  BY <1>1, <1>2, <1>3, <1>4, HeldGrows
<1>6. IsJob(mid)
  BY <1>1 DEF IsJob, JobOK
<1> QED
  BY <1>1, <1>5, <1>6 DEF mid

\* A poll that goes on holds what was answered; one that is refused ends.
LEMMA PollGoesOn ==
    ASSUME JobsOK, NEW i \in DOMAIN jobs, Poll(i)
    PROVE  GoesOn
<1> DEFINE broken == {r \in DOMAIN jobs[i].answers : Broken(jobs[i], r)}
<1>1. PICK job : job = jobs[i]
  OBVIOUS
<1>2. JobOK(job) /\ IsJob(job)
  BY <1>1 DEF JobsOK, JobOK
<1>3. ASSUME NEW r, jobs' = [jobs EXCEPT ![i] = [job EXCEPT !.done = TRUE, !.asked = {}, !.refused = {r}]]
      PROVE  GoesOn
  <2> DEFINE after == [job EXCEPT !.done = TRUE, !.asked = {}, !.refused = {r}]
  <2>1. /\ DOMAIN after = DOMAIN job /\ after.asked = {} /\ after.refused = {r}
        /\ after.op = job.op /\ after.how = job.how /\ after.held = job.held /\ after.answers = job.answers
    BY <1>2 DEF IsJob
  <2> HIDE DEF after
  <2>2. HeldOK(after)
    BY <1>2, <2>1 DEF JobOK, HeldOK, OfItsBlock, Resolves, Pinned, Resolved, BlockOf, FollowsHead
  <2>3. AnswersOK(after)
    BY <1>2, <2>1 DEF JobOK, AnswersOK, MayAsk, OfItsBlock, Resolves, Pinned, Resolved, BlockOf, FollowsHead
  <2>4. AskedOK(after) /\ EndsWhole(after) /\ IsJob(after)
    BY <1>2, <2>1 DEF AskedOK, EndsWhole, Answered, IsJob
  <2>5. jobs' = [jobs EXCEPT ![i] = after]
    BY <1>3 DEF after
  <2> QED
    BY <1>1, <2>1, <2>2, <2>3, <2>4, <2>5 DEF GoesOn, JobOK
<1>4. ASSUME broken = {},
             jobs' = [jobs EXCEPT ![i] =
                        Resume([job EXCEPT !.held = Over(job.answers, @), !.answers = << >>, !.asked = {}], clock)]
      PROVE  GoesOn
  <2> DEFINE mid == [job EXCEPT !.held = Over(job.answers, @), !.answers = << >>, !.asked = {}]
  <2>1. \A r \in DOMAIN job.answers : ~Broken(job, r)
    BY <1>1, <1>4
  <2>2. IsJob(mid) /\ HeldOK(mid) /\ mid.answers = << >> /\ mid.op = job.op /\ mid.how = job.how
    BY <1>2, <2>1, AnsweredIsHeld
  <2> HIDE DEF mid
  <2>3. JobOK(Resume(mid, clock)) /\ Resume(mid, clock).op = mid.op /\ Resume(mid, clock).how = mid.how
    BY <2>2, ResumedIsSound
  <2>4. jobs' = [jobs EXCEPT ![i] = Resume(mid, clock)]
    BY <1>4 DEF mid
  <2> QED
    BY <1>1, <2>2, <2>3, <2>4 DEF GoesOn
<1> QED
  BY <1>1, <1>3, <1>4 DEF Poll

\* A read is begun where no live market is.
LEMMA ReadsKeep ==
    ASSUME NodeInv, NodeInv', ChainGrows, JobsOK, LiveOK, ReadsNext, UNCHANGED live
    PROVE  JobsOK' /\ LiveOK'
<1>1. UNCHANGED session
  BY DEF ReadsNext, BeginRead, Begin, Serve, Fault, Poll, Invalidate
<1>2. ASSUME NEW op, NEW how, NEW number, Begin(op, how, number)
      PROVE  Begins
  <2>1. JobOK(Resume(NewJob(op, how, number), clock))
    BY NewJobIsSound
  <2> QED
    BY <1>2, <2>1 DEF Begin, Begins
<1>3. CASE BeginRead
  <2>1. Begins /\ ~session.quotes
    BY <1>2, <1>3 DEF BeginRead
  <2> QED
    BY <1>1, <2>1, BeginningKeeps
<1>4. CASE \E i \in DOMAIN jobs : \E r \in Servable(jobs[i]) : Serve(i, r) \/ Fault(i, r)
  <2>1. GoesOn
    BY <1>4, ServeGoesOn, FaultGoesOn
  <2> QED
    BY <1>1, <2>1, GoingOnKeeps
<1>5. CASE \E i \in DOMAIN jobs : Poll(i)
  <2>1. GoesOn
    BY <1>5, PollGoesOn
  <2> QED
    BY <1>1, <2>1, GoingOnKeeps
<1>6. CASE Invalidate
  <2>1. GoesOn
    BY <1>6 DEF Invalidate, GoesOn
  <2> QED
    BY <1>1, <2>1, GoingOnKeeps
<1> QED
  BY <1>3, <1>4, <1>5, <1>6 DEF ReadsNext

\* A trade is refused before it asks for anything, or goes on as a read does.
LEMMA TradesKeep ==
    ASSUME NodeInv, NodeInv', ChainGrows, session \in Sessions, JobsOK, LiveOK,
           session.trades, TradesNext(Calls, Theirs), UNCHANGED live
    PROVE  JobsOK' /\ LiveOK'
<1>1. UNCHANGED session /\ ~session.quotes
  <2>1. ~session.quotes
    BY ReadsAssumption
  <2>2. UNCHANGED session
    BY DEF TradesNext, BeginTrade, Submit, SendFails, Receipt, TimeOut, MineOurs, MineTheirs, client
  <2> QED
    BY <2>1, <2>2
<1>2. ASSUME NEW op, NEW params, BeginTrade(op, params)
      PROVE  Begins
  <2>1. CASE Invalid(op, params)
    <3> DEFINE job == [NewJob(op, params, 0) EXCEPT !.done = TRUE, !.refused = {R("invalid")}]
    <3>1. /\ IsJob(job) /\ DOMAIN job.held = {} /\ job.asked = {} /\ DOMAIN job.answers = {}
          /\ job.refused # {}
      BY DEF NewJob, IsJob
    <3> HIDE DEF job
    <3>2. JobOK(job)
      BY <3>1 DEF JobOK, HeldOK, AskedOK, AnswersOK, EndsWhole, Answered
    <3>3. jobs' = Append(jobs, job)
      BY <1>2, <2>1 DEF BeginTrade, job
    <3> QED
      BY <3>2, <3>3 DEF Begins
  <2>2. CASE ~Invalid(op, params)
    <3>1. JobOK(Resume(NewJob(op, params, 0), clock))
      BY NewJobIsSound
    <3> QED
      BY <1>2, <2>2, <3>1 DEF BeginTrade, Begins
  <2> QED
    BY <2>1, <2>2
<1>3. ASSUME NEW i \in DOMAIN jobs, NEW r \in jobs[i].asked, r.call = "send",
             Submit(i, r) \/ SendFails(i, r) \/ Receipt(i, r) \/ TimeOut(i, r)
      PROVE  GoesOn
  <2>1. UNCHANGED jobs \/ \E answer : Take(i, r, answer)
    BY <1>3 DEF Submit, SendFails, Receipt, TimeOut
  <2>2. JobOK(jobs[i])
    BY DEF JobsOK
  <2> QED
    BY <1>3, <2>1, <2>2, SendIsSound, TakeGoesOn DEF GoesOn
<1>4. CASE \E call \in Calls : call.op \in session.ops /\ BeginTrade(call.op, call.params)
  BY <1>1, <1>2, <1>4, BeginningKeeps
<1>5. CASE \E i \in DOMAIN jobs : \E r \in {q \in jobs[i].asked : q.call = "send"} :
            Submit(i, r) \/ SendFails(i, r) \/ Receipt(i, r) \/ TimeOut(i, r)
  BY <1>1, <1>3, <1>5, GoingOnKeeps
<1>6. CASE MineOurs \/ \E t \in Theirs : MineTheirs(t.tx, t.from)
  <2>1. GoesOn
    BY <1>6 DEF GoesOn, MineOurs, MineTheirs, client
  <2> QED
    BY <1>1, <2>1, GoingOnKeeps
<1> QED
  BY <1>4, <1>5, <1>6 DEF TradesNext

-----------------------------------------------------------------------------
(***************************************************************************)
(* A pool is whole: its views, its bitmaps and its ticks are one block's.  *)
(***************************************************************************)

Has(steps, step) == \E i \in DOMAIN steps : steps[i] = step

LEMMA JoinHas ==
    ASSUME NEW s, NEW t, IsSeq(s), IsSeq(t), NEW step, Has(s, step) \/ Has(t, step)
    PROVE  Has(s \o t, step)
<1>1. /\ Len(s) \in Nat /\ Len(t) \in Nat /\ DOMAIN s = 1..Len(s) /\ DOMAIN t = 1..Len(t)
      /\ DOMAIN (s \o t) = 1..(Len(s) + Len(t))
      /\ \A i \in 1..Len(s) : (s \o t)[i] = s[i]
      /\ \A i \in (Len(s) + 1)..(Len(s) + Len(t)) : (s \o t)[i] = t[i - Len(s)]
  BY SequencesJoin
<1>2. CASE Has(s, step)
  <2>1. PICK i \in 1..Len(s) : s[i] = step
    BY <1>1, <1>2 DEF Has
  <2>2. i \in 1..(Len(s) + Len(t))
    BY <1>1
  <2> QED
    BY <1>1, <2>1, <2>2 DEF Has
<1>3. CASE Has(t, step)
  <2>1. PICK i \in 1..Len(t) : t[i] = step
    BY <1>1, <1>3 DEF Has
  <2>2. /\ i + Len(s) \in (Len(s) + 1)..(Len(s) + Len(t)) /\ i + Len(s) - Len(s) = i
        /\ i + Len(s) \in 1..(Len(s) + Len(t))
    BY <1>1
  <2>3. (s \o t)[i + Len(s)] = step /\ i + Len(s) \in DOMAIN (s \o t)
    <3> DEFINE k == i + Len(s)
    <3> HIDE DEF k
    <3>1. k \in (Len(s) + 1)..(Len(s) + Len(t)) /\ k - Len(s) = i /\ k \in 1..(Len(s) + Len(t))
      BY <2>2 DEF k
    <3>2. (s \o t)[k] = step /\ k \in DOMAIN (s \o t)
      BY <1>1, <2>1, <3>1
    <3> QED
      BY <3>2 DEF k
  <2> QED
    BY <2>3 DEF Has
<1> QED
  BY <1>2, <1>3

LEMMA OneHas ==
    ASSUME NEW step
    PROVE  Has(<<step>>, step) /\ IsSeq(<<step>>)
BY OneStep DEF Has

TicksOf(held) == [call |-> "ticks", part |-> <<>>, ticks |-> Got(held, R("bitmaps"))]

LEMMA PoolSteps ==
    ASSUME NEW how, NEW held
    PROVE  LET steps == Steps("pool", how, held) IN
           /\ IsSeq(steps) /\ Has(steps, {Header}) /\ Has(steps, {PerpViews}) /\ Has(steps, {R("bitmaps")})
           /\ Holds(held, R("bitmaps")) /\ Got(held, R("bitmaps")) # {} => Has(steps, {TicksOf(held)})
<1> DEFINE more == IF Holds(held, R("bitmaps")) /\ Got(held, R("bitmaps")) # {} THEN <<{TicksOf(held)}>> ELSE <<>>
           first == HandleFor("pool", how)
           views == <<{PerpViews}>>
           bounds == <<{ImpactBounds}>>
           bitmaps == <<{R("bitmaps")}>>
           from == MarkFrom
<1>1. Steps("pool", how, held) = first \o (((views \o from) \o bounds) \o (bitmaps \o more))
  <2>1. Steps("pool", how, held) = first \o ReadSteps("pool", held)
    BY DEF Steps, StateReads, HeadReads, OneCallReads, PositionReads, BatchReads
  <2>2. ReadSteps("pool", held) = Pool(held)
    BY DEF ReadSteps, OneCallReads, PositionReads
  <2>3. Pool(held) = (Mark \o bounds) \o TickMap(held)
    BY DEF Pool
  <2>4. Mark = views \o from /\ TickMap(held) = bitmaps \o more
    BY DEF Mark, TickMap, TicksOf
  <2> QED
    BY <2>1, <2>2, <2>3, <2>4
<1>2. IsSeq(first) /\ Has(first, {Header})
  <2>1. Led(first, how) /\ Plain(first)
    BY HandleForLed
  <2> QED
    BY <2>1 DEF Led, Plain, Avoids, Has
<1>3. IsSeq(views) /\ Has(views, {PerpViews}) /\ IsSeq(bounds) /\ IsSeq(bitmaps) /\ Has(bitmaps, {R("bitmaps")})
  BY OneHas
<1>4. IsSeq(from)
  BY OneHas DEF MarkFrom
<1>5. IsSeq(more)
  BY OneHas, PlainNone DEF Plain, Avoids
<1>6. Holds(held, R("bitmaps")) /\ Got(held, R("bitmaps")) # {} => Has(more, {TicksOf(held)})
  BY OneHas
<1> HIDE DEF more, first, views, bounds, bitmaps, from
<1>7. IsSeq(views \o from) /\ Has(views \o from, {PerpViews})
  BY <1>3, <1>4, SequencesJoin, JoinHas
<1>8. IsSeq((views \o from) \o bounds) /\ Has((views \o from) \o bounds, {PerpViews})
  BY <1>3, <1>7, SequencesJoin, JoinHas
<1>9. /\ IsSeq(bitmaps \o more) /\ Has(bitmaps \o more, {R("bitmaps")})
      /\ Has(more, {TicksOf(held)}) => Has(bitmaps \o more, {TicksOf(held)})
  BY <1>3, <1>5, SequencesJoin, JoinHas
<1>10. /\ IsSeq(((views \o from) \o bounds) \o (bitmaps \o more))
       /\ \A step : Has((views \o from) \o bounds, step) \/ Has(bitmaps \o more, step) =>
            Has(((views \o from) \o bounds) \o (bitmaps \o more), step)
  BY <1>8, <1>9, SequencesJoin, JoinHas
<1>11. /\ IsSeq(first \o (((views \o from) \o bounds) \o (bitmaps \o more)))
       /\ \A step : Has(first, step) \/ Has(((views \o from) \o bounds) \o (bitmaps \o more), step) =>
            Has(first \o (((views \o from) \o bounds) \o (bitmaps \o more)), step)
  BY <1>2, <1>10, SequencesJoin, JoinHas
<1> QED
  BY <1>1, <1>2, <1>6, <1>8, <1>9, <1>10, <1>11

LEMMA PoolIsWhole ==
    ASSUME NEW job, JobOK(job), job.op = "pool", Due(job) = {}
    PROVE  Resolved(job) /\ Whole(job)
<1> DEFINE steps == Steps("pool", job.how, job.held)
           bitmaps == R("bitmaps")
           world == WorldAt(BlockOf(job))
<1>1. /\ IsSeq(steps) /\ Has(steps, {Header}) /\ Has(steps, {PerpViews}) /\ Has(steps, {bitmaps})
      /\ Holds(job.held, bitmaps) /\ Got(job.held, bitmaps) # {} => Has(steps, {TicksOf(job.held)})
  BY PoolSteps
<1>2. ASSUME NEW r, Has(steps, {r}) PROVE r \in DOMAIN job.held
  <2>1. FirstUnheld(steps, job.held) = {}
    BY DEF Due
  <2> HIDE DEF steps
  <2>2. \A i \in DOMAIN steps : steps[i] \subseteq DOMAIN job.held
    BY <1>1, <2>1, DueIs
  <2> QED
    BY <1>2, <2>2 DEF Has
<1>3. /\ Header \in DOMAIN job.held /\ PerpViews \in DOMAIN job.held /\ bitmaps \in DOMAIN job.held
      /\ Got(job.held, bitmaps) # {} => TicksOf(job.held) \in DOMAIN job.held
  BY <1>1, <1>2 DEF Holds
<1>4. ASSUME NEW r \in DOMAIN job.held, r.call \in {"perp_views", "bitmaps", "ticks"}
      PROVE  Got(job.held, r) = Says(r, world)
  <2>1. Pinned(job, r) /\ ~Alone(r) /\ r.call \notin {"rows", "get_proof"}
    BY <1>4 DEF Pinned, Alone, StateReads
  <2> QED
    BY <2>1, TruthIsSaid DEF JobOK, HeldOK, OfItsBlock, Got
<1>5. Got(job.held, PerpViews).version = world.version
  <2>1. PerpViews.call = "perp_views"
    BY DEF PerpViews, R
  <2>2. Says(PerpViews, world) = Modules(world)
    BY <2>1 DEF Says
  <2> QED
    BY <1>3, <1>4, <2>1, <2>2 DEF Modules
<1>6. ASSUME NEW t \in Got(job.held, bitmaps)
      PROVE  Got(job.held, TicksOf(job.held))[t] = <<TickSlot(t), world.version>>
  <2>1. TicksOf(job.held) \in DOMAIN job.held /\ TicksOf(job.held).call = "ticks"
        /\ TicksOf(job.held).ticks = Got(job.held, bitmaps)
    BY <1>3, <1>6 DEF TicksOf
  <2>2. Says(TicksOf(job.held), world) = [u \in TicksOf(job.held).ticks |-> SlotWord(TickSlot(u), world)]
    BY <2>1 DEF Says
  <2> QED
    BY <1>4, <1>6, <2>1, <2>2 DEF SlotWord
<1> QED
  BY <1>3, <1>5, <1>6 DEF Whole, Resolved, TicksOf, PerpViews

-----------------------------------------------------------------------------
(* The live market's steps.                                                *)

\* The only operation there is, from the first request.
LEMMA RefreshKeeps ==
    ASSUME JobsOK, ChainGrows, jobs = <<>>, jobs' = Refresh
    PROVE  JobsOK' /\ Len(jobs') = 1 /\ FollowsHead(jobs'[1])
<1>1. PICK new : new = Resume(NewJob("pool", "lagged", 0), clock)
  OBVIOUS
<1>2. /\ JobOK(new) /\ new.op = "pool" /\ new.how = "lagged" /\ new.answers = << >>
      /\ Header \notin DOMAIN new.held /\ R("head") \notin DOMAIN new.held
  BY <1>1, NewJobIsSound
<1>3. jobs' = <<new>>
  BY <1>1 DEF Refresh
<1>4. jobs' \in Seq({new}) /\ Len(jobs') = 1 /\ DOMAIN jobs' = {1} /\ jobs'[1] = new
  BY <1>3
<1>5. ASSUME NEW i \in DOMAIN jobs', NEW job, job = jobs'[i] PROVE JobOK(job)'
  BY <1>2, <1>4, <1>5, JobKept
<1> QED
  BY <1>2, <1>4, <1>5, EachIsSound DEF FollowsHead

LEMMA NoneLeft ==
    ASSUME jobs' = <<>>
    PROVE  JobsOK'
<1>1. jobs' \in Seq({}) /\ DOMAIN jobs' = {}
  OBVIOUS
<1> QED
  BY <1>1, EachIsSound

\* A refresh that answered publishes a whole pool of a block recent enough.
LEMMA PublishedIsSound ==
    ASSUME JobsOK, Len(jobs) = 1, FollowsHead(jobs[1]), Answered(Head(jobs))
    PROVE  /\ Published = [block |-> BlockOf(jobs[1]), whole |-> TRUE]
           /\ Covers(BlockOf(jobs[1])[1])
<1>1. Head(jobs) = jobs[1] /\ 1 \in DOMAIN jobs
  BY DEF JobsOK
<1>2. JobOK(jobs[1])
  BY <1>1 DEF JobsOK
<1>3. Resolved(jobs[1]) /\ Whole(jobs[1])
  BY <1>1, <1>2, PoolIsWhole DEF JobOK, EndsWhole, FollowsHead
<1>4. Covers(BlockOf(jobs[1])[1])
  BY <1>2, <1>3, ResolvedIsKnown DEF JobOK
<1>5. Whole(jobs[1]) = TRUE
  BY <1>3 DEF Whole
<1> QED
  BY <1>1, <1>4, <1>5 DEF Published

LEMMA LiveKeeps ==
    ASSUME NodeInv, ChainGrows, JobsOK, LiveOK, session.quotes, LiveNext
    PROVE  JobsOK' /\ LiveOK'
<1>1. UNCHANGED <<session, chain>> /\ Height' = Height /\ Height \in Nat
  BY DEF LiveNext, node, NodeInv, Height
<1>2. /\ DOMAIN live = {"state", "heads", "since", "told", "ok", "latest"}
      /\ live.told \in Nat /\ live.since \in Nat /\ Len(live.heads) \in Nat
      /\ live.since + Len(live.heads) <= live.told /\ live.told <= Height
  BY DEF LiveOK
<1>3. CASE Subscribe
  <2>1. jobs = <<>> /\ jobs' = Refresh
    BY <1>3 DEF Subscribe, LiveOK
  <2>2. JobsOK' /\ Len(jobs') = 1 /\ FollowsHead(jobs'[1])
    BY <2>1, RefreshKeeps
  <2>3. FollowsHead(jobs[1])' = FollowsHead(jobs'[1])
    BY DEF FollowsHead
  <2> QED
    BY <1>1, <1>2, <1>3, <2>2, <2>3 DEF Subscribe, LiveOK
<1>4. CASE Woken
  <2>1. jobs = <<>> /\ jobs' = Refresh
    BY <1>4 DEF Woken, LiveOK
  <2>2. JobsOK' /\ Len(jobs') = 1 /\ FollowsHead(jobs'[1])
    BY <2>1, RefreshKeeps
  <2>3. FollowsHead(jobs[1])' = FollowsHead(jobs'[1])
    BY DEF FollowsHead
  <2>4. live'.heads = <<>> /\ live'.heads \in Seq({}) /\ Len(live'.heads) = 0
    BY <1>2, <1>4 DEF Woken
  <2> QED
    BY <1>1, <1>2, <1>4, <2>2, <2>3, <2>4 DEF Woken, LiveOK
<1>5. CASE Started
  <2>1. Len(jobs) = 1 /\ FollowsHead(jobs[1]) /\ jobs' = <<>>
    BY <1>5 DEF Started, LiveOK
  <2>2. Answered(Head(jobs)) => Published.whole
    BY <2>1, PublishedIsSound
  <2>3. /\ DOMAIN live' = DOMAIN live /\ live'.heads = <<>> /\ live'.since = Height /\ live'.told = Height
        /\ live'.state = IF Answered(Head(jobs)) THEN "watching" ELSE "failed"
        /\ live'.latest = Published
    BY <1>2, <1>5 DEF Started, LiveOK
  <2>4. live'.heads \in Seq({}) /\ Len(live'.heads) = 0
    BY <2>3
  <2> QED
    BY <1>1, <2>1, <2>2, <2>3, <2>4, <1>2, NoneLeft DEF LiveOK
<1>6. CASE HeadArrives
  <2>1. PICK S : live.heads \in Seq(S)
    BY DEF LiveOK
  <2>2. /\ DOMAIN live' = DOMAIN live /\ live'.state = live.state /\ live'.since = live.since
        /\ live'.told = live.told + 1 /\ live'.heads = Append(live.heads, live.told + 1)
        /\ live'.latest = live.latest /\ live'.ok = live.ok /\ UNCHANGED jobs
    BY <1>2, <1>6 DEF HeadArrives
  <2>3. live'.heads \in Seq(S \cup {live.told + 1}) /\ Len(live'.heads) = Len(live.heads) + 1
    BY <2>1, <2>2
  <2>4. live'.told - Len(live'.heads) = live.told - Len(live.heads)
    BY <1>2, <2>2, <2>3
  <2>5. Floor' = Floor
    BY <2>2, <2>4 DEF Floor
  <2>6. JobsOK'
    BY <2>2, <2>5, AllWait
  <2>7. FollowsHead(jobs[1])' = FollowsHead(jobs[1])
    BY <2>2 DEF FollowsHead
  <2>8. live.told < Height /\ live.state \in {"watching", "refreshing"}
    BY <1>6 DEF HeadArrives
  <2> QED
    BY <1>1, <1>2, <2>2, <2>3, <2>4, <2>6, <2>7, <2>8 DEF LiveOK
<1>7. CASE Refreshed
  <2>1. Len(jobs) = 1 /\ FollowsHead(jobs[1]) /\ jobs' = <<>>
    BY <1>7 DEF Refreshed, LiveOK
  <2>2. /\ DOMAIN live' = DOMAIN live /\ live'.heads = live.heads /\ live'.since = live.since /\ live'.told = live.told
        /\ live'.state = "watching" /\ live'.ok = Answered(Head(jobs)) /\ live'.latest = Published
        /\ live.state = "refreshing"
    BY <1>2, <1>7 DEF Refreshed
  <2>3. Floor = live.told - Len(live.heads)
    BY <2>2 DEF Floor
  <2>4. Answered(Head(jobs)) =>
            /\ live'.latest.whole
            /\ live'.latest.block[1] \in Nat
            /\ live'.latest.block[1] + SnapshotLag + Behind >= live.told - Len(live.heads)
    BY <2>1, <2>2, <2>3, PublishedIsSound DEF Covers
  <2> QED
    BY <1>1, <1>2, <2>1, <2>2, <2>4, NoneLeft DEF LiveOK
<1>8. CASE LiveEnds
  <2>1. jobs = <<>> /\ UNCHANGED jobs
    BY <1>8 DEF LiveEnds, LiveOK
  <2>2. /\ DOMAIN live' = DOMAIN live /\ live'.heads = live.heads /\ live'.since = live.since /\ live'.told = live.told
        /\ live'.state \in {"silent", "closed"}
    BY <1>2, <1>8 DEF LiveEnds
  <2> QED
    BY <1>1, <1>2, <2>1, <2>2, NoneLeft DEF LiveOK
<1> QED
  BY <1>3, <1>4, <1>5, <1>6, <1>7, <1>8 DEF LiveNext

-----------------------------------------------------------------------------

LEMMA SessionStarts == Init => IInv
<1> SUFFICES ASSUME Init PROVE IInv
  OBVIOUS
<1>1. NodeInv
  BY NodeStarts DEF Init
<1>2. jobs = <<>> /\ session \in Sessions
  BY DEF Init, ReadsInit
<1>3. JobsOK
  <2>1. jobs \in Seq({}) /\ DOMAIN jobs = {}
    BY <1>2
  <2> QED
    BY <2>1 DEF JobsOK
<1>4. LiveOK
  <2>1. live = [state |-> "none", heads |-> <<>>, since |-> 0, told |-> 0, ok |-> FALSE, latest |-> None]
    BY DEF Init, FeedsInit, NoLive
  <2>2. live.heads \in Seq({}) /\ Len(live.heads) = 0
    BY <2>1
  <2>3. Height \in Nat
    BY <1>1 DEF NodeInv, Height
  <2> QED
    BY <1>2, <2>1, <2>2, <2>3 DEF LiveOK
<1> QED
  BY <1>1, <1>2, <1>3, <1>4 DEF IInv

LEMMA SessionKeeps == IInv /\ [Next]_vars => IInv'
<1> SUFFICES ASSUME IInv, [Next]_vars PROVE IInv'
  OBVIOUS
<1>1. NodeInv /\ NodeInv' /\ ChainGrows /\ session \in Sessions /\ JobsOK /\ LiveOK
  BY NodeKeeps DEF IInv
<1>2. ASSUME UNCHANGED <<session, jobs, live>> PROVE JobsOK' /\ LiveOK'
  <2>1. GoesOn
    BY <1>2 DEF GoesOn
  <2> QED
    BY <1>1, <1>2, <2>1, GoingOnKeeps
<1>3. ASSUME NodeNext /\ UNCHANGED <<trading, feeding, managing, measuring>> PROVE JobsOK' /\ LiveOK'
  BY <1>2, <1>3 DEF NodeNext, client, feeding
<1>4. ASSUME ReadsNext /\ UNCHANGED <<trading, feeding, managing, measuring>> PROVE JobsOK' /\ LiveOK'
  BY <1>1, <1>4, ReadsKeep DEF feeding
<1>5. ASSUME session.trades /\ TradesNext(Calls, Theirs) /\ UNCHANGED <<feeding, managing, measuring>> PROVE JobsOK' /\ LiveOK'
  BY <1>1, <1>5, TradesKeep DEF feeding
<1>6. ASSUME session.quotes /\ LiveNext PROVE JobsOK' /\ LiveOK'
  BY <1>1, <1>6, LiveKeeps
<1>7. ASSUME FeedsNext /\ ~(session.quotes /\ LiveNext) PROVE JobsOK' /\ LiveOK'
  <2>1. UNCHANGED <<session, jobs, live>>
    BY <1>7 DEF FeedsNext, Emit, Drop, Reconnect, SubscribeFeed, Establish, Forward, StreamEnds, NextEvent, client
  <2> QED
    BY <1>2, <2>1
<1>8. ASSUME UNCHANGED <<node, client, trading, feeding>> PROVE JobsOK' /\ LiveOK'
  BY <1>2, <1>8 DEF client, feeding
<1>9. UNCHANGED session
  <2>1. ReadsNext => UNCHANGED session
    BY DEF ReadsNext, BeginRead, Begin, Serve, Fault, Poll, Invalidate
  <2>2. TradesNext(Calls, Theirs) => UNCHANGED session
    BY DEF TradesNext, BeginTrade, Submit, SendFails, Receipt, TimeOut, MineOurs, MineTheirs, client
  <2>3. NodeNext \/ FeedsNext => UNCHANGED session
    BY DEF NodeNext, FeedsNext, LiveNext, client
  <2> QED
    BY <2>1, <2>2, <2>3 DEF Next, vars, client
<1>10. JobsOK' /\ LiveOK'
  BY <1>3, <1>4, <1>5, <1>6, <1>7, <1>8 DEF Next, vars
<1> QED
  BY <1>1, <1>9, <1>10 DEF IInv

\* Every value of a read pinned to a block is that block's, whatever the
\* sessions, the worlds, the reorganizations, the replicas and the faults, and
\* a pool is whole (client/state.rs, client/queries.rs get_snapshot).
THEOREM PinnedReadsAlwaysAgree == Spec => []PinnedReadsAgree
<1>1. IInv => PinnedReadsAgree
  <2> SUFFICES ASSUME IInv, NEW i \in DOMAIN jobs, NEW job, job = jobs[i], Answered(job), Header \in DOMAIN job.held
               PROVE  /\ \A r \in DOMAIN job.held :
                            Pinned(job, r) /\ ~Failed(job.held[r]) /\ r.call \notin {"rows", "get_proof"} =>
                                Got(job.held, r) = Says(r, WorldAt(BlockOf(job)))
                      /\ job.op = "pool" => Whole(job)
    BY DEF PinnedReadsAgree, Header
  <2>1. JobOK(job)
    BY DEF IInv, JobsOK
  <2>2. HeldOK(job) /\ Due(job) = {}
    BY <2>1 DEF JobOK, EndsWhole
  <2>3. job.op = "pool" => Whole(job)
    BY <2>1, <2>2, PoolIsWhole
  <2> QED
    BY <2>2, <2>3, TruthIsSaid DEF HeldOK, OfItsBlock, Got
<1> QED
  BY <1>1, SessionStarts, SessionKeeps, PTL DEF Spec

\* A live market whose backlog is empty is no further behind what it was told
\* than the snapshot lag and one replica, however many heads came while it was
\* reading and however its reads failed (feeds/taker.rs subscribe).
THEOREM LiveMarketAlwaysKeepsUp == Spec => []LiveMarketKeepsUp
<1>1. IInv => LiveMarketKeepsUp
  <2>1. LiveOK => LiveMarketKeepsUp
    <3> SUFFICES ASSUME LiveOK, live.state = "watching", live.ok
                 PROVE  /\ live.latest.whole
                        /\ live.heads = <<>> /\ live.told > live.since =>
                                live.latest.block[1] + SnapshotLag + Behind >= live.told
      BY DEF LiveMarketKeepsUp
    <3>1. live.heads = <<>> => Len(live.heads) = 0 /\ live.told - Len(live.heads) = live.told
      BY DEF LiveOK
    <3> QED
      BY <3>1 DEF LiveOK
  <2> QED
    BY <2>1 DEF IInv
<1> QED
  BY <1>1, SessionStarts, SessionKeeps, PTL DEF Spec

-----------------------------------------------------------------------------
(***************************************************************************)
(* The position manager.  That a check fires as called is not kept by the  *)
(* triggers alone: the anchor must be the best of the prices the position  *)
(* was checked at while it trailed, whatever was set, cleared, tracked     *)
(* again or left out of a check since.                                     *)
(***************************************************************************)

HasTriggers(pos) ==
    /\ DOMAIN pos = {"id", "perp", "is_long", "stop_loss", "take_profit", "pct", "anchor"}
    /\ pos.is_long \in BOOLEAN
    /\ pos.stop_loss \in Int \cup {Off}
    /\ pos.take_profit \in Int \cup {Off}
    /\ pos.pct \in (0..PctScale) \cup {Off}

\* The anchor is the best of the prices.
Anchored(pos, history) ==
    /\ history \subseteq Int
    /\ IF history = {} THEN pos.anchor = Off
       ELSE pos.anchor \in history /\ \A q \in history : NoWorse(pos, pos.anchor, q)

ManagedOK ==
    /\ DOMAIN seen = DOMAIN managed
    /\ \A id \in DOMAIN managed :
        managed[id].id = id /\ HasTriggers(managed[id]) /\ Anchored(managed[id], seen[id])

LEMMA ProductsGrow ==
    ASSUME NEW a \in Int, NEW b \in Int, NEW c \in Nat, a <= b
    PROVE  a * c \in Int /\ b * c \in Int /\ a * c <= b * c
<1>1. PICK d \in Nat : b = a + d
  <2>1. b - a \in Nat /\ b = a + (b - a)
    OBVIOUS
  <2> QED
    BY <2>1
<1>2. b * c = a * c + d * c
  BY <1>1
<1>3. d * c \in Nat
  BY <1>1
<1> QED
  BY <1>2, <1>3

\* Of the prices a position trailed at, the best is the first its trail asks of.
LEMMA TrailOfTheBest ==
    ASSUME NEW pos, NEW history, NEW price \in Int, HasTriggers(pos), Anchored(pos, history),
           pos.pct # Off => history # {}
    PROVE  Trails(pos, price, history) <=>
               /\ pos.pct # Off /\ pos.anchor # Off
               /\ NoWorse(pos, TrailingStopPrice(pos), PctScale * price)
<1>1. CASE pos.pct = Off
  BY <1>1 DEF Trails
<1>2. CASE pos.pct # Off
  <2>1. pos.anchor \in history /\ pos.anchor \in Int /\ pos.anchor # Off /\ history \subseteq Int
    BY <1>2, TrackedAssumption DEF Anchored, TrackedAssumption
  <2>2. pos.pct \in 0..PctScale /\ PctScale \in Nat
    BY <1>2, ToolsAssumption DEF HasTriggers, ToolsAssumption
  <2>3. PctScale - pos.pct \in Nat /\ PctScale + pos.pct \in Nat /\ PctScale * price \in Int
    BY <2>2
  <2>4. CASE pos.is_long
    <3> DEFINE c == PctScale - pos.pct
    <3>1. c \in Nat /\ TrailingStopPrice(pos) = pos.anchor * c
      BY <1>2, <2>1, <2>3, <2>4 DEF TrailingStopPrice
    <3>2. \A q \in history : q <= pos.anchor
      BY <2>1, <2>4 DEF Anchored, NoWorse
    <3>3. Trails(pos, price, history) <=> \E q \in history : PctScale * price <= q * c
      BY <1>2, <2>4 DEF Trails
    <3>4. NoWorse(pos, TrailingStopPrice(pos), PctScale * price) <=> pos.anchor * c >= PctScale * price
      BY <2>4, <3>1 DEF NoWorse
    <3> HIDE DEF c
    <3>5. \A q \in history : q * c \in Int /\ pos.anchor * c \in Int /\ q * c <= pos.anchor * c
      BY <2>1, <3>1, <3>2, ProductsGrow
    <3>6. (\E q \in history : PctScale * price <= q * c) <=> pos.anchor * c >= PctScale * price
      <4> DEFINE x == PctScale * price
                 y == pos.anchor * c
      <4>1. x \in Int /\ y \in Int /\ \A q \in history : q * c \in Int /\ q * c <= y
        BY <2>1, <2>3, <3>5
      <4>2. ASSUME NEW q \in history, x <= q * c PROVE y >= x
        <5> DEFINE z == q * c
        <5>1. z \in Int /\ z <= y /\ x <= z
          BY <4>1, <4>2
        <5> HIDE DEF x, y, z
        <5> QED
          BY <4>1, <5>1
      <4>3. y >= x => x <= pos.anchor * c
        <5> HIDE DEF x
        <5> QED
          BY <4>1
      <4> QED
        BY <2>1, <4>2, <4>3
    <3> QED
      BY <1>2, <2>1, <3>3, <3>4, <3>6
  <2>5. CASE ~pos.is_long
    <3> DEFINE c == PctScale + pos.pct
    <3>1. c \in Nat /\ TrailingStopPrice(pos) = pos.anchor * c
      BY <1>2, <2>1, <2>3, <2>5 DEF TrailingStopPrice
    <3>2. \A q \in history : pos.anchor <= q
      BY <2>1, <2>5 DEF Anchored, NoWorse
    <3>3. Trails(pos, price, history) <=> \E q \in history : PctScale * price >= q * c
      BY <1>2, <2>5 DEF Trails
    <3>4. NoWorse(pos, TrailingStopPrice(pos), PctScale * price) <=> pos.anchor * c <= PctScale * price
      BY <2>5, <3>1 DEF NoWorse
    <3> HIDE DEF c
    <3>5. \A q \in history : q * c \in Int /\ pos.anchor * c \in Int /\ pos.anchor * c <= q * c
      BY <2>1, <3>1, <3>2, ProductsGrow
    <3>6. (\E q \in history : PctScale * price >= q * c) <=> pos.anchor * c <= PctScale * price
      <4> DEFINE x == PctScale * price
                 y == pos.anchor * c
      <4>1. x \in Int /\ y \in Int /\ \A q \in history : q * c \in Int /\ y <= q * c
        BY <2>1, <2>3, <3>5
      <4>2. ASSUME NEW q \in history, x >= q * c PROVE y <= x
        <5> DEFINE z == q * c
        <5>1. z \in Int /\ y <= z /\ x >= z
          BY <4>1, <4>2
        <5> HIDE DEF x, y, z
        <5> QED
          BY <4>1, <5>1
      <4>3. y <= x => x >= pos.anchor * c
        <5> HIDE DEF x
        <5> QED
          BY <4>1
      <4> QED
        BY <2>1, <4>2, <4>3
    <3> QED
      BY <1>2, <2>1, <3>3, <3>4, <3>6
  <2> QED
    BY <2>2, <2>4, <2>5 DEF HasTriggers
<1> QED
  BY <1>1, <1>2

\* What an update keeps of a position, and makes of its anchor.
LEMMA UpdateIs ==
    ASSUME NEW pos, NEW history, NEW price \in Int, HasTriggers(pos), Anchored(pos, history),
           NEW after, after = UpdateAnchor(pos, price),
           NEW longer, longer = IF pos.pct # Off THEN history \cup {price} ELSE history
    PROVE  /\ HasTriggers(after) /\ Anchored(after, longer)
           /\ pos.pct # Off => longer # {}
           /\ after.id = pos.id /\ after.perp = pos.perp /\ after.is_long = pos.is_long
           /\ after.stop_loss = pos.stop_loss /\ after.take_profit = pos.take_profit /\ after.pct = pos.pct
<1>1. /\ after.id = pos.id /\ after.perp = pos.perp /\ after.is_long = pos.is_long
      /\ after.stop_loss = pos.stop_loss /\ after.take_profit = pos.take_profit /\ after.pct = pos.pct
      /\ HasTriggers(after)
  BY DEF UpdateAnchor, HasTriggers
<1>2. CASE pos.pct = Off
  BY <1>1, <1>2 DEF UpdateAnchor
<1>3. CASE pos.pct # Off
  <2>1. longer = history \cup {price} /\ longer \subseteq Int /\ price \in longer /\ longer # {}
    BY <1>3 DEF Anchored
  <2>2. after.anchor = IF pos.anchor = Off \/ ~NoWorse(pos, pos.anchor, price) THEN price ELSE pos.anchor
    BY <1>3 DEF UpdateAnchor, HasTriggers
  <2>3. price # Off /\ (history = {} <=> pos.anchor = Off)
    BY TrackedAssumption DEF Anchored, TrackedAssumption
  <2>4. \A a, b : NoWorse(after, a, b) <=> NoWorse(pos, a, b)
    BY <1>1 DEF NoWorse
  <2>5. CASE history = {}
    <3>1. after.anchor = price /\ longer = {price}
      BY <2>1, <2>2, <2>3, <2>5
    <3>2. NoWorse(after, price, price)
      BY DEF NoWorse
    <3> QED
      BY <1>1, <2>1, <3>1, <3>2 DEF Anchored
  <2>6. CASE history # {}
    <3>1. pos.anchor \in history /\ pos.anchor \in Int /\ \A q \in history : q \in Int /\ NoWorse(pos, pos.anchor, q)
      BY <2>6 DEF Anchored
    <3>2. CASE NoWorse(pos, pos.anchor, price)
      BY <1>1, <2>1, <2>2, <2>3, <2>4, <2>6, <3>1, <3>2 DEF Anchored
    <3>3. CASE ~NoWorse(pos, pos.anchor, price)
      <4>1. after.anchor = price
        BY <2>2, <3>3
      <4>2. \A q \in longer : NoWorse(pos, price, q)
        BY <2>1, <3>1, <3>3 DEF NoWorse
      <4> QED
        BY <1>1, <2>1, <2>4, <4>1, <4>2 DEF Anchored
    <3> QED
      BY <3>2, <3>3
  <2> QED
    BY <1>1, <2>1, <2>5, <2>6
<1> QED
  BY <1>2, <1>3

\* A check's one action, and that it is of the trail only when nothing else fires.
LEMMA CheckIs ==
    ASSUME NEW pos, NEW after, NEW history, NEW price \in Int,
           HasTriggers(after), Anchored(after, history), after.pct # Off => history # {},
           after.id = pos.id, after.perp = pos.perp, after.is_long = pos.is_long,
           after.stop_loss = pos.stop_loss, after.take_profit = pos.take_profit, after.pct = pos.pct
    PROVE  /\ \A a \in Check(after, price) : a.id = pos.id /\ a.perp = pos.perp
           /\ Cardinality(Check(after, price)) = IF Beyond(pos, price) \/ Trails(pos, price, history) THEN 1 ELSE 0
           /\ (\E a \in Check(after, price) : a.type = TrailingStop) <=>
                  Trails(pos, price, history) /\ ~Beyond(pos, price)
<1> DEFINE trail == TrailingStopPrice(after)
           trails == after.pct # Off /\ after.anchor # Off /\ NoWorse(after, trail, PctScale * price)
           lost == after.stop_loss # Off /\ NoWorse(after, after.stop_loss, price)
           gained == after.take_profit # Off /\ NoWorse(after, price, after.take_profit)
<1>1. Trails(after, price, history) <=> trails
  BY TrailOfTheBest
<1>2. Trails(pos, price, history) <=> trails
  BY <1>1 DEF Trails
<1>3. Beyond(pos, price) <=> lost \/ gained
  BY DEF Beyond, NoWorse
<1>4. trails <=> trail # Off /\ NoWorse(after, trail, PctScale * price)
  <2>1. ASSUME after.pct # Off, after.anchor # Off PROVE trail \in Int
    <3>1. after.pct \in 0..PctScale /\ after.anchor \in Int /\ PctScale \in Nat
      BY <2>1, ToolsAssumption DEF HasTriggers, Anchored, ToolsAssumption
    <3>2. after.pct \in Int /\ PctScale - after.pct \in Int /\ PctScale + after.pct \in Int
      BY <3>1
    <3> QED
      BY <2>1, <3>1, <3>2 DEF TrailingStopPrice
  <2>2. after.pct = Off \/ after.anchor = Off => trail = Off
    BY DEF TrailingStopPrice
  <2> HIDE DEF trail
  <2> QED
    BY <2>1, <2>2, TrackedAssumption DEF TrackedAssumption
<1>5. \A type, at : Action(type, after, at).id = pos.id /\ Action(type, after, at).perp = pos.perp
                    /\ Action(type, after, at).type = type
  BY DEF Action
<1>6. TrailingStop # StopLoss /\ TrailingStop # TakeProfit
  BY DEF TrailingStop, StopLoss, TakeProfit
<1>7. Check(after, price) =
          IF lost THEN {Action(StopLoss, after, PctScale * after.stop_loss)}
          ELSE IF gained THEN {Action(TakeProfit, after, PctScale * after.take_profit)}
          ELSE IF trails THEN {Action(TrailingStop, after, trail)} ELSE {}
  <2> HIDE DEF trails
  <2> QED
    BY <1>4 DEF Check
<1> HIDE DEF trails, lost, gained, trail
<1>8. ASSUME NEW type, NEW at, Check(after, price) = {Action(type, after, at)}
       PROVE  /\ \A a \in Check(after, price) : a.id = pos.id /\ a.perp = pos.perp
              /\ Cardinality(Check(after, price)) = 1
              /\ (\E a \in Check(after, price) : a.type = TrailingStop) <=> type = TrailingStop
  <2>1. Cardinality(Check(after, price)) = 1
    BY <1>8, FS_Singleton
  <2> QED
    BY <1>5, <1>8, <2>1
<1>9. CASE lost
  BY <1>2, <1>3, <1>6, <1>7, <1>9, <1>8
<1>10. CASE ~lost /\ gained
  BY <1>2, <1>3, <1>6, <1>7, <1>10, <1>8
<1>11. CASE ~lost /\ ~gained /\ trails
  BY <1>2, <1>3, <1>6, <1>7, <1>11, <1>8
<1>12. CASE ~lost /\ ~gained /\ ~trails
  BY <1>2, <1>3, <1>7, <1>12, FS_EmptySet
<1> QED
  BY <1>9, <1>10, <1>11, <1>12

\* What a check makes of one position: all it keeps, and all it tells of it.
AsChecked(pos, price, after, longer) ==
    /\ HasTriggers(after) /\ Anchored(after, longer) /\ after.id = pos.id
    /\ \A a \in Check(after, price) : a.id = pos.id /\ a.perp = pos.perp
    /\ Cardinality(Check(after, price)) = IF Beyond(pos, price) \/ Trails(pos, price, longer) THEN 1 ELSE 0
    /\ (\E a \in Check(after, price) : a.type = TrailingStop) <=>
           Trails(pos, price, longer) /\ ~Beyond(pos, price)

LEMMA CheckedIs ==
    ASSUME NEW pos, NEW history, NEW price \in Int, HasTriggers(pos), Anchored(pos, history)
    PROVE  AsChecked(pos, price, UpdateAnchor(pos, price), IF pos.pct # Off THEN history \cup {price} ELSE history)
<1> DEFINE after == UpdateAnchor(pos, price)
           longer == IF pos.pct # Off THEN history \cup {price} ELSE history
<1>1. /\ HasTriggers(after) /\ Anchored(after, longer)
      /\ pos.pct # Off => longer # {}
      /\ after.id = pos.id /\ after.perp = pos.perp /\ after.is_long = pos.is_long
      /\ after.stop_loss = pos.stop_loss /\ after.take_profit = pos.take_profit /\ after.pct = pos.pct
  BY UpdateIs
<1> HIDE DEF after, longer
<1>2. /\ \A a \in Check(after, price) : a.id = pos.id /\ a.perp = pos.perp
      /\ Cardinality(Check(after, price)) = IF Beyond(pos, price) \/ Trails(pos, price, longer) THEN 1 ELSE 0
      /\ (\E a \in Check(after, price) : a.type = TrailingStop) <=>
             Trails(pos, price, longer) /\ ~Beyond(pos, price)
  BY <1>1, CheckIs
<1>3. AsChecked(pos, price, after, longer)
  BY <1>1, <1>2 DEF AsChecked
<1> QED
  BY <1>3 DEF after, longer

\* A check at `prices`, and what each position it had a price for was seen at.
Checks(prices) ==
    /\ \A perp \in DOMAIN prices : prices[perp] \in Int
    /\ managed' = Updated(managed, prices)
    /\ fired' = [prices |-> prices, actions |-> CheckTriggers(managed, prices)]
    /\ seen' = [id \in DOMAIN seen |->
                    IF id \in Priced(managed, prices) /\ managed[id].pct # Off
                    THEN seen[id] \cup {prices[managed[id].perp]} ELSE seen[id]]

LEMMA CheckKeeps ==
    ASSUME ManagedOK, NEW prices, Checks(prices)
    PROVE  ManagedOK' /\ FiresAsCalled
<1>1. DOMAIN managed' = DOMAIN managed /\ DOMAIN seen' = DOMAIN managed
  BY DEF ManagedOK, Checks, Updated
<1>2. ASSUME NEW id \in Priced(managed, prices)
      PROVE  /\ id \in DOMAIN managed /\ managed[id].id = id
             /\ Updated(managed, prices)[id] = managed'[id]
             /\ AsChecked(managed[id], prices[managed[id].perp], managed'[id], seen'[id])
  <2>1. id \in DOMAIN managed /\ prices[managed[id].perp] \in Int
    BY DEF Priced, Checks
  <2>2. /\ managed'[id] = UpdateAnchor(managed[id], prices[managed[id].perp])
        /\ seen'[id] = IF managed[id].pct # Off THEN seen[id] \cup {prices[managed[id].perp]} ELSE seen[id]
    BY <2>1 DEF Checks, Updated, ManagedOK
  <2>3. managed[id].id = id /\ HasTriggers(managed[id]) /\ Anchored(managed[id], seen[id])
    BY <2>1 DEF ManagedOK
  <2>4. AsChecked(managed[id], prices[managed[id].perp], UpdateAnchor(managed[id], prices[managed[id].perp]),
                  IF managed[id].pct # Off THEN seen[id] \cup {prices[managed[id].perp]} ELSE seen[id])
    BY <2>1, <2>3, CheckedIs
  <2> QED
    BY <2>1, <2>2, <2>3, <2>4 DEF Checks
<1>3. ASSUME NEW id \in DOMAIN managed, id \notin Priced(managed, prices)
      PROVE  managed'[id] = managed[id] /\ seen'[id] = seen[id]
  BY <1>3 DEF Checks, Updated, ManagedOK
<1>4. ManagedOK'
  <2> SUFFICES ASSUME NEW id \in DOMAIN managed
               PROVE  managed'[id].id = id /\ HasTriggers(managed'[id]) /\ Anchored(managed'[id], seen'[id])
    BY <1>1 DEF ManagedOK
  <2>1. CASE id \in Priced(managed, prices)
    BY <1>2, <2>1 DEF AsChecked
  <2>2. CASE id \notin Priced(managed, prices)
    BY <1>3, <2>2 DEF ManagedOK
  <2> QED
    BY <2>1, <2>2
<1>5. ASSUME NEW id \in DOMAIN managed
      PROVE  {a \in CheckTriggers(managed, prices) : a.id = id} =
                 IF id \in Priced(managed, prices) THEN Check(managed'[id], prices[managed[id].perp]) ELSE {}
  <2>1. \A other \in Priced(managed, prices) :
            /\ Updated(managed, prices)[other] = managed'[other]
            /\ \A a \in Check(managed'[other], prices[managed[other].perp]) : a.id = other
    BY <1>2 DEF AsChecked
  <2> QED
    BY <2>1 DEF CheckTriggers
<1>6. fired'.prices = prices /\ fired'.actions = CheckTriggers(managed, prices)
  BY DEF Checks
<1>7. FiresAsCalled
  <2> SUFFICES ASSUME NEW id \in DOMAIN managed
               PROVE  LET pos == managed[id]
                          seenAt == fired'.prices
                          mine == {a \in fired'.actions : a.id = id}
                      IN IF pos.perp \notin DOMAIN seenAt THEN mine = {}
                         ELSE LET trails == Trails(pos, seenAt[pos.perp], seen'[id]) IN
                             /\ Cardinality(mine) = IF Beyond(pos, seenAt[pos.perp]) \/ trails THEN 1 ELSE 0
                             /\ \A a \in mine : a.perp = pos.perp
                             /\ (\E a \in mine : a.type = TrailingStop) <=> trails /\ ~Beyond(pos, seenAt[pos.perp])
    BY Zenon DEF FiresAsCalled
  <2> DEFINE pos == managed[id]
             mine == {a \in fired'.actions : a.id = id}
  <2>1. id \in Priced(managed, prices) <=> pos.perp \in DOMAIN prices
    BY DEF Priced
  <2>2. CASE id \in Priced(managed, prices)
    <3>1. mine = Check(managed'[id], prices[pos.perp])
      BY <1>5, <1>6, <2>2
    <3>2. AsChecked(pos, prices[pos.perp], managed'[id], seen'[id])
      BY <1>2, <2>2
    <3>3. pos.perp \in DOMAIN fired'.prices /\ fired'.prices[pos.perp] = prices[pos.perp]
      BY <1>6, <2>1, <2>2
    <3>4. /\ Cardinality(mine) =
                 IF Beyond(pos, fired'.prices[pos.perp]) \/ Trails(pos, fired'.prices[pos.perp], seen'[id]) THEN 1 ELSE 0
          /\ \A a \in mine : a.perp = pos.perp
          /\ (\E a \in mine : a.type = TrailingStop) <=>
                 Trails(pos, fired'.prices[pos.perp], seen'[id]) /\ ~Beyond(pos, fired'.prices[pos.perp])
      <4> HIDE DEF mine, pos
      <4> QED
        BY <3>1, <3>2, <3>3 DEF AsChecked
    <3> QED
      BY <3>3, <3>4, Zenon
  <2>3. CASE id \notin Priced(managed, prices)
    BY <1>5, <1>6, <2>1, <2>3
  <2> QED
    BY <2>2, <2>3
<1> QED
  BY <1>4, <1>7

LEMMA ManagerStarts == ManagerInit => ManagedOK
<1> SUFFICES ASSUME ManagerInit PROVE ManagedOK
  OBVIOUS
<1>1. managed = << >> /\ seen = << >> /\ DOMAIN managed = {}
  BY DEF ManagerInit
<1> QED
  BY <1>1 DEF ManagedOK

LEMMA ManagerKeeps ==
    ASSUME ManagedOK, ManagerNext
    PROVE  ManagedOK' /\ (checks' # checks => FiresAsCalled)
<1>1. ASSUME NEW pos \in Tracked,
             managed' = Track(managed, pos), seen' = Entered(seen, pos.id, {}), UNCHANGED <<fired, checks>>
      PROVE  ManagedOK' /\ checks' = checks
  <2>1. /\ DOMAIN managed' = DOMAIN managed \cup {pos.id} /\ DOMAIN seen' = DOMAIN seen \cup {pos.id}
        /\ managed'[pos.id] = pos /\ seen'[pos.id] = {}
        /\ \A id \in DOMAIN managed : id # pos.id => managed'[id] = managed[id]
        /\ \A id \in DOMAIN seen : id # pos.id => seen'[id] = seen[id]
    BY <1>1 DEF Track, Entered
  <2>2. HasTriggers(pos) /\ Anchored(pos, {})
    BY TrackedAssumption DEF TrackedAssumption, HasTriggers, Anchored
  <2> SUFFICES ASSUME NEW id \in DOMAIN managed'
               PROVE  managed'[id].id = id /\ HasTriggers(managed'[id]) /\ Anchored(managed'[id], seen'[id])
    BY <1>1, <2>1 DEF ManagedOK
  <2>3. CASE id = pos.id
    BY <2>1, <2>2, <2>3
  <2>4. CASE id # pos.id
    BY <2>1, <2>4 DEF ManagedOK
  <2> QED
    BY <2>3, <2>4
<1>2. ASSUME NEW id \in DOMAIN managed, managed' = Untrack(managed, id),
             seen' = Restrict(seen, DOMAIN seen \ {id}), UNCHANGED <<fired, checks>>
      PROVE  ManagedOK' /\ checks' = checks
  BY <1>2 DEF Untrack, Restrict, ManagedOK
<1>3. ASSUME NEW id \in DOMAIN managed, NEW pos \in Tracked,
             pos.id = id, managed[id].is_long = pos.is_long,
             managed' = [managed EXCEPT ![id] = [pos EXCEPT !.anchor = managed[id].anchor]],
             UNCHANGED <<seen, fired, checks>>
      PROVE  ManagedOK' /\ checks' = checks
  <2>1. HasTriggers(pos)
    BY TrackedAssumption DEF TrackedAssumption, HasTriggers
  <2>2. /\ DOMAIN managed' = DOMAIN managed /\ managed'[id] = [pos EXCEPT !.anchor = managed[id].anchor]
        /\ \A other \in DOMAIN managed : other # id => managed'[other] = managed[other]
    BY <1>3
  <2>3. HasTriggers(managed'[id]) /\ managed'[id].id = id
        /\ managed'[id].anchor = managed[id].anchor /\ managed'[id].is_long = managed[id].is_long
    BY <1>3, <2>1, <2>2 DEF HasTriggers
  <2>4. Anchored(managed'[id], seen[id])
    BY <2>3 DEF ManagedOK, Anchored, NoWorse
  <2> QED
    BY <1>3, <2>2, <2>3, <2>4 DEF ManagedOK
<1>4. ASSUME NEW perps \in SUBSET {pos.perp : pos \in Tracked}, NEW prices \in [perps -> Prices],
             managed' = Updated(managed, prices),
             fired' = [prices |-> prices, actions |-> CheckTriggers(managed, prices)],
             seen' = [id \in DOMAIN seen |->
                        IF id \in Priced(managed, prices) /\ managed[id].pct # Off
                        THEN seen[id] \cup {prices[managed[id].perp]} ELSE seen[id]]
      PROVE  ManagedOK' /\ FiresAsCalled
  <2>1. Checks(prices)
    BY <1>4, TrackedAssumption DEF Checks, TrackedAssumption
  <2> QED
    BY <2>1, CheckKeeps
<1> QED
  BY <1>1, <1>2, <1>3, <1>4 DEF ManagerNext

\* A check fires for exactly the positions its prices call for, once each, for
\* any positions, prices and shares: the anchor update_anchor carries is the best
\* of all the prices the position trailed at (position_manager.rs
\* check_triggers_into, check).
THEOREM TriggersAlwaysFireAsCalled == Spec => TriggersFireAsCalled
<1>1. Init => ManagedOK
  BY ManagerStarts DEF Init
<1>2. ManagedOK /\ [Next]_vars => ManagedOK' /\ [checks' # checks => FiresAsCalled]_managing
  <2> SUFFICES ASSUME ManagedOK, [Next]_vars
               PROVE  ManagedOK' /\ [checks' # checks => FiresAsCalled]_managing
    OBVIOUS
  <2>1. CASE ManagerNext
    BY <2>1, ManagerKeeps
  <2>2. CASE UNCHANGED managing
    BY <2>2 DEF managing, ManagedOK
  <2> QED
    BY <2>1, <2>2 DEF Next, vars
<1> QED
  BY <1>1, <1>2, PTL DEF Spec, TriggersFireAsCalled

-----------------------------------------------------------------------------
(***************************************************************************)
(* The batches.  What a batch answers is put together from its chunks, and *)
(* what a chunk answers from words it finds by their places: that each id  *)
(* gets its own follows from arithmetic about the places (where an id's    *)
(* chunk begins, where a tick's and a maker's word stand) and from what is *)
(* held being the block's.                                                 *)
(***************************************************************************)

\* A place in a sorted set tells its member, and is within it.
LEMMA PlacesTell ==
    ASSUME NEW S, IsFiniteSet(S), S \subseteq Int, NEW x \in S
    PROVE  /\ Cardinality(S) \in Nat /\ Before(S, x) \in Nat /\ Before(S, x) < Cardinality(S)
           /\ Nth(S, Before(S, x) + 1) = x
<1> DEFINE below(y) == {z \in S : z < y}
<1>1. ASSUME NEW y \in S, NEW T \in SUBSET S, T # S
      PROVE  IsFiniteSet(T) /\ Cardinality(T) \in Nat /\ Cardinality(S) \in Nat /\ Cardinality(T) < Cardinality(S)
  <2>1. IsFiniteSet(T) /\ Cardinality(T) <= Cardinality(S) /\ Cardinality(T) # Cardinality(S)
    BY <1>1, FS_Subset
  <2>2. Cardinality(T) \in Nat /\ Cardinality(S) \in Nat
    BY <2>1, FS_CardinalityType
  <2> QED
    BY <2>1, <2>2
<1>2. ASSUME NEW y \in S, NEW z \in S, y < z PROVE Before(S, y) \in Nat /\ Before(S, z) \in Nat /\ Before(S, y) < Before(S, z)
  <2>1. below(y) \in SUBSET below(z) /\ y \in below(z) /\ y \notin below(y) /\ below(z) \in SUBSET S
    <3>1. y \in Int /\ z \in Int /\ ~(y < y)
      OBVIOUS
    <3>2. \A u \in S : u < y => u < z
      BY <1>2, <3>1
    <3> QED
      BY <1>2, <3>1, <3>2
  <2> HIDE DEF below
  <2>2. IsFiniteSet(below(z))
    BY <2>1, FS_Subset
  <2>3. IsFiniteSet(below(y)) /\ Cardinality(below(y)) <= Cardinality(below(z)) /\ Cardinality(below(y)) # Cardinality(below(z))
    BY <2>1, <2>2, FS_Subset
  <2>4. Cardinality(below(y)) \in Nat /\ Cardinality(below(z)) \in Nat
    BY <2>2, <2>3, FS_CardinalityType
  <2> QED
    BY <2>3, <2>4 DEF Before, below
<1>3. Cardinality(S) \in Nat /\ Before(S, x) \in Nat /\ Before(S, x) < Cardinality(S)
  <2>1. below(x) \in SUBSET S /\ below(x) # S
    OBVIOUS
  <2> HIDE DEF below
  <2> QED
    BY <1>1, <2>1 DEF Before, below
<1>4. \A y \in S : Before(S, y) = Before(S, x) => y = x
  <2> SUFFICES ASSUME NEW y \in S, y # x PROVE Before(S, y) # Before(S, x)
    OBVIOUS
  <2>1. y < x \/ x < y
    OBVIOUS
  <2> QED
    BY <1>2, <2>1
<1>5. PICK n : n = Before(S, x) + 1
  OBVIOUS
<1>6. \E y \in S : Before(S, y) = n - 1
  BY <1>3, <1>5
<1>7. Nth(S, n) \in S /\ Before(S, Nth(S, n)) = n - 1
  BY <1>6 DEF Nth
<1>8. n - 1 = Before(S, x)
  BY <1>3, <1>5
<1> QED
  BY <1>3, <1>4, <1>5, <1>7, <1>8

\* The words of one read, by the layout it was asked in.
LEMMA WordsByLayout ==
    ASSUME NEW ids, NEW ticks, NEW makers, IsFiniteSet(ticks), IsFiniteSet(makers),
           ticks \subseteq Int, makers \subseteq Int,
           NEW world, NEW words, words = [w \in DOMAIN Slots(ids, ticks, makers) |-> SlotWord(Slots(ids, ticks, makers)[w], world)]
    PROVE  /\ words[1] = SlotWord(Global, world)
           /\ \A t \in ticks : words[TickWord(ticks, t)] = SlotWord(TickSlot(t), world)
           /\ \A i \in makers : words[InsideWord(ticks, makers, i)] = SlotWord(InsideSlot(ids[i]), world)
<1> DEFINE first == Cardinality(ticks) + 1
           last == first + Cardinality(makers)
           slots == Slots(ids, ticks, makers)
<1>1. Cardinality(ticks) \in Nat /\ Cardinality(makers) \in Nat
  BY FS_CardinalityType
<1>2. slots = [w \in 1..last |->
                  CASE w = 1 -> Global
                    [] w \in 2..first -> TickSlot(Nth(ticks, w - 1))
                    [] w > first -> InsideSlot(ids[Nth(makers, w - first)])]
  BY DEF Slots
<1>3. 1 \in 1..last /\ slots[1] = Global
  <2>1. 1 \in 1..last /\ 1 \notin 2..first /\ ~(1 > first)
    BY <1>1
  <2> QED
    BY <1>2, <2>1
<1>4. ASSUME NEW t \in ticks
      PROVE  TickWord(ticks, t) \in 1..last /\ slots[TickWord(ticks, t)] = TickSlot(t)
  <2>1. PICK b : b = Before(ticks, t)
    OBVIOUS
  <2>2. b \in Nat /\ b < Cardinality(ticks) /\ Nth(ticks, b + 1) = t
    BY <2>1, PlacesTell
  <2>3. PICK w : w = 2 + b
    OBVIOUS
  <2>4. w \in 1..last /\ w # 1 /\ w \in 2..first /\ ~(w > first) /\ w - 1 = b + 1
    BY <1>1, <2>2, <2>3
  <2>5. slots[w] = TickSlot(Nth(ticks, w - 1))
    BY <1>2, <2>4
  <2> QED
    BY <2>1, <2>2, <2>3, <2>4, <2>5 DEF TickWord
<1>5. ASSUME NEW i \in makers
      PROVE  InsideWord(ticks, makers, i) \in 1..last /\ slots[InsideWord(ticks, makers, i)] = InsideSlot(ids[i])
  <2>1. PICK b : b = Before(makers, i)
    OBVIOUS
  <2>2. b \in Nat /\ b < Cardinality(makers) /\ Nth(makers, b + 1) = i
    BY <2>1, PlacesTell
  <2>3. PICK w : w = 2 + Cardinality(ticks) + b
    OBVIOUS
  <2>4. w \in 1..last /\ w # 1 /\ w \notin 2..first /\ w > first /\ w - first = b + 1
    BY <1>1, <2>2, <2>3
  <2>5. slots[w] = InsideSlot(ids[Nth(makers, w - first)])
    BY <1>2, <2>4
  <2> QED
    BY <2>1, <2>2, <2>3, <2>4, <2>5 DEF InsideWord
<1>6. DOMAIN slots = 1..last
  BY <1>2
<1>7. \A w \in 1..last : words[w] = SlotWord(slots[w], world)
  BY <1>6
<1> HIDE DEF slots, last
<1> QED
  BY <1>3, <1>4, <1>5, <1>7

\* A quotient is what its definition says.
LEMMA QuotientIs ==
    ASSUME NEW a \in Nat, NEW b \in Nat \ {0}
    PROVE  /\ a \div b \in Nat /\ (a \div b) * b \in Nat
           /\ (a \div b) * b <= a /\ a < (a \div b) * b + b
OBVIOUS

LEMMA QuotientOf ==
    ASSUME NEW q \in Nat, NEW b \in Nat \ {0}, NEW a \in Nat, q * b <= a, a < q * b + b
    PROVE  a \div b = q
<1> DEFINE d == a \div b
<1>1. d \in Nat /\ d * b \in Nat /\ d * b <= a /\ a < d * b + b
  BY QuotientIs
<1> HIDE DEF d
<1>2. ASSUME d < q PROVE FALSE
  <2>1. (q - d) \in Nat \ {0} /\ (q - d) * b >= b /\ q * b = d * b + (q - d) * b
    BY <1>1, <1>2
  <2> QED
    BY <1>1, <2>1
<1>3. ASSUME q < d PROVE FALSE
  <2>1. (d - q) \in Nat \ {0} /\ (d - q) * b >= b /\ d * b = q * b + (d - q) * b
    BY <1>1, <1>3
  <2> QED
    BY <1>1, <2>1
<1> QED
  BY <1>1, <1>2, <1>3 DEF d

\* Where a chunk begins and ends among the ids, and the chunk an id is in.
StartOf(c) == (c - 1) * MaxRowBatch
EndOf(c) == Lesser(c * MaxRowBatch, Len(Asked))
ChunkAt(k) == ((k - 1) \div MaxRowBatch) + 1

\* The chunks cover the ids, one after the other.
LEMMA ChunksCover ==
    /\ Chunks \in Nat \ {0} /\ Len(Asked) \in Nat \ {0} /\ DOMAIN Asked = 1..Len(Asked)
    /\ StartOf(1) = 0 /\ EndOf(Chunks) = Len(Asked)
    /\ \A c \in 1..Chunks :
        /\ StartOf(c) \in Nat /\ EndOf(c) \in Nat /\ StartOf(c) < EndOf(c) /\ EndOf(c) <= Len(Asked)
        /\ c # Chunks => EndOf(c) = StartOf(c + 1)
        /\ \A k \in (StartOf(c) + 1)..EndOf(c) : ChunkAt(k) = c
<1> DEFINE n == Len(Asked)
           M == MaxRowBatch
           N == Chunks
<1>1. n \in Nat \ {0} /\ M \in Nat \ {0} /\ DOMAIN Asked = 1..n
  BY BatchAssumption
<1>2. N = (n + M - 1) \div M
  BY DEF Chunks
<1> HIDE DEF n, M, N
<1>3. N \in Nat /\ N * M \in Nat /\ N * M <= n + M - 1 /\ n + M - 1 < N * M + M
  <2>1. n + M - 1 \in Nat
    BY <1>1
  <2> QED
    BY <1>1, <1>2, <2>1, QuotientIs
<1>4. N # 0 /\ n <= N * M
  BY <1>1, <1>3
<1>5. ASSUME NEW c \in 1..N
      PROVE  /\ (c - 1) * M \in Nat /\ c * M = (c - 1) * M + M /\ c * M \in Nat
             /\ (c - 1) * M < n
             /\ c # N => c * M < n /\ (c + 1 - 1) * M = c * M
  <2>1. c \in Nat /\ c - 1 \in Nat /\ N - c \in Nat
    BY <1>3
  <2>2. (c - 1) * M \in Nat /\ c * M = (c - 1) * M + M /\ c * M \in Nat
    BY <1>1, <2>1
  <2>3. N * M = c * M + (N - c) * M /\ (N - c) * M \in Nat
    BY <1>1, <1>3, <2>1
  <2>4. (c - 1) * M < n
    BY <1>1, <1>3, <2>2, <2>3
  <2>5. c # N => (N - c) * M >= M
    BY <1>1, <1>3, <2>1
  <2>6. c # N => c * M < n
    BY <1>1, <1>3, <2>2, <2>3, <2>5
  <2>7. c + 1 - 1 = c
    BY <2>1
  <2> QED
    BY <2>2, <2>4, <2>6, <2>7
<1>6. ASSUME NEW c \in 1..N
      PROVE  /\ StartOf(c) \in Nat /\ EndOf(c) \in Nat /\ StartOf(c) < EndOf(c) /\ EndOf(c) <= n
             /\ c # N => EndOf(c) = StartOf(c + 1)
             /\ \A k \in (StartOf(c) + 1)..EndOf(c) : ChunkAt(k) = c
  <2>1. PICK p : p = (c - 1) * M
    OBVIOUS
  <2>2. p \in Nat /\ c * M = p + M /\ p < n /\ (c # N => p + M < n /\ (c + 1 - 1) * M = p + M)
    BY <1>5, <2>1
  <2>3. StartOf(c) = p /\ EndOf(c) = Lesser(p + M, n) /\ StartOf(c + 1) = (c + 1 - 1) * M
    BY <2>1, <2>2 DEF StartOf, EndOf, n, M
  <2>4. EndOf(c) \in Nat /\ p < EndOf(c) /\ EndOf(c) <= n /\ EndOf(c) <= p + M
    BY <1>1, <2>2, <2>3 DEF Lesser
  <2>5. c # N => EndOf(c) = StartOf(c + 1)
    BY <1>1, <2>2, <2>3 DEF Lesser
  <2>6. ASSUME NEW k \in (p + 1)..EndOf(c) PROVE ChunkAt(k) = c
    <3>1. PICK j : j = k - 1
      OBVIOUS
    <3>2. j \in Nat /\ p <= j /\ j < p + M
      BY <1>1, <2>2, <2>4, <3>1
    <3>3. c - 1 \in Nat
      BY <1>3
    <3>4. j \div M = c - 1
      BY <1>1, <2>1, <3>2, <3>3, QuotientOf
    <3>5. c - 1 + 1 = c
      BY <1>3
    <3> QED
      BY <3>1, <3>4, <3>5 DEF ChunkAt, M
  <2> QED
    BY <2>2, <2>3, <2>4, <2>5, <2>6
<1>7. StartOf(1) = 0
  <2>1. (1 - 1) * M = 0
    BY <1>1
  <2> QED
    BY <2>1 DEF StartOf, M
<1>8. EndOf(N) = n
  <2>1. PICK e : e = N * M
    OBVIOUS
  <2>2. EndOf(N) = Lesser(e, n)
    BY <2>1 DEF EndOf, n, M
  <2> QED
    BY <1>1, <1>3, <1>4, <2>1, <2>2 DEF Lesser
<1> QED
  BY <1>1, <1>3, <1>4, <1>6, <1>7, <1>8 DEF n, N

\* What a chunk asks for.
LEMMA ChunkIdsAre ==
    ASSUME NEW c \in 1..Chunks
    PROVE  /\ DOMAIN ChunkIds(c) = 1..(EndOf(c) - StartOf(c))
           /\ \A i \in DOMAIN ChunkIds(c) :
                StartOf(c) + i \in DOMAIN Asked /\ ChunkIds(c)[i] = Asked[StartOf(c) + i]
<1>1. PICK p, q : p = StartOf(c) /\ q = EndOf(c)
  OBVIOUS
<1>2. p \in Nat /\ q \in Nat /\ p < q /\ q <= Len(Asked) /\ Asked \in Seq(Nat) /\ DOMAIN Asked = 1..Len(Asked)
  BY <1>1, ChunksCover, BatchAssumption
<1>3. ChunkIds(c) = SubSeq(Asked, p + 1, q)
  BY <1>1 DEF ChunkIds, StartOf, EndOf
<1>4. DOMAIN SubSeq(Asked, p + 1, q) = 1..(q - p)
      /\ \A i \in 1..(q - p) : SubSeq(Asked, p + 1, q)[i] = Asked[p + i] /\ p + i \in 1..Len(Asked)
  BY <1>2
<1> QED
  BY <1>1, <1>2, <1>3, <1>4

\* What defines a sequence of sequences put together, by its beginnings.
LEMMA Flattened ==
    ASSUME NEW n \in Nat \ {0}, NEW F, NEW S, NEW G \in [1..n -> S], Len(F) = n,
           G[1] = F[1], \A c \in 1..n : c # 1 => G[c] = G[c - 1] \o F[c]
    PROVE  FlattenSeq(F) = G[n]
<1> DEFINE Next1(f) == [c \in 1..Len(F) |-> IF c = 1 THEN F[c] ELSE f[c - 1] \o F[c]]
           flat == CHOOSE f : f = Next1(f)
<1>1. FlattenSeq(F) = flat[n]
  BY DEF FlattenSeq
<1>2. G = Next1(G)
  <2>1. \A c \in 1..n : G[c] = IF c = 1 THEN F[c] ELSE G[c - 1] \o F[c]
    OBVIOUS
  <2> QED
    BY <2>1
<1>3. flat = Next1(flat)
  BY <1>2
<1> HIDE DEF flat
<1>4. \A c \in 1..n : flat[c] = IF c = 1 THEN F[c] ELSE flat[c - 1] \o F[c]
  <2>1. flat = [c \in 1..n |-> IF c = 1 THEN F[c] ELSE flat[c - 1] \o F[c]]
    BY <1>3
  <2> QED
    BY <2>1
<1>5. \A c \in 1..n : flat[c] = G[c]
  <2> DEFINE wrong == {c \in 1..n : flat[c] # G[c]}
  <2> SUFFICES ASSUME wrong # {} PROVE FALSE
    OBVIOUS
  <2>1. wrong \subseteq Nat
    OBVIOUS
  <2>2. PICK c \in wrong : \A d \in wrong : c <= d
    <3> HIDE DEF wrong
    <3> QED
      BY <2>1, LeastNatural
  <2>3. c # 1
    BY <1>4, <2>2
  <2>4. c - 1 \in 1..n /\ c - 1 \notin wrong /\ c \in 1..n
    BY <2>2, <2>3
  <2>5. flat[c - 1] = G[c - 1]
    BY <2>4
  <2>6. flat[c] = flat[c - 1] \o F[c]
    BY <1>4, <2>3, <2>4
  <2>7. G[c] = G[c - 1] \o F[c]
    BY <2>3, <2>4
  <2>8. flat[c] # G[c]
    BY <2>2
  <2> HIDE DEF wrong
  <2> QED
    BY <2>5, <2>6, <2>7, <2>8
<1> QED
  BY <1>1, <1>5

LEMMA SequenceOf ==
    ASSUME NEW m \in Nat, NEW S, NEW f, f = [k \in 1..m |-> f[k]], \A k \in 1..m : f[k] \in S
    PROVE  f \in Seq(S) /\ Len(f) = m /\ DOMAIN f = 1..m
<1>1. f \in [1..m -> S]
  OBVIOUS
<1> QED
  BY <1>1

LEMMA SameSequence ==
    ASSUME NEW S, NEW s \in Seq(S), NEW t \in Seq(S), Len(s) = Len(t), \A k \in 1..Len(s) : s[k] = t[k]
    PROVE  s = t
OBVIOUS

\* What the chunks say one after the other is, at each id's place, what its
\* chunk says of it.
LEMMA EachInItsPlace ==
    ASSUME NEW F, F = [c \in 1..Chunks |-> F[c]],
           \A c \in 1..Chunks : F[c] = [i \in DOMAIN ChunkIds(c) |-> F[c][i]]
    PROVE  FlattenSeq(F) = [k \in 1..Len(Asked) |-> F[ChunkAt(k)][k - StartOf(ChunkAt(k))]]
<1> DEFINE n == Len(Asked)
           N == Chunks
           item(k) == F[ChunkAt(k)][k - StartOf(ChunkAt(k))]
           S == {item(k) : k \in 1..n}
           G == [c \in 1..N |-> [k \in 1..EndOf(c) |-> item(k)]]
<1>1. /\ N \in Nat \ {0} /\ n \in Nat \ {0} /\ StartOf(1) = 0 /\ EndOf(N) = n
      /\ \A c \in 1..N :
            /\ StartOf(c) \in Nat /\ EndOf(c) \in Nat /\ StartOf(c) < EndOf(c) /\ EndOf(c) <= n
            /\ c # N => EndOf(c) = StartOf(c + 1)
            /\ \A k \in (StartOf(c) + 1)..EndOf(c) : ChunkAt(k) = c
  BY ChunksCover
<1> HIDE DEF n, N
<1>2. \A k \in 1..n : item(k) \in S
  OBVIOUS
<1>3. ASSUME NEW c \in 1..N
      PROVE  \A k \in (StartOf(c) + 1)..EndOf(c) : item(k) = F[c][k - StartOf(c)]
  BY <1>1
<1> HIDE DEF item, S
<1>4. ASSUME NEW c \in 1..N
      PROVE  /\ F[c] \in Seq(S) /\ Len(F[c]) = EndOf(c) - StartOf(c)
             /\ \A k \in (StartOf(c) + 1)..EndOf(c) : F[c][k - StartOf(c)] = item(k)
  <2>1. PICK p, q : p = StartOf(c) /\ q = EndOf(c)
    OBVIOUS
  <2>2. p \in Nat /\ q \in Nat /\ p < q /\ q <= n /\ \A k \in (p + 1)..q : item(k) = F[c][k - p]
    BY <1>1, <1>3, <2>1
  <2>3. DOMAIN ChunkIds(c) = 1..(q - p)
    BY <2>1, ChunkIdsAre DEF N
  <2>4. F[c] = [i \in 1..(q - p) |-> F[c][i]]
    BY <2>3 DEF N
  <2>5. ASSUME NEW i \in 1..(q - p) PROVE F[c][i] \in S
    <3>1. PICK k : k = p + i
      OBVIOUS
    <3>2. k \in (p + 1)..q /\ k - p = i /\ k \in 1..n
      BY <1>1, <2>2, <3>1
    <3> QED
      BY <1>2, <2>2, <3>2
  <2>6. q - p \in Nat
    BY <2>2
  <2> QED
    BY <2>1, <2>2, <2>4, <2>5, <2>6, SequenceOf
<1>5. ASSUME NEW c \in 1..N
      PROVE  /\ G[c] \in Seq(S) /\ Len(G[c]) = EndOf(c)
             /\ \A k \in 1..EndOf(c) : G[c][k] = item(k)
  <2>1. PICK q : q = EndOf(c)
    OBVIOUS
  <2>2. q \in Nat /\ q <= n
    BY <1>1, <2>1
  <2>3. G[c] = [k \in 1..q |-> item(k)]
    BY <2>1
  <2> HIDE DEF G
  <2>4. G[c] = [k \in 1..q |-> G[c][k]] /\ \A k \in 1..q : G[c][k] = item(k)
    BY <2>3
  <2>5. \A k \in 1..q : G[c][k] \in S
    BY <1>1, <1>2, <2>2, <2>4
  <2> QED
    BY <2>1, <2>2, <2>4, <2>5, SequenceOf
<1>6. G \in [1..N -> {G[c] : c \in 1..N}]
  OBVIOUS
<1> HIDE DEF G
<1>7. 1 \in 1..N /\ N \in 1..N
  BY <1>1
<1>8. G[1] = F[1]
  <2>1. PICK q : q = EndOf(1)
    OBVIOUS
  <2>2. q \in Nat /\ StartOf(1) = 0
    BY <1>1, <1>7, <2>1
  <2>3. /\ G[1] \in Seq(S) /\ Len(G[1]) = q /\ \A k \in 1..q : G[1][k] = item(k)
    BY <1>5, <1>7, <2>1
  <2>4. /\ F[1] \in Seq(S) /\ Len(F[1]) = q /\ \A k \in 1..q : F[1][k] = item(k)
    <3>1. /\ F[1] \in Seq(S) /\ Len(F[1]) = q - 0
          /\ \A k \in (0 + 1)..q : F[1][k - 0] = item(k)
      BY <1>4, <1>7, <2>1, <2>2
    <3>2. q - 0 = q /\ \A k \in 1..q : k \in (0 + 1)..q /\ k - 0 = k
      BY <2>2
    <3> QED
      BY <3>1, <3>2
  <2>5. PICK g, f : g = G[1] /\ f = F[1]
    OBVIOUS
  <2>6. g \in Seq(S) /\ f \in Seq(S) /\ Len(g) = Len(f) /\ \A k \in 1..Len(g) : g[k] = f[k]
    BY <2>3, <2>4, <2>5
  <2>7. g = f
    BY <2>6, SameSequence
  <2> QED
    BY <2>5, <2>7
<1>9. ASSUME NEW c \in 1..N, c # 1 PROVE G[c] = G[c - 1] \o F[c]
  <2>1. PICK b, p, q : b = c - 1 /\ p = StartOf(c) /\ q = EndOf(c)
    OBVIOUS
  <2>2. b \in 1..N /\ b # N /\ b + 1 = c
    BY <1>1, <1>9, <2>1
  <2>3. EndOf(b) = p /\ p \in Nat /\ q \in Nat /\ p < q
    BY <1>1, <2>1, <2>2
  <2>4. /\ G[b] \in Seq(S) /\ Len(G[b]) = p /\ \A k \in 1..p : G[b][k] = item(k)
    BY <1>5, <2>2, <2>3
  <2>5. /\ F[c] \in Seq(S) /\ Len(F[c]) = q - p /\ \A k \in (p + 1)..q : F[c][k - p] = item(k)
    BY <1>4, <2>1
  <2>6. /\ G[c] \in Seq(S) /\ Len(G[c]) = q /\ \A k \in 1..q : G[c][k] = item(k)
    BY <1>5, <2>1
  <2>7. /\ G[b] \o F[c] \in Seq(S) /\ Len(G[b] \o F[c]) = p + (q - p)
        /\ \A k \in 1..p : (G[b] \o F[c])[k] = G[b][k]
        /\ \A k \in (p + 1)..(p + (q - p)) : (G[b] \o F[c])[k] = F[c][k - p]
    <3>1. PICK s, t : s = G[b] /\ t = F[c]
      OBVIOUS
    <3>2. s \in Seq(S) /\ t \in Seq(S) /\ Len(s) = p /\ Len(t) = q - p
      BY <2>4, <2>5, <3>1
    <3>3. /\ s \o t \in Seq(S) /\ Len(s \o t) = Len(s) + Len(t)
          /\ \A k \in 1..Len(s) : (s \o t)[k] = s[k]
          /\ \A k \in (Len(s) + 1)..(Len(s) + Len(t)) : (s \o t)[k] = t[k - Len(s)]
      BY <3>2
    <3> QED
      BY <3>1, <3>2, <3>3
  <2>8. p + (q - p) = q
    BY <2>3
  <2>9. \A k \in 1..q : k \in 1..p \/ k \in (p + 1)..q
    BY <2>3
  <2>10. \A k \in 1..q : (G[b] \o F[c])[k] = item(k)
    BY <2>4, <2>5, <2>7, <2>8, <2>9
  <2>11. Len(G[b] \o F[c]) = Len(G[c]) /\ \A k \in 1..Len(G[c]) : G[c][k] = (G[b] \o F[c])[k]
    BY <2>6, <2>7, <2>8, <2>10
  <2>12. G[c] = G[b] \o F[c]
    BY <2>6, <2>7, <2>11, SameSequence
  <2> QED
    BY <2>1, <2>12
<1>10. FlattenSeq(F) = G[N]
  <2>1. F = [c \in 1..N |-> F[c]] /\ \A c \in 1..N : F[c] \in {F[d] : d \in 1..N}
    BY DEF N
  <2>2. Len(F) = N
    BY <1>1, <2>1, SequenceOf
  <2>3. \A c \in 1..N : c # 1 => G[c] = G[c - 1] \o F[c]
    BY <1>9
  <2> QED
    BY <1>1, <1>6, <1>8, <2>2, <2>3, Flattened
<1>11. G[N] = [k \in 1..n |-> item(k)]
  BY <1>1, <1>7 DEF G
<1> QED
  BY <1>10, <1>11 DEF item, n

\* What a batch stands on beside its own answers: the latch is never set but
\* by an endpoint without the method, the blocks are the session's worlds, and
\* a batch is a session's own operation.
BatchJob(job) ==
    /\ job.op \in BatchReads => ~session.trades /\ job.op \in session.ops
    /\ \A r \in DOMAIN job.answers : job.answers[r] = Failure("unsupported") => ~proves

LatchOK == ~proofs => ~proves
SessionWorlds == ~session.trades => \A h \in DOMAIN said : said[h].world \in session.worlds
BatchInv == LatchOK /\ SessionWorlds /\ \A i \in DOMAIN jobs : BatchJob(jobs[i])

\* Only an endpoint without the method says so.
LEMMA OnlyUnsupported ==
    /\ \A v : Value(v) # Failure("unsupported")
    /\ \A kind : kind # "unsupported" => Failure(kind) # Failure("unsupported")
<1>1. \A v : DOMAIN Value(v) = {"value"}
  BY DEF Value
<1>2. \A kind : DOMAIN Failure(kind) = {"failed"} /\ Failure(kind).failed = kind
  BY DEF Failure
<1> QED
  BY <1>1, <1>2

LEMMA ServedIsSupported ==
    ASSUME NEW job, NEW request, NEW behind, NEW answer \in Served(job, request, behind)
    PROVE  answer # Failure("unsupported")
<1> DEFINE bad == Failure("unsupported")
<1>1. Missing # bad /\ Failure("SimulationReverted") # bad /\ \A v : Value(v) # bad
  BY OnlyUnsupported DEF Missing
<1> HIDE DEF bad
<1>2. \A hash : bad \notin PinnedAnswers(request, hash, behind)
  BY <1>1 DEF PinnedAnswers
<1>3. CASE request.call = "head"
  BY <1>1, <1>3 DEF Served, Pinned, bad
<1>4. CASE request.call = "header"
  <2>1. PICK number : number = IF job.how = "number" THEN job.at ELSE Got(job.held, R("head"))
    OBVIOUS
  <2>2. answer \in {IF number \in 1..Seen(behind) THEN Value(chain[number]) ELSE Missing}
    BY <1>4, <2>1 DEF Served, Pinned
  <2>3. answer = Missing \/ answer = Value(chain[number])
    BY <2>2
  <2> QED
    BY <1>1, <2>3 DEF bad
<1>5. CASE request.call \notin {"head", "header"}
  <2>1. \/ answer \in PinnedAnswers(request, BlockOf(job), behind)
        \/ answer \in {IF Reverts(request.tx, Holder, WorldAt(chain[Seen(behind)]))
                        THEN Failure("SimulationReverted") ELSE Value(0)}
        \/ answer \in {Value(Says(request, WorldAt(chain[Seen(behind)])))}
    BY <1>5 DEF Served
  <2>2. answer # bad
    BY <1>1, <1>2, <2>1
  <2> QED
    BY <2>2 DEF bad
<1> QED
  BY <1>3, <1>4, <1>5

LEMMA FaultIsSupported ==
    ASSUME NEW job, NEW request, NEW answer \in Faults(job, request)
    PROVE  answer # Failure("unsupported")
<1>1. (\E v : answer = Value(v)) \/ (\E kind \in {"Rpc", "StateUnavailable", "short"} : answer = Failure(kind))
  BY DEF Faults
<1> QED
  BY <1>1, OnlyUnsupported

-----------------------------------------------------------------------------

LEMMA OneBatchGoesOn ==
    ASSUME \A j \in DOMAIN jobs : BatchJob(jobs[j]), UNCHANGED <<session, proves>>,
           NEW i \in DOMAIN jobs, NEW after, after.op = jobs[i].op,
           \A r \in DOMAIN after.answers : after.answers[r] = Failure("unsupported") => ~proves,
           jobs' = [jobs EXCEPT ![i] = after]
    PROVE  (\A j \in DOMAIN jobs : BatchJob(jobs[j]))'
<1>1. DOMAIN jobs' = DOMAIN jobs
  OBVIOUS
<1>2. ASSUME NEW j \in DOMAIN jobs PROVE jobs'[j] = after \/ jobs'[j] = jobs[j]
  OBVIOUS
<1>3. BatchJob(after)
  BY DEF BatchJob
<1>4. ASSUME NEW j \in DOMAIN jobs PROVE BatchJob(jobs'[j])
  BY <1>2, <1>3
<1> QED
  BY <1>1, <1>4 DEF BatchJob

LEMMA TakeKeepsBatch ==
    ASSUME JobsOK, \A j \in DOMAIN jobs : BatchJob(jobs[j]), UNCHANGED <<session, proves>>,
           NEW i \in DOMAIN jobs, NEW request, NEW answer, answer = Failure("unsupported") => ~proves,
           Take(i, request, answer)
    PROVE  (\A j \in DOMAIN jobs : BatchJob(jobs[j]))'
<1>1. PICK job : job = jobs[i]
  OBVIOUS
<1>2. JobOK(job) /\ BatchJob(job)
  BY <1>1 DEF JobsOK
<1>3. PICK after : after = Took(job, request, answer)
  OBVIOUS
<1>4. jobs' = [jobs EXCEPT ![i] = after]
  BY <1>1, <1>3 DEF Take, Took
<1>5. after.op = job.op /\ after.answers = Put(job.answers, request, answer)
  BY <1>2, <1>3 DEF Took, JobOK, IsJob
<1>6. \A r \in DOMAIN after.answers : after.answers[r] = Failure("unsupported") => ~proves
  <2> SUFFICES ASSUME NEW r \in DOMAIN after.answers, after.answers[r] = Failure("unsupported") PROVE ~proves
    OBVIOUS
  <2>1. CASE r = request
    BY <1>5, <2>1 DEF Put
  <2>2. CASE r # request
    <3>1. r \in DOMAIN job.answers /\ after.answers[r] = job.answers[r]
      BY <1>5, <2>2 DEF Put
    <3> QED
      BY <1>2, <3>1 DEF BatchJob
  <2> QED
    BY <2>1, <2>2
<1> QED
  BY <1>1, <1>4, <1>5, <1>6, OneBatchGoesOn

LEMMA BeginKeepsBatch ==
    ASSUME JobsOK, \A j \in DOMAIN jobs : BatchJob(jobs[j]), UNCHANGED <<session, proves>>,
           NEW new, new.answers = << >>,
           new.op \in BatchReads => ~session.trades /\ new.op \in session.ops,
           jobs' = Append(jobs, new)
    PROVE  (\A j \in DOMAIN jobs : BatchJob(jobs[j]))'
<1>1. PICK S : jobs \in Seq(S)
  BY DEF JobsOK
<1>2. jobs \in Seq(S \cup {new}) /\ new \in S \cup {new}
  BY <1>1
<1>3. /\ DOMAIN jobs' = 1..(Len(jobs) + 1) /\ DOMAIN jobs = 1..Len(jobs) /\ Len(jobs) \in Nat
      /\ \A j \in 1..Len(jobs) : jobs'[j] = jobs[j]
      /\ jobs'[Len(jobs) + 1] = new
  BY <1>2, Appended
<1>4. BatchJob(new)
  BY DEF BatchJob
<1>5. ASSUME NEW j \in DOMAIN jobs' PROVE BatchJob(jobs'[j])
  BY <1>3, <1>4
<1> QED
  BY <1>5 DEF BatchJob

LEMMA PollKeepsBatch ==
    ASSUME JobsOK, BatchInv, UNCHANGED <<session, proves>>, NEW i \in DOMAIN jobs, Poll(i)
    PROVE  LatchOK' /\ (\A j \in DOMAIN jobs : BatchJob(jobs[j]))'
<1> DEFINE broken == {r \in DOMAIN jobs[i].answers : Broken(jobs[i], r)}
<1>1. PICK job : job = jobs[i]
  OBVIOUS
<1>2. JobOK(job) /\ IsJob(job) /\ BatchJob(job) /\ \A j \in DOMAIN jobs : BatchJob(jobs[j])
  BY <1>1 DEF JobsOK, JobOK, BatchInv
<1>3. ASSUME NEW r, jobs' = [jobs EXCEPT ![i] = [job EXCEPT !.done = TRUE, !.asked = {}, !.refused = {r}]],
             UNCHANGED proofs
      PROVE  LatchOK' /\ (\A j \in DOMAIN jobs : BatchJob(jobs[j]))'
  <2>1. PICK after : after = [job EXCEPT !.done = TRUE, !.asked = {}, !.refused = {r}]
    OBVIOUS
  <2>2. after.op = job.op /\ after.answers = job.answers
    BY <1>2, <2>1 DEF IsJob
  <2>3. jobs' = [jobs EXCEPT ![i] = after]
    BY <1>3, <2>1
  <2>4. \A q \in DOMAIN after.answers : after.answers[q] = Failure("unsupported") => ~proves
    BY <1>2, <2>2 DEF BatchJob
  <2>5. LatchOK'
    BY <1>3 DEF BatchInv, LatchOK
  <2> QED
    BY <1>1, <1>2, <2>2, <2>3, <2>4, <2>5, OneBatchGoesOn
<1>4. ASSUME broken = {}, proofs' = (proofs /\ ~Unsupported(job)),
             jobs' = [jobs EXCEPT ![i] =
                        Resume([job EXCEPT !.held = Over(job.answers, @), !.answers = << >>, !.asked = {}], clock)]
      PROVE  LatchOK' /\ (\A j \in DOMAIN jobs : BatchJob(jobs[j]))'
  <2>1. PICK mid : mid = [job EXCEPT !.held = Over(job.answers, @), !.answers = << >>, !.asked = {}]
    OBVIOUS
  <2>2. \A r \in DOMAIN job.answers : ~Broken(job, r)
    BY <1>1, <1>4
  <2>3. IsJob(mid) /\ HeldOK(mid) /\ mid.answers = << >> /\ mid.op = job.op
    BY <1>2, <2>1, <2>2, AnsweredIsHeld
  <2>4. PICK after : after = Resume(mid, clock)
    OBVIOUS
  <2>5. after.op = job.op /\ after.answers = << >>
    BY <2>3, <2>4, ResumedIsSound
  <2>6. jobs' = [jobs EXCEPT ![i] = after]
    BY <1>4, <2>1, <2>4
  <2>7. \A q \in DOMAIN after.answers : after.answers[q] = Failure("unsupported") => ~proves
    BY <2>5
  <2>8. Unsupported(job) => ~proves
    BY <1>2 DEF Unsupported, BatchJob
  <2>9. LatchOK'
    BY <1>4, <2>8 DEF BatchInv, LatchOK
  <2> QED
    BY <1>1, <1>2, <2>5, <2>6, <2>7, <2>9, OneBatchGoesOn
<1> QED
  BY <1>1, <1>3, <1>4 DEF Poll

LEMMA ReadsKeepBatch ==
    ASSUME JobsOK, BatchInv, ReadsNext
    PROVE  LatchOK' /\ (\A j \in DOMAIN jobs : BatchJob(jobs[j]))'
<1>1. UNCHANGED <<session, proves>>
  BY DEF ReadsNext, BeginRead, Begin, Serve, Fault, Poll, Invalidate
<1>2. \A j \in DOMAIN jobs : BatchJob(jobs[j])
  BY DEF BatchInv
<1>3. UNCHANGED proofs => LatchOK'
  BY <1>1 DEF BatchInv, LatchOK
<1>4. CASE BeginRead
  <2>1. PICK op \in session.ops : \E how, number : Begin(op, how, number)
    BY <1>4 DEF BeginRead
  <2>2. PICK how, number : Begin(op, how, number)
    BY <2>1
  <2>3. PICK new : new = Resume(NewJob(op, how, number), clock)
    OBVIOUS
  <2>4. new.op = op /\ new.answers = << >>
    BY <2>3, NewJobIsSound
  <2>5. jobs' = Append(jobs, new) /\ UNCHANGED proofs /\ ~session.trades
    BY <1>4, <2>2, <2>3 DEF Begin, BeginRead
  <2> QED
    BY <1>1, <1>2, <1>3, <2>4, <2>5, BeginKeepsBatch
<1>5. ASSUME NEW i \in DOMAIN jobs, NEW request, Serve(i, request)
      PROVE  LatchOK' /\ (\A j \in DOMAIN jobs : BatchJob(jobs[j]))'
  <2>1. UNCHANGED proofs
    BY <1>5 DEF Serve
  <2>2. \E answer : (answer = Failure("unsupported") => ~proves) /\ Take(i, request, answer)
    <3>1. CASE Unproved(request)
      BY <1>5, <3>1 DEF Serve, Unproved
    <3>2. CASE ~Unproved(request)
      BY <1>5, <3>2, ServedIsSupported DEF Serve
    <3> QED
      BY <3>1, <3>2
  <2> QED
    BY <1>1, <1>2, <1>3, <2>1, <2>2, TakeKeepsBatch
<1>6. ASSUME NEW i \in DOMAIN jobs, NEW request, Fault(i, request)
      PROVE  LatchOK' /\ (\A j \in DOMAIN jobs : BatchJob(jobs[j]))'
  <2>1. UNCHANGED proofs
    BY <1>6 DEF Fault
  <2>2. \E answer : (answer = Failure("unsupported") => ~proves) /\ Take(i, request, answer)
    BY <1>6, FaultIsSupported DEF Fault
  <2> QED
    BY <1>1, <1>2, <1>3, <2>1, <2>2, TakeKeepsBatch
<1>7. CASE \E i \in DOMAIN jobs : Poll(i)
  BY <1>1, <1>7, PollKeepsBatch
<1>8. CASE Invalidate
  <2>1. UNCHANGED <<session, proves, proofs, jobs>>
    BY <1>8 DEF Invalidate
  <2> QED
    BY <1>2, <1>3, <2>1 DEF BatchJob
<1> QED
  BY <1>4, <1>5, <1>6, <1>7, <1>8 DEF ReadsNext

LEMMA TradesKeepBatch ==
    ASSUME JobsOK, BatchInv, session.trades, TradesNext(Calls, Theirs)
    PROVE  LatchOK' /\ (\A j \in DOMAIN jobs : BatchJob(jobs[j]))'
<1>1. UNCHANGED <<session, proves, proofs>>
  BY DEF TradesNext, BeginTrade, Submit, SendFails, Receipt, TimeOut, MineOurs, MineTheirs, client
<1>2. \A j \in DOMAIN jobs : BatchJob(jobs[j])
  BY DEF BatchInv
<1>3. LatchOK'
  BY <1>1 DEF BatchInv, LatchOK
<1>4. UNCHANGED jobs => (\A j \in DOMAIN jobs : BatchJob(jobs[j]))'
  BY <1>1, <1>2 DEF BatchJob
<1>5. ASSUME NEW call \in Calls, BeginTrade(call.op, call.params)
      PROVE  (\A j \in DOMAIN jobs : BatchJob(jobs[j]))'
  <2>1. call.op \notin BatchReads
    <3>1. call \in CallShapes
      BY SessionAssumption
    <3> QED
      BY <3>1 DEF CallShapes, BatchReads
  <2>2. PICK bare : bare = NewJob(call.op, call.params, 0)
    OBVIOUS
  <2>3. PICK refused : refused = [bare EXCEPT !.done = TRUE, !.refused = {R("invalid")}]
    OBVIOUS
  <2>4. refused.op = call.op /\ refused.answers = << >>
    BY <2>2, <2>3 DEF NewJob
  <2>5. Resume(bare, clock).op = call.op /\ Resume(bare, clock).answers = << >>
    BY <2>2, NewJobIsSound
  <2>6. \E new : new.op = call.op /\ new.answers = << >> /\ jobs' = Append(jobs, new)
    <3>1. CASE Invalid(call.op, call.params)
      BY <1>5, <2>2, <2>3, <2>4, <3>1 DEF BeginTrade
    <3>2. CASE ~Invalid(call.op, call.params)
      BY <1>5, <2>2, <2>5, <3>2 DEF BeginTrade
    <3> QED
      BY <3>1, <3>2
  <2> QED
    BY <1>1, <1>2, <2>1, <2>6, BeginKeepsBatch
<1>6. ASSUME NEW i \in DOMAIN jobs, NEW request,
             Submit(i, request) \/ SendFails(i, request) \/ Receipt(i, request) \/ TimeOut(i, request)
      PROVE  (\A j \in DOMAIN jobs : BatchJob(jobs[j]))'
  <2>1. UNCHANGED jobs \/ \E answer : answer # Failure("unsupported") /\ Take(i, request, answer)
    <3>1. CASE Submit(i, request)
      BY <3>1, OnlyUnsupported DEF Submit
    <3>2. CASE SendFails(i, request)
      <4>1. "unsupported" \notin UnsentErrors
        BY DEF UnsentErrors
      <4> QED
        BY <3>2, <4>1, OnlyUnsupported DEF SendFails
    <3>3. CASE Receipt(i, request)
      BY <3>3, OnlyUnsupported DEF Receipt
    <3>4. CASE TimeOut(i, request)
      BY <3>4, OnlyUnsupported DEF TimeOut
    <3> QED
      BY <1>6, <3>1, <3>2, <3>3, <3>4
  <2> QED
    BY <1>1, <1>2, <1>4, <2>1, TakeKeepsBatch
<1>7. MineOurs \/ (\E tx, from : MineTheirs(tx, from)) => UNCHANGED jobs
  BY DEF MineOurs, MineTheirs, client
<1> QED
  BY <1>3, <1>4, <1>5, <1>6, <1>7 DEF TradesNext

LEMMA LiveKeepsBatch ==
    ASSUME JobsOK, BatchInv, LiveNext
    PROVE  LatchOK' /\ (\A j \in DOMAIN jobs : BatchJob(jobs[j]))'
<1>1. UNCHANGED <<session, proves, proofs>>
  BY DEF LiveNext
<1>2. \A j \in DOMAIN jobs : BatchJob(jobs[j])
  BY DEF BatchInv
<1>3. LatchOK'
  BY <1>1 DEF BatchInv, LatchOK
<1>4. CASE UNCHANGED jobs
  BY <1>1, <1>2, <1>3, <1>4 DEF BatchJob
<1>5. CASE jobs' = <<>>
  BY <1>3, <1>5
<1>6. CASE jobs' = Refresh
  <2>1. PICK new : new = Resume(NewJob("pool", "lagged", 0), clock)
    OBVIOUS
  <2>2. new.op = "pool" /\ new.answers = << >> /\ "pool" \notin BatchReads
    BY <2>1, NewJobIsSound DEF BatchReads
  <2>3. jobs' = Append(jobs, new)
    BY <1>6, <2>1 DEF Refresh
  <2> QED
    BY <1>1, <1>2, <1>3, <2>2, <2>3, BeginKeepsBatch
<1> QED
  BY <1>4, <1>5, <1>6 DEF LiveNext, Subscribe, Started, HeadArrives, Woken, Refreshed, LiveEnds

-----------------------------------------------------------------------------

\* A world of the session's is all a block is mined with.
LEMMA ExtendKeepsSession ==
    ASSUME SessionWorlds, UNCHANGED session, ~session.trades, NEW hashes, NEW worlds, Extend(hashes, worlds),
           \A i \in DOMAIN hashes : worlds[hashes[i][1]] \in session.worlds
    PROVE  SessionWorlds'
<1> DEFINE new == {hashes[i] : i \in DOMAIN hashes}
           fresh == [h \in new |-> [world |-> worlds[h[1]], mined |-> clock]]
<1>1. said' = Over(fresh, said)
  BY Zenon DEF Extend
<1>2. DOMAIN fresh = new /\ \A h \in new : fresh[h].world \in session.worlds
  OBVIOUS
<1> HIDE DEF fresh, new
<1>3. /\ DOMAIN said' = DOMAIN fresh \cup DOMAIN said
      /\ \A h \in DOMAIN fresh : said'[h] = fresh[h]
      /\ \A h \in DOMAIN said : h \notin DOMAIN fresh => said'[h] = said[h]
  <2>1. /\ DOMAIN Over(fresh, said) = DOMAIN fresh \cup DOMAIN said
        /\ \A h \in DOMAIN fresh : Over(fresh, said)[h] = fresh[h]
        /\ \A h \in DOMAIN said : h \notin DOMAIN fresh => Over(fresh, said)[h] = said[h]
    BY OverIs
  <2> QED
    BY <1>1, <2>1
<1>4. \A h \in DOMAIN said' : said'[h].world \in session.worlds
  BY <1>2, <1>3 DEF SessionWorlds
<1> QED
  BY <1>4 DEF SessionWorlds

LEMMA NodeKeepsSession ==
    ASSUME NodeInv, SessionWorlds, NodeNext
    PROVE  SessionWorlds'
<1>1. UNCHANGED session /\ ~session.trades
  BY DEF NodeNext, client
<1>2. Height \in Nat
  BY DEF NodeInv, Height
<1>3. ASSUME NEW w \in session.worlds, MineBlock(w) PROVE SessionWorlds'
  <2>1. PICK n : n = Height + 1
    OBVIOUS
  <2>2. PICK hashes : hashes = <<Hash(n, forks)>>
    OBVIOUS
  <2>3. PICK worlds : worlds = [k \in {n} |-> w]
    OBVIOUS
  <2>4. Extend(hashes, worlds)
    BY <1>3, <2>1, <2>2, <2>3 DEF MineBlock
  <2>5. \A i \in DOMAIN hashes : worlds[hashes[i][1]] \in session.worlds
    <3>1. DOMAIN hashes = {1} /\ hashes[1] = <<n, forks>>
      BY <2>2, OneStep DEF Hash
    <3> QED
      BY <2>3, <3>1
  <2> QED
    BY <1>1, <2>4, <2>5, ExtendKeepsSession
<1>4. ASSUME NEW w \in session.worlds, Reorganize(w) PROVE SessionWorlds'
  <2>1. PICK n : n = Height - Depth
    OBVIOUS
  <2>2. Depth \in Nat /\ Height >= Depth + 1 /\ n \in Nat
    BY <1>2, <1>4, <2>1, ChainAssumption DEF Reorganize
  <2>3. PICK hashes : hashes = [i \in 1..(Depth + 1) |-> Hash(n + i, forks + 1)]
    OBVIOUS
  <2>4. PICK worlds : worlds = [k \in (n + 1)..(Height + 1) |-> w]
    OBVIOUS
  <2>5. Extend(hashes, worlds)
    BY <1>4, <2>1, <2>3, <2>4 DEF Reorganize
  <2>6. ASSUME NEW i \in DOMAIN hashes PROVE worlds[hashes[i][1]] \in session.worlds
    <3>1. i \in 1..(Depth + 1) /\ hashes[i][1] = n + i
      BY <2>3, <2>6 DEF Hash
    <3>2. n + i \in (n + 1)..(Height + 1)
      BY <1>2, <2>1, <2>2, <3>1
    <3> QED
      BY <2>4, <3>1, <3>2
  <2> QED
    BY <1>1, <2>5, <2>6, ExtendKeepsSession
<1>5. UNCHANGED said => SessionWorlds'
  BY <1>1 DEF SessionWorlds
<1> QED
  BY <1>3, <1>4, <1>5 DEF NodeNext, Tick

LEMMA BatchStarts == Init => BatchInv
<1> SUFFICES ASSUME Init PROVE BatchInv
  OBVIOUS
<1>1. jobs = <<>> /\ proofs = TRUE /\ session \in Sessions
  BY DEF Init, ReadsInit
<1>2. PICK first \in session.worlds :
        \E last \in (IF session.reorganizes THEN session.worlds ELSE {first}) :
            said = [h \in {Hash(n, 0) : n \in 1..3} |-> [world |-> IF h[1] = 3 THEN last ELSE first, mined |-> 0]]
  BY DEF Init, ReadsInit
<1>3. PICK last \in session.worlds :
        said = [h \in {Hash(n, 0) : n \in 1..3} |-> [world |-> IF h[1] = 3 THEN last ELSE first, mined |-> 0]]
  BY <1>2
<1>4. \A h \in DOMAIN said : said[h].world \in session.worlds
  BY <1>3
<1> QED
  BY <1>1, <1>4 DEF BatchInv, LatchOK, SessionWorlds

LEMMA BatchKeeps == IInv /\ BatchInv /\ [Next]_vars => BatchInv'
<1> SUFFICES ASSUME IInv, BatchInv, [Next]_vars PROVE BatchInv'
  OBVIOUS
<1>1. NodeInv /\ JobsOK /\ SessionWorlds
  BY DEF IInv, BatchInv
<1>2. ASSUME UNCHANGED <<session, jobs, proofs, proves>>
      PROVE  LatchOK' /\ (\A j \in DOMAIN jobs : BatchJob(jobs[j]))'
  BY <1>2 DEF BatchInv, LatchOK, BatchJob
<1>3. ASSUME UNCHANGED <<session, said>> PROVE SessionWorlds'
  BY <1>1, <1>3 DEF SessionWorlds
<1>4. CASE NodeNext /\ UNCHANGED <<trading, feeding, managing, measuring>>
  BY <1>1, <1>2, <1>4, NodeKeepsSession DEF NodeNext, client, BatchInv
<1>5. CASE ReadsNext /\ UNCHANGED <<trading, feeding, managing, measuring>>
  <2>1. UNCHANGED <<session, said>>
    BY <1>5 DEF ReadsNext, BeginRead, Begin, Serve, Fault, Poll, Invalidate, node
  <2> QED
    BY <1>1, <1>3, <1>5, <2>1, ReadsKeepBatch DEF BatchInv
<1>6. CASE session.trades /\ TradesNext(Calls, Theirs) /\ UNCHANGED <<feeding, managing, measuring>>
  <2>1. UNCHANGED session
    BY <1>6 DEF TradesNext, BeginTrade, Submit, SendFails, Receipt, TimeOut, MineOurs, MineTheirs, client
  <2>2. SessionWorlds'
    BY <1>6, <2>1 DEF SessionWorlds
  <2> QED
    BY <1>1, <1>6, <2>2, TradesKeepBatch DEF BatchInv
<1>7. CASE session.quotes /\ LiveNext
  <2>1. UNCHANGED <<session, said>>
    BY <1>7 DEF LiveNext, node
  <2> QED
    BY <1>1, <1>3, <1>7, <2>1, LiveKeepsBatch DEF BatchInv
<1>8. CASE UNCHANGED <<session, said, jobs, proofs, proves>>
  BY <1>2, <1>3, <1>8 DEF BatchInv
<1>9. FeedsNext /\ ~(session.quotes /\ LiveNext) => UNCHANGED <<session, said, jobs, proofs, proves>>
  BY DEF FeedsNext, Emit, Drop, Reconnect, SubscribeFeed, Establish, Forward, StreamEnds, NextEvent, client, node
<1>10. UNCHANGED <<node, client>> => UNCHANGED <<session, said, jobs, proofs, proves>>
  BY DEF node, client
<1> QED
  BY <1>4, <1>5, <1>6, <1>7, <1>8, <1>9, <1>10 DEF Next, vars

\* What all the chunks of a batch read.
AllChunkReads(op, held) == UNION {ChunkReads(op, held, c) : c \in 1..Chunks}

\* What a batch's steps have in them: its block, its views and every chunk's
\* reads.
LEMMA BatchSteps ==
    ASSUME NEW op \in BatchReads, NEW how, NEW held
    PROVE  LET steps == Steps(op, how, held) IN
           /\ IsSeq(steps) /\ Has(steps, {Header})
           /\ Has(steps, AllChunkReads(op, held))
           /\ op = "maker_equities" => Has(steps, {R("maker_views")})
           /\ op = "taker_healths" => Has(steps, {R("taker_views")})
<1> DEFINE first == HandleFor(op, how)
           from == MarkFrom
           reads == AllChunkReads(op, held)
           chunks == <<reads>>
<1>1. Steps(op, how, held) = first \o ReadSteps(op, held)
  BY DEF Steps, StateReads, HeadReads, BatchReads
<1>2. Batch(op, held) = chunks
  BY DEF Batch, AllChunkReads
<1>3. IsSeq(first) /\ Has(first, {Header})
  <2>1. Led(first, how) /\ Plain(first)
    BY HandleForLed
  <2> QED
    BY <2>1 DEF Led, Plain, Avoids, Has
<1>4. IsSeq(chunks) /\ Has(chunks, reads)
  BY OneHas
<1>5. IsSeq(from)
  BY OneHas DEF MarkFrom
<1>6. ASSUME NEW views
      PROVE  LET steps == (<<{views}>> \o from) \o chunks IN
             IsSeq(steps) /\ Has(steps, {views}) /\ Has(steps, reads)
  <2> DEFINE view == <<{views}>>
  <2>1. IsSeq(view) /\ Has(view, {views})
    BY OneHas
  <2> HIDE DEF first, from, chunks, reads, view
  <2>2. IsSeq(view \o from) /\ Has(view \o from, {views})
    BY <1>5, <2>1, SequencesJoin, JoinHas
  <2>3. IsSeq((view \o from) \o chunks) /\ Has((view \o from) \o chunks, {views}) /\ Has((view \o from) \o chunks, reads)
    BY <1>4, <2>2, SequencesJoin, JoinHas
  <2> QED
    BY <2>3 DEF view
<1>7. /\ IsSeq(ReadSteps(op, held)) /\ Has(ReadSteps(op, held), reads)
      /\ op = "maker_equities" => Has(ReadSteps(op, held), {R("maker_views")})
      /\ op = "taker_healths" => Has(ReadSteps(op, held), {R("taker_views")})
  <2>1. CASE op = "maker_equities"
    <3>1. ReadSteps(op, held) = (<<{R("maker_views")}>> \o from) \o chunks
      BY <1>2, <2>1 DEF ReadSteps, MakerEquities, MakerMarket, PositionReads, OneCallReads
    <3> HIDE DEF first, from, chunks, reads
    <3> QED
      BY <1>6, <2>1, <3>1
  <2>2. CASE op = "taker_healths"
    <3>1. ReadSteps(op, held) = (<<{R("taker_views")}>> \o from) \o chunks
      BY <1>2, <2>2 DEF ReadSteps, TakerHealths, TakerMarket, PositionReads, OneCallReads
    <3> HIDE DEF first, from, chunks, reads
    <3> QED
      BY <1>6, <2>2, <3>1
  <2>3. CASE op \notin {"maker_equities", "taker_healths"}
    <3>1. ReadSteps(op, held) = chunks
      BY <1>2, <2>3 DEF ReadSteps, PositionReads, OneCallReads, BatchReads
    <3> HIDE DEF first, from, chunks, reads
    <3> QED
      BY <1>4, <2>3, <3>1
  <2> QED
    BY <2>1, <2>2, <2>3
<1> HIDE DEF first, from, chunks
<1>8. /\ IsSeq(first \o ReadSteps(op, held))
      /\ \A step : Has(first, step) \/ Has(ReadSteps(op, held), step) => Has(first \o ReadSteps(op, held), step)
  BY <1>3, <1>7, SequencesJoin, JoinHas
<1> QED
  BY <1>1, <1>3, <1>7, <1>8

\* A batch that answered holds them.
LEMMA BatchHolds ==
    ASSUME NEW job, JobOK(job), job.op \in BatchReads, Answered(job)
    PROVE  /\ Resolved(job)
           /\ \A c \in 1..Chunks : ChunkReads(job.op, job.held, c) \subseteq DOMAIN job.held
           /\ job.op = "maker_equities" => R("maker_views") \in DOMAIN job.held
           /\ job.op = "taker_healths" => R("taker_views") \in DOMAIN job.held
<1> DEFINE steps == Steps(job.op, job.how, job.held)
           reads == AllChunkReads(job.op, job.held)
<1>1. /\ IsSeq(steps) /\ Has(steps, {Header}) /\ Has(steps, reads)
      /\ job.op = "maker_equities" => Has(steps, {R("maker_views")})
      /\ job.op = "taker_healths" => Has(steps, {R("taker_views")})
  BY BatchSteps
<1>2. ASSUME NEW step, Has(steps, step) PROVE step \subseteq DOMAIN job.held
  <2>1. FirstUnheld(steps, job.held) = {}
    BY DEF Due, JobOK, EndsWhole
  <2> HIDE DEF steps
  <2>2. \A i \in DOMAIN steps : steps[i] \subseteq DOMAIN job.held
    BY <1>1, <2>1, DueIs
  <2> QED
    BY <1>2, <2>2 DEF Has
<1> HIDE DEF steps
<1>3. {Header} \subseteq DOMAIN job.held /\ reads \subseteq DOMAIN job.held
  BY <1>1, <1>2
<1>4. \A c \in 1..Chunks : ChunkReads(job.op, job.held, c) \subseteq reads
  BY DEF AllChunkReads
<1> HIDE DEF reads
<1>5. /\ job.op = "maker_equities" => {R("maker_views")} \subseteq DOMAIN job.held
      /\ job.op = "taker_healths" => {R("taker_views")} \subseteq DOMAIN job.held
  BY <1>1, <1>2
<1> QED
  BY <1>3, <1>4, <1>5 DEF Resolved

-----------------------------------------------------------------------------

\* The block a batch is pinned to has every position asked for.
LEMMA WorldHasAsked ==
    ASSUME session \in Sessions, BatchInv, NEW job, JobOK(job), BatchJob(job), job.op \in BatchReads, Resolved(job),
           NEW k \in DOMAIN Asked
    PROVE  /\ WorldAt(BlockOf(job)).positions[Asked[k]] \in Positions
           /\ IsFiniteSet(WorldAt(BlockOf(job)).positions[Asked[k]].ticks)
<1>1. PICK world : world = WorldAt(BlockOf(job))
  OBVIOUS
<1>2. BlockOf(job) \in DOMAIN said
  BY ResolvedIsKnown DEF JobOK
<1>3. ~session.trades /\ job.op \in session.ops
  BY DEF BatchJob
<1>4. world \in session.worlds
  BY <1>1, <1>2, <1>3 DEF BatchInv, SessionWorlds, WorldAt
<1>5. session.ops \cap BatchReads # {}
  BY <1>3
<1>6. Asked[k] \in DOMAIN world.positions /\ IsFiniteSet(world.positions[Asked[k]].ticks)
  BY <1>3, <1>4, <1>5, BatchAssumption
<1>7. world.positions \in Seq(Positions)
  BY <1>4, SessionAssumption DEF IsMarket
<1>8. world.positions[Asked[k]] \in Positions
  BY <1>6, <1>7
<1> QED
  BY <1>1, <1>6, <1>8

LEMMA FiniteImage ==
    ASSUME NEW S, IsFiniteSet(S), NEW f, f = [x \in S |-> f[x]]
    PROVE  IsFiniteSet({f[x] : x \in S})
<1> DEFINE T == {f[x] : x \in S}
<1>1. f \in [S -> T]
  OBVIOUS
<1>2. \A t \in T : \E s \in S : f[s] = t
  OBVIOUS
<1> HIDE DEF T
<1>3. f \in Surjection(S, T)
  BY <1>1, <1>2 DEF Surjection
<1> QED
  BY <1>3, FS_Surjection DEF T

BatchCalls == {"rows", "extsload", "get_proof", "storage_at", "maker_views", "taker_views"}

LEMMA HeldIsSaid ==
    ASSUME NEW job, JobOK(job), job.op \in BatchReads, NEW r \in DOMAIN job.held, r.call \in BatchCalls,
           ~Failed(job.held[r])
    PROVE  AsSaid(r, job.held[r].value, Says(r, WorldAt(BlockOf(job))))
<1>1. Pinned(job, r)
  BY DEF Pinned, StateReads, BatchCalls
<1> QED
  BY <1>1 DEF JobOK, HeldOK, OfItsBlock

LEMMA ViewsAreSaid ==
    ASSUME NEW job, JobOK(job), job.op \in BatchReads, NEW r \in DOMAIN job.held,
           r.call \in {"maker_views", "taker_views"}
    PROVE  Got(job.held, r).version = WorldAt(BlockOf(job)).version
<1>1. ~Failed(job.held[r]) /\ r.call \in BatchCalls
  BY DEF JobOK, HeldOK, Alone, BatchCalls
<1>2. AsSaid(r, job.held[r].value, Says(r, WorldAt(BlockOf(job))))
  BY <1>1, HeldIsSaid
<1>3. job.held[r].value = Says(r, WorldAt(BlockOf(job)))
  BY <1>2, TruthIsSaid
<1>4. Says(r, WorldAt(BlockOf(job))) = Modules(WorldAt(BlockOf(job)))
  BY DEF Says
<1> QED
  BY <1>3, <1>4 DEF Got, Modules

\* A chunk's rows that were read are its ids' positions, in their places.
LEMMA RowsAreSaid ==
    ASSUME NEW job, JobOK(job), job.op \in BatchReads, NEW c, RowsOf(c) \in DOMAIN job.held,
           ~Failed(job.held[RowsOf(c)])
    PROVE  LET rows == job.held[RowsOf(c)].value
               world == WorldAt(BlockOf(job))
           IN /\ DOMAIN rows = DOMAIN ChunkIds(c)
              /\ \A i \in DOMAIN rows : ~Failed(rows[i]) => rows[i].value = world.positions[ChunkIds(c)[i]]
<1> DEFINE world == WorldAt(BlockOf(job))
           rows == job.held[RowsOf(c)].value
           truth == Says(RowsOf(c), world)
<1>1. RowsOf(c).call = "rows" /\ RowsOf(c).ids = ChunkIds(c)
  BY DEF RowsOf
<1>2. truth = [i \in DOMAIN ChunkIds(c) |-> [value |-> world.positions[ChunkIds(c)[i]]]]
  BY <1>1 DEF Says
<1>3. AsSaid(RowsOf(c), rows, truth)
  BY <1>1, HeldIsSaid DEF BatchCalls
<1> HIDE DEF truth, rows, world
<1>4. DOMAIN rows = DOMAIN truth /\ \A k \in DOMAIN rows : Failed(rows[k]) \/ rows[k] = truth[k]
  BY <1>1, <1>3 DEF AsSaid
<1>5. \A i \in DOMAIN rows : ~Failed(rows[i]) => rows[i].value = world.positions[ChunkIds(c)[i]]
  BY <1>2, <1>4
<1> QED
  BY <1>2, <1>4, <1>5 DEF rows, world

\* A chunk's makers and their ticks.
LEMMA MakersAre ==
    ASSUME session \in Sessions, BatchInv, NEW job, JobOK(job), BatchJob(job), job.op \in BatchReads, Resolved(job),
           NEW c \in 1..Chunks
    PROVE  LET makers == Pending(job.held, c)
               ticks == BandTicks(job.held, c)
               world == WorldAt(BlockOf(job))
           IN /\ makers \subseteq DOMAIN ChunkIds(c) /\ makers \subseteq Int /\ IsFiniteSet(makers)
              /\ \A i \in makers :
                    /\ RowAt(job.held, c, i) = world.positions[ChunkIds(c)[i]]
                    /\ RowAt(job.held, c, i).ticks \subseteq ticks
                    /\ RowAt(job.held, c, i).liquidity # 0
              /\ ticks \subseteq Int /\ IsFiniteSet(ticks)
<1> DEFINE makers == Pending(job.held, c)
           ticks == BandTicks(job.held, c)
           world == WorldAt(BlockOf(job))
<1>1. makers \subseteq DOMAIN ChunkIds(c)
      /\ \A i \in makers : RowAt(job.held, c, i) = world.positions[ChunkIds(c)[i]] /\ RowAt(job.held, c, i).liquidity # 0
  <2>1. CASE ~Holds(job.held, RowsOf(c)) \/ Failed(job.held[RowsOf(c)])
    BY <2>1 DEF Pending
  <2>2. CASE Holds(job.held, RowsOf(c)) /\ ~Failed(job.held[RowsOf(c)])
    <3>1. PICK rows : rows = job.held[RowsOf(c)].value
      OBVIOUS
    <3>2. makers = MakersAmong(rows)
      BY <2>2, <3>1 DEF Pending, Got
    <3>3. DOMAIN rows = DOMAIN ChunkIds(c)
          /\ \A i \in DOMAIN rows : ~Failed(rows[i]) => rows[i].value = world.positions[ChunkIds(c)[i]]
      BY <2>2, <3>1, RowsAreSaid DEF Holds
    <3>4. \A i \in makers : i \in DOMAIN rows /\ ~Failed(rows[i]) /\ rows[i].value.liquidity # 0
      BY <3>2 DEF MakersAmong, IsMaker
    <3> QED
      BY <3>1, <3>3, <3>4 DEF RowAt, Got
  <2> QED
    BY <2>1, <2>2
<1> HIDE DEF makers
<1>2. DOMAIN ChunkIds(c) \subseteq Int /\ IsFiniteSet(DOMAIN ChunkIds(c))
  <2>1. PICK n : n = EndOf(c) - StartOf(c)
    OBVIOUS
  <2>2. n \in Int
    BY <2>1, ChunksCover
  <2>3. DOMAIN ChunkIds(c) = 1..n
    BY <2>1, ChunkIdsAre
  <2> QED
    BY <2>2, <2>3, FS_Interval
<1>3. IsFiniteSet(makers) /\ makers \subseteq Int
  BY <1>1, <1>2, FS_Subset
<1>4. \A i \in makers : world.positions[ChunkIds(c)[i]] \in Positions /\ IsFiniteSet(world.positions[ChunkIds(c)[i]].ticks)
  BY <1>1, ChunkIdsAre, WorldHasAsked
<1> DEFINE bands == [i \in makers |-> RowAt(job.held, c, i).ticks]
<1>5. ticks = UNION {bands[i] : i \in makers}
  BY DEF BandTicks, makers
<1>6. \A i \in makers : IsFiniteSet(bands[i]) /\ bands[i] \subseteq Int
  BY <1>1, <1>4 DEF Positions
<1>7. bands = [i \in makers |-> bands[i]] /\ \A i \in makers : bands[i] = RowAt(job.held, c, i).ticks
  OBVIOUS
<1> HIDE DEF bands, ticks, world
<1>8. IsFiniteSet({bands[i] : i \in makers})
  BY <1>3, <1>7, FiniteImage
<1>9. IsFiniteSet(ticks)
  BY <1>5, <1>6, <1>8, FS_UNION
<1>10. ticks \subseteq Int /\ \A i \in makers : RowAt(job.held, c, i).ticks \subseteq ticks
  BY <1>5, <1>6, <1>7
<1> QED
  BY <1>1, <1>3, <1>9, <1>10 DEF makers, ticks, world

\* What a maker's equity is computed from is its own, or its failure is.
LEMMA EquityIsTrue ==
    ASSUME session \in Sessions, BatchInv, NEW job, JobOK(job), BatchJob(job), job.op = "maker_equities", Resolved(job),
           NEW c \in 1..Chunks, EquityReads(job.held, c) \subseteq DOMAIN job.held,
           R("maker_views") \in DOMAIN job.held, NEW i \in Pending(job.held, c)
    PROVE  LET answer == EquityOf(job.held, c, i)
           IN IF Failed(answer) THEN Excused(job, StartOf(c) + i)
              ELSE answer.value = Truth("maker_equities", ChunkIds(c)[i], WorldAt(BlockOf(job)))
<1> DEFINE held == job.held
           world == WorldAt(BlockOf(job))
           position == RowAt(held, c, i)
           ticks == BandTicks(held, c)
           makers == Pending(held, c)
           growth == held[Growth(held, c)]
           proof == held[Proof(held, c)]
           funding == [t \in position.ticks |-> TickFundingFor(held, c, t)]
           unread == {t \in position.ticks : Failed(funding[t])}
           id == ChunkIds(c)[i]
           k == StartOf(c) + i
<1>1. /\ makers \subseteq DOMAIN ChunkIds(c) /\ makers \subseteq Int /\ IsFiniteSet(makers)
      /\ position = world.positions[id] /\ position.ticks \subseteq ticks /\ position.liquidity # 0
      /\ ticks \subseteq Int /\ IsFiniteSet(ticks)
  BY MakersAre DEF BatchReads
<1>2. k \in DOMAIN Asked /\ Asked[k] = id /\ ((k - 1) \div MaxRowBatch) + 1 = c
  <2>1. PICK p, q : p = StartOf(c) /\ q = EndOf(c)
    OBVIOUS
  <2>2. i \in 1..(q - p) /\ p \in Nat /\ q \in Nat
    BY <1>1, <2>1, ChunkIdsAre, ChunksCover
  <2>3. p + i \in (p + 1)..q
    BY <2>2
  <2>4. ChunkAt(p + i) = c
    BY <2>1, <2>3, ChunksCover
  <2> QED
    BY <1>1, <2>1, <2>4, ChunkIdsAre DEF ChunkAt
<1>3. /\ Growth(held, c) \in DOMAIN held /\ Proof(held, c) \in DOMAIN held
      /\ Failed(proof) => \A t \in ticks : TickRead(c, t) \in DOMAIN held
  BY DEF EquityReads, TickReads, Holds
<1>4. \A f \in DOMAIN funding : funding[f] = TickFundingFor(held, c, f)
  OBVIOUS
<1>5. EquityOf(held, c, i) =
        IF Failed(growth) THEN growth
        ELSE IF unread # {} THEN funding[CHOOSE t \in unread : TRUE]
        ELSE Value(MakerState(position, Got(held, R("maker_views")).version, growth.value[1],
                              [t \in position.ticks |-> growth.value[TickWord(ticks, t)]],
                              growth.value[InsideWord(ticks, makers, i)],
                              [t \in position.ticks |-> funding[t].value[t]]))
  BY DEF EquityOf
<1>6. \A v : ~Failed(Value(v)) /\ Value(v).value = v
  BY DEF Failed, Value
<1>7. ASSUME NEW r \in DOMAIN held, r.part = <<c>> \/ \E t : r.part = <<c, t>>,
             \/ r.call = "extsload" /\ Failed(held[r])
             \/ r.call = "storage_at" /\ Failed(held[r]) /\ r.ticks \subseteq position.ticks
             \/ r.call = "get_proof" /\ ~Failed(held[r]) /\ ~(position.ticks \subseteq DOMAIN held[r].value)
      PROVE  Excused(job, k)
  <2>1. r.part # <<>> /\ r.part[1] = c
    <3>1. <<c>> # <<>> /\ <<c>>[1] = c
      OBVIOUS
    <3>2. \A t : <<c, t>> # <<>> /\ <<c, t>>[1] = c
      OBVIOUS
    <3> QED
      BY <1>7, <3>1, <3>2
  <2>2. world.positions[Asked[k]] = position
    BY <1>1, <1>2
  <2> HIDE DEF k, position, id
  <2> QED
    BY <1>1, <1>2, <1>7, <2>1, <2>2 DEF Excused
<1> HIDE DEF funding, k, id, ticks, makers, position
<1>8. CASE Failed(growth)
  <2>1. Growth(held, c).part = <<c>> /\ Growth(held, c).call = "extsload"
    BY DEF Growth
  <2>2. Excused(job, k)
    BY <1>3, <1>7, <1>8, <2>1
  <2> QED
    BY <1>5, <1>8, <2>2 DEF k
<1>9. ASSUME NEW t \in unread PROVE Excused(job, k)
  <2>1. t \in position.ticks /\ Failed(TickFundingFor(held, c, t)) /\ t \in ticks
    BY <1>1, <1>4, <1>9 DEF funding
  <2>2. CASE Failed(proof)
    <3>1. TickRead(c, t) \in DOMAIN held /\ Failed(held[TickRead(c, t)])
      BY <1>3, <2>1, <2>2 DEF TickFundingFor
    <3>2. TickRead(c, t).part = <<c, t>> /\ TickRead(c, t).call = "storage_at" /\ TickRead(c, t).ticks = {t}
      BY DEF TickRead
    <3> QED
      BY <1>7, <2>1, <3>1, <3>2
  <2>3. CASE ~Failed(proof)
    <3>1. t \notin DOMAIN proof.value
      BY <1>6, <2>1, <2>3 DEF TickFundingFor
    <3>2. Proof(held, c).part = <<c>> /\ Proof(held, c).call = "get_proof"
      BY DEF Proof
    <3>3. ~(position.ticks \subseteq DOMAIN proof.value)
      BY <2>1, <3>1
    <3> QED
      BY <1>3, <1>7, <2>3, <3>2, <3>3
  <2> QED
    BY <2>2, <2>3
<1>10. CASE ~Failed(growth) /\ unread # {}
  <2>1. PICK u : u = (CHOOSE t \in unread : TRUE)
    OBVIOUS
  <2>2. u \in unread
    BY <1>10, <2>1
  <2>3. EquityOf(held, c, i) = funding[u] /\ Failed(funding[u])
    BY <1>5, <1>10, <2>1, <2>2
  <2> QED
    BY <1>9, <2>2, <2>3 DEF k
<1>11. CASE ~Failed(growth) /\ unread = {}
  <2>1. PICK words : words = growth.value
    OBVIOUS
  <2>2. /\ words[1] = SlotWord(Global, world)
        /\ \A t \in ticks : words[TickWord(ticks, t)] = SlotWord(TickSlot(t), world)
        /\ \A j \in makers : words[InsideWord(ticks, makers, j)] = SlotWord(InsideSlot(ChunkIds(c)[j]), world)
    <3>1. PICK slots : slots = Slots(ChunkIds(c), ticks, makers)
      OBVIOUS
    <3>2. Growth(held, c).call = "extsload" /\ Growth(held, c).slots = slots
      BY <3>1 DEF Growth, ticks, makers
    <3>3. AsSaid(Growth(held, c), words, Says(Growth(held, c), world))
      BY <1>3, <1>11, <2>1, <3>2, HeldIsSaid DEF BatchReads, BatchCalls
    <3>4. words = Says(Growth(held, c), world)
      BY <3>2, <3>3, TruthIsSaid
    <3>5. words = [w \in DOMAIN slots |-> SlotWord(slots[w], world)]
      BY <3>2, <3>4 DEF Says
    <3> HIDE DEF world
    <3> QED
      BY <1>1, <3>1, <3>5, WordsByLayout
  <2>3. i \in makers
    BY DEF makers
  <2>4. ASSUME NEW t \in position.ticks PROVE funding[t].value[t] = SlotWord(TickSlot(t), world)
    <3>1. funding[t] = TickFundingFor(held, c, t) /\ ~Failed(funding[t]) /\ t \in ticks
      BY <1>1, <1>11, <2>4 DEF funding
    <3>2. CASE Failed(proof)
      <4>1. TickRead(c, t) \in DOMAIN held /\ funding[t] = held[TickRead(c, t)]
        BY <1>3, <3>1, <3>2 DEF TickFundingFor
      <4>2. TickRead(c, t).call = "storage_at" /\ TickRead(c, t).ticks = {t}
        BY DEF TickRead
      <4>3. AsSaid(TickRead(c, t), funding[t].value, Says(TickRead(c, t), world))
        BY <3>1, <4>1, <4>2, HeldIsSaid DEF BatchReads, BatchCalls
      <4>4. funding[t].value = Says(TickRead(c, t), world)
        BY <4>2, <4>3, TruthIsSaid
      <4>5. Says(TickRead(c, t), world) = [u \in {t} |-> SlotWord(TickSlot(u), world)]
        BY <4>2 DEF Says
      <4> QED
        BY <4>4, <4>5
    <3>3. CASE ~Failed(proof)
      <4>1. Proof(held, c).call = "get_proof" /\ Proof(held, c).ticks = ticks
        BY DEF Proof, ticks
      <4>2. Failed(Failure("Rpc"))
        BY DEF Failed, Failure
      <4>3. t \in DOMAIN proof.value
        BY <3>1, <3>3, <4>2 DEF TickFundingFor
      <4>4. funding[t] = Value([u \in {t} |-> proof.value[u]])
        BY <3>1, <3>3, <4>3 DEF TickFundingFor
      <4>5. funding[t].value[t] = proof.value[t]
        BY <1>6, <4>4
      <4>6. AsSaid(Proof(held, c), proof.value, Says(Proof(held, c), world))
        BY <1>3, <3>3, <4>1, HeldIsSaid DEF BatchReads, BatchCalls
      <4>7. Says(Proof(held, c), world) = [u \in ticks |-> SlotWord(TickSlot(u), world)]
        BY <4>1 DEF Says
      <4>8. proof.value[t] = Says(Proof(held, c), world)[t]
        BY <4>1, <4>3, <4>6 DEF AsSaid
      <4> QED
        BY <3>1, <4>5, <4>7, <4>8
    <3> QED
      BY <3>2, <3>3
  <2>5. Got(held, R("maker_views")).version = world.version
    <3>1. R("maker_views").call = "maker_views"
      BY DEF R
    <3> QED
      BY <3>1, ViewsAreSaid DEF BatchReads
  <2>6. /\ [t \in position.ticks |-> words[TickWord(ticks, t)]] = [t \in position.ticks |-> SlotWord(TickSlot(t), world)]
        /\ [t \in position.ticks |-> funding[t].value[t]] = [t \in position.ticks |-> SlotWord(TickSlot(t), world)]
        /\ words[InsideWord(ticks, makers, i)] = SlotWord(InsideSlot(id), world)
    BY <1>1, <2>2, <2>3, <2>4 DEF id
  <2>7. Truth("maker_equities", id, world) =
          MakerState(position, world.version, SlotWord(Global, world),
                     [t \in position.ticks |-> SlotWord(TickSlot(t), world)],
                     SlotWord(InsideSlot(id), world), [t \in position.ticks |-> SlotWord(TickSlot(t), world)])
    BY <1>1 DEF Truth
  <2>8. EquityOf(held, c, i) = Value(Truth("maker_equities", id, world))
    BY <1>5, <1>11, <2>1, <2>2, <2>5, <2>6, <2>7
  <2> QED
    BY <1>6, <2>8 DEF id
<1> QED
  BY <1>8, <1>10, <1>11

\* What a chunk answers of an id is what the block said of it, or is excused.
LEMMA ChunkIsTrue ==
    ASSUME session \in Sessions, BatchInv, NEW job, JobOK(job), BatchJob(job), job.op \in BatchReads, Answered(job),
           NEW c \in 1..Chunks, NEW i \in DOMAIN ChunkIds(c)
    PROVE  LET answer == ChunkOutcomes(job.op, job.held, c)[i]
           IN IF Failed(answer) THEN Excused(job, StartOf(c) + i)
              ELSE answer.value = Truth(job.op, ChunkIds(c)[i], WorldAt(BlockOf(job)))
<1> DEFINE op == job.op
           held == job.held
           world == WorldAt(BlockOf(job))
           answer == held[RowsOf(c)]
           row == answer.value[i]
           outcome == ChunkOutcomes(op, held, c)[i]
           id == ChunkIds(c)[i]
           k == StartOf(c) + i
           p == world.positions[id]
<1>1. /\ Resolved(job) /\ ChunkReads(op, held, c) \subseteq DOMAIN held
      /\ op = "maker_equities" => R("maker_views") \in DOMAIN held
      /\ op = "taker_healths" => R("taker_views") \in DOMAIN held
  BY BatchHolds
<1>2. RowsOf(c) \in DOMAIN held /\ (op = "maker_equities" => EquityReads(held, c) \subseteq DOMAIN held)
  BY <1>1 DEF ChunkReads
<1>3. k - (c - 1) * MaxRowBatch = i /\ ((k - 1) \div MaxRowBatch) + 1 = c
  <2>1. PICK s, q : s = StartOf(c) /\ q = EndOf(c)
    OBVIOUS
  <2>2. i \in 1..(q - s) /\ s \in Nat /\ q \in Nat
    BY <2>1, ChunkIdsAre, ChunksCover
  <2>3. s + i \in (s + 1)..q /\ (s + i) - s = i
    BY <2>2
  <2>4. PICK m : m = s + i
    OBVIOUS
  <2>5. ChunkAt(m) = c /\ m - s = i /\ m = k
    <3>1. m \in (s + 1)..q /\ m - s = i
      BY <2>3, <2>4
    <3>2. m = k
      BY Zenon, <2>1, <2>4
    <3> QED
      BY Zenon, <2>1, <3>1, <3>2, ChunksCover
  <2>6. ((m - 1) \div MaxRowBatch) + 1 = c
    BY Zenon, <2>5 DEF ChunkAt
  <2>7. (c - 1) * MaxRowBatch = s
    BY Zenon, <2>1 DEF StartOf
  <2> HIDE DEF k
  <2> QED
    BY Zenon, <2>5, <2>6, <2>7
<1>4. outcome = IF Failed(answer) THEN answer ELSE IF Failed(row) THEN row ELSE
        CASE op = "maker_equities" -> IF i \in Pending(held, c) THEN EquityOf(held, c, i) ELSE Value(None)
          [] op = "taker_healths" -> TakerHealth(held, row.value)
          [] OTHER -> RowOutcome(op, row)
  BY DEF ChunkOutcomes
<1>5. ASSUME Failed(answer) \/ Failed(row) PROVE Excused(job, k)
  <2>1. RowsOf(c).call = "rows" /\ RowsOf(c).part = <<c>> /\ <<c>> # <<>> /\ <<c>>[1] = c
    BY DEF RowsOf
  <2>2. Failed(answer) \/ Failed(answer.value[k - (c - 1) * MaxRowBatch])
    BY <1>3, <1>5
  <2> HIDE DEF k, answer, row
  <2>3. answer = held[RowsOf(c)]
    BY DEF answer
  <2> QED
    BY <1>2, <1>3, <2>1, <2>2, <2>3 DEF Excused
<1>6. \A v : ~Failed(Value(v)) /\ Value(v).value = v
  BY DEF Failed, Value
<1> HIDE DEF outcome, k
<1>7. CASE Failed(answer)
  BY <1>4, <1>5, <1>7 DEF outcome, k
<1>8. CASE ~Failed(answer) /\ Failed(row)
  BY <1>4, <1>5, <1>8 DEF outcome, k
<1>9. CASE ~Failed(answer) /\ ~Failed(row)
  <2>1. row.value = p /\ i \in DOMAIN answer.value
    BY <1>1, <1>2, <1>9, RowsAreSaid
  <2>2. CASE op \in {"positions", "owners", "maker_bands"}
    <3>1. outcome = RowOutcome(op, row)
      BY <1>4, <1>9, <2>2
    <3>2. RowOutcome(op, row) = Value(Truth(op, id, world))
      <4> HIDE DEF row, world, id
      <4>1. CASE op = "positions"
        BY <1>9, <2>1, <4>1 DEF RowOutcome, Truth
      <4>2. CASE op = "owners"
        BY <1>9, <2>1, <4>2 DEF RowOutcome, Truth
      <4>3. CASE op = "maker_bands"
        BY <1>9, <2>1, <4>3 DEF RowOutcome, Truth, IsMaker
      <4> QED
        BY <2>2, <4>1, <4>2, <4>3
    <3> QED
      BY <1>6, <3>1, <3>2 DEF outcome
  <2>3. CASE op = "taker_healths"
    <3>1. outcome = TakerHealth(held, row.value)
      BY <1>4, <1>9, <2>3
    <3>2. Got(held, R("taker_views")).version = world.version
      <4>1. R("taker_views").call = "taker_views"
        BY DEF R
      <4> QED
        BY <1>1, <2>3, <4>1, ViewsAreSaid
    <3>3. outcome = Value(Truth(op, id, world))
      BY <2>1, <2>3, <3>1, <3>2 DEF TakerHealth, Truth, IsTaker, IsMaker
    <3> QED
      BY <1>6, <3>3 DEF outcome
  <2>4. CASE op = "maker_equities" /\ i \in Pending(held, c)
    <3>1. outcome = EquityOf(held, c, i)
      BY <1>4, <1>9, <2>4
    <3> QED
      BY <1>1, <1>2, <2>4, <3>1, EquityIsTrue DEF outcome
  <2>5. CASE op = "maker_equities" /\ i \notin Pending(held, c)
    <3>1. outcome = Value(None)
      BY <1>4, <1>9, <2>5
    <3>2. p.liquidity = 0
      BY <1>2, <1>9, <2>1, <2>5 DEF Pending, MakersAmong, Holds, Got, IsMaker
    <3>3. Truth(op, id, world) = None
      BY <2>5, <3>2 DEF Truth
    <3> QED
      BY <1>6, <3>1, <3>3 DEF outcome
  <2> QED
    BY <2>2, <2>3, <2>4, <2>5 DEF BatchReads
<1> QED
  BY <1>7, <1>8, <1>9

\* Every id is in a chunk.
LEMMA EachHasItsChunk ==
    ASSUME NEW k \in DOMAIN Asked
    PROVE  /\ ChunkAt(k) \in 1..Chunks /\ k - StartOf(ChunkAt(k)) \in DOMAIN ChunkIds(ChunkAt(k))
           /\ StartOf(ChunkAt(k)) + (k - StartOf(ChunkAt(k))) = k
           /\ ChunkIds(ChunkAt(k))[k - StartOf(ChunkAt(k))] = Asked[k]
<1> DEFINE M == MaxRowBatch
           n == Len(Asked)
           N == Chunks
<1>1. M \in Nat \ {0} /\ n \in Nat \ {0} /\ N \in Nat \ {0} /\ k \in 1..n /\ EndOf(N) = n
  BY BatchAssumption, ChunksCover
<1>2. PICK q : q = (k - 1) \div M
  OBVIOUS
<1>3. PICK s : s = q * M
  OBVIOUS
<1>4. PICK e : e = N * M
  OBVIOUS
<1>5. q \in Nat /\ s \in Nat /\ s <= k - 1 /\ k - 1 < s + M
  <2>1. k - 1 \in Nat
    BY <1>1
  <2> HIDE DEF M
  <2> QED
    BY <1>1, <1>2, <1>3, <2>1, QuotientIs
<1>6. EndOf(N) = Lesser(e, n)
  BY <1>4 DEF EndOf
<1> HIDE DEF M, n, N
<1>7. e \in Nat /\ n <= e
  <2>1. e \in Nat
    BY <1>1, <1>4
  <2> QED
    BY <1>1, <1>6, <2>1 DEF Lesser
<1>8. q < N
  <2> SUFFICES ASSUME q >= N PROVE FALSE
    BY <1>1, <1>5
  <2>1. q - N \in Nat /\ (q - N) * M \in Nat /\ q * M = N * M + (q - N) * M
    BY <1>1, <1>5
  <2> QED
    BY <1>1, <1>3, <1>4, <1>5, <1>7, <2>1
<1>9. PICK c : c = q + 1
  OBVIOUS
<1>10. c \in 1..N /\ c - 1 = q
  BY <1>1, <1>5, <1>8, <1>9
<1>11. ChunkAt(k) = c /\ StartOf(c) = s
  BY <1>2, <1>3, <1>9, <1>10 DEF ChunkAt, StartOf, M
<1>12. EndOf(c) = Lesser(s + M, n)
  <2>1. c * M = s + M
    BY <1>1, <1>3, <1>5, <1>9
  <2> QED
    BY <2>1 DEF EndOf, M, n
<1>13. k - s \in 1..(EndOf(c) - s) /\ s + (k - s) = k
  BY <1>1, <1>5, <1>12 DEF Lesser
<1>14. DOMAIN ChunkIds(c) = 1..(EndOf(c) - s) /\ \A i \in DOMAIN ChunkIds(c) : ChunkIds(c)[i] = Asked[s + i]
  BY <1>10, <1>11, ChunkIdsAre DEF N
<1> QED
  BY <1>10, <1>11, <1>13, <1>14 DEF N

\* A batch answers every id once, in the order asked, whatever the ids, the
\* chunk size, the market, the reorganizations, the replicas and the faults
\* (client/state.rs, client/maker_equity.rs, client/taker_health.rs).
THEOREM BatchesAlwaysAnswerEach == Spec => []BatchesAnswerEach
<1>1. IInv /\ BatchInv => BatchesAnswerEach
  <2> SUFFICES ASSUME IInv, BatchInv PROVE BatchesAnswerEach
    OBVIOUS
  <2>1. ASSUME NEW i \in DOMAIN jobs, NEW job, job = jobs[i], Answered(job), job.op \in BatchReads
        PROVE  /\ Len(Outcomes(job)) = Len(Asked)
               /\ \A k \in DOMAIN Asked :
                    IF Failed(Outcomes(job)[k]) THEN Excused(job, k)
                    ELSE Outcomes(job)[k].value = Truth(job.op, Asked[k], WorldAt(BlockOf(job)))
    <3>1. JobOK(job) /\ BatchJob(job) /\ session \in Sessions
      BY <2>1 DEF IInv, JobsOK, BatchInv
    <3>2. PICK F : F = [c \in 1..Chunks |-> ChunkOutcomes(job.op, job.held, c)]
      OBVIOUS
    <3>3. F = [c \in 1..Chunks |-> F[c]] /\ \A c \in 1..Chunks : F[c] = ChunkOutcomes(job.op, job.held, c)
      BY <3>2
    <3>4. ASSUME NEW c \in 1..Chunks PROVE F[c] = [j \in DOMAIN ChunkIds(c) |-> F[c][j]]
      <4>1. PICK out : out = ChunkOutcomes(job.op, job.held, c)
        OBVIOUS
      <4>2. out = [j \in DOMAIN ChunkIds(c) |-> out[j]]
        BY <4>1 DEF ChunkOutcomes
      <4> QED
        BY <3>3, <4>1, <4>2
    <3>5. Outcomes(job) = FlattenSeq(F)
      BY <3>2 DEF Outcomes
    <3>6. Outcomes(job) = [k \in 1..Len(Asked) |-> F[ChunkAt(k)][k - StartOf(ChunkAt(k))]]
      BY <3>3, <3>4, <3>5, EachInItsPlace
    <3>7. Len(Asked) \in Nat /\ DOMAIN Asked = 1..Len(Asked)
      BY ChunksCover
    <3>8. PICK outcomes : outcomes = Outcomes(job)
      OBVIOUS
    <3>9. Len(outcomes) = Len(Asked) /\ \A k \in DOMAIN Asked : outcomes[k] = F[ChunkAt(k)][k - StartOf(ChunkAt(k))]
      <4>1. outcomes = [k \in 1..Len(Asked) |-> outcomes[k]] /\ \A k \in 1..Len(Asked) : outcomes[k] \in {outcomes[j] : j \in 1..Len(Asked)}
        BY <3>6, <3>8
      <4>2. Len(outcomes) = Len(Asked)
        BY <3>7, <4>1, SequenceOf
      <4> QED
        BY <3>6, <3>7, <3>8, <4>2
    <3>10. ASSUME NEW k \in DOMAIN Asked
           PROVE  IF Failed(outcomes[k]) THEN Excused(job, k)
                  ELSE outcomes[k].value = Truth(job.op, Asked[k], WorldAt(BlockOf(job)))
      <4>1. PICK c, j : c = ChunkAt(k) /\ j = k - StartOf(ChunkAt(k))
        OBVIOUS
      <4>2. c \in 1..Chunks /\ j \in DOMAIN ChunkIds(c) /\ StartOf(c) + j = k /\ ChunkIds(c)[j] = Asked[k]
        BY <4>1, EachHasItsChunk
      <4>3. outcomes[k] = ChunkOutcomes(job.op, job.held, c)[j]
        BY <3>3, <3>9, <4>1, <4>2
      <4>4. IF Failed(outcomes[k]) THEN Excused(job, StartOf(c) + j)
            ELSE outcomes[k].value = Truth(job.op, ChunkIds(c)[j], WorldAt(BlockOf(job)))
        BY <2>1, <3>1, <4>2, <4>3, ChunkIsTrue
      <4> QED
        BY <4>2, <4>4
    <3> QED
      BY <3>8, <3>9, <3>10
  <2>2. ~proofs => ~proves
    BY DEF BatchInv, LatchOK
  <2> QED
    BY <2>1, <2>2 DEF BatchesAnswerEach
<1> QED
  BY <1>1, SessionStarts, SessionKeeps, BatchStarts, BatchKeeps, PTL DEF Spec
=============================================================================
