---------------------------- MODULE RoomAgent_proofs ----------------------------
(***************************************************************************)
(* Proofs about the room agent, for all its constants: one section for each *)
(* component, with the invariant that its steps keep, and at the end the     *)
(* theorems about RoomSpec, in which a component that is not the one a       *)
(* behaviour is about rests.                                                *)
(***************************************************************************)
EXTENDS RoomAgent, SequenceTheorems, WellFoundedInduction,
        NaturalsInduction, TLAPS

-----------------------------------------------------------------------------
(* Playback and the focus state (controls.py).                              *)

\* A program takes the lock once, starts at most one playback with it or releases
\* it, and has nothing to do but to clear the state when it has.
Enders == {"popen", "unlock"}
Ordered(s) ==
  /\ \A i, j \in 1..Len(s) : i < j =>
       /\ s[i].do \notin {"popen", "reap"}
       /\ s[i].do = "stop" => s[j].do \notin {"stop", "fetch", "reap"}
       /\ s[i].do = "unlock" => s[j].do = "clear"
  /\ \A i \in 1..Len(s) : s[i].do = "stop" => \E j \in 1..Len(s) : i < j /\ s[j].do \in Enders

\* What is left to who has the lock, and to who has not.
Holding(s) ==
  /\ \A i \in 1..Len(s) : s[i].do \in {"set", "clear"} \cup Enders
  /\ \E i \in 1..Len(s) : s[i].do \in Enders
NotYet(s) ==
  \A i \in 1..Len(s) :
    s[i].do \in Enders => \E j \in 1..Len(s) : j < i /\ s[j].do = "stop"

\* What is left to who has just started a playback.
Release == <<Audio!Op("unlock", Audio!None)>>
Announcing(k) ==
  IF k = "assistant" THEN {<<Audio!Set("assistant_speaking", TRUE), Audio!Op("unlock", Audio!None)>>, Release}
  ELSE {<<Audio!Set("announcement_active", TRUE), Audio!Set("critical_announcement", k = "critical"),
          Audio!Op("unlock", Audio!None)>>,
        <<Audio!Set("critical_announcement", k = "critical"), Audio!Op("unlock", Audio!None)>>, Release}

LockHeld ==
  /\ \A a \in Audio!Actors : Ordered(program[a])
  /\ \A a \in Audio!Actors : a = lock => Holding(program[a])
  /\ \A a \in Audio!Actors : a # lock => NotYet(program[a])
  /\ slot # Audio!NoProcess /\ lock # Audio!NoActor => program[lock] \in Announcing(kind)

\* A watcher has nothing to do before its process has ended.
Watched == \A p \in Audio!Processes : program[p] # <<>> => p <= started /\ p \notin running

\* A flag is on, or who started the playback is about to turn it on.
Coming(f) == lock # Audio!NoActor /\ \E i \in 1..Len(program[lock]) : program[lock][i] = Audio!Set(f, TRUE)
Spoken ==
  slot \in (running \ told) \ disturbed =>
    /\ kind = "assistant" => Audio!InFocus("assistant_speaking") \/ Coming("assistant_speaking")
    /\ kind # "assistant" => Audio!InFocus("announcement_active") \/ Coming("announcement_active")
    /\ kind = "critical" => Audio!InFocus("critical_announcement") \/ Coming("critical_announcement")

AudioInv == Audio!TypeOK /\ LockHeld /\ Watched /\ Audio!OneSpeaker /\ Spoken

\* Nobody turns a focus state on but playback itself.
OwnFocus == \A r \in Offers : r.do \notin {"assistant_start", "announcement_start"}

\* A flag that is on belongs to the playback in the slot, or who has the lock is
\* about to turn it off; and only who has started a playback turns one on.
BelongsTo(f, k) ==
  CASE f = "assistant_speaking" -> k = "assistant"
    [] f = "announcement_active" -> k \in {"announcement", "critical"}
    [] OTHER -> k = "critical"
Going(f) == lock # Audio!NoActor /\ \E i \in 1..Len(program[lock]) : program[lock][i] = Audio!Set(f, FALSE)
TurnsOn(o) == o.do = "set" /\ o.on /\ o.flag # "listening"
Quiet(s) == \A i \in 1..Len(s) : ~TurnsOn(s[i])
Silent ==
  /\ \A f \in Audio!Flags \ {"listening"} : Audio!InFocus(f) => BelongsTo(f, kind) \/ Going(f)
  /\ \A a \in Audio!Actors : Quiet(program[a]) \/ (a = lock /\ slot # Audio!NoProcess)

-----------------------------------------------------------------------------
LEMMA HeadAndTail ==
  ASSUME NEW S, NEW s \in Seq(S), s # <<>>
  PROVE  /\ Len(s) \in Nat /\ 1 \in 1..Len(s) /\ Head(s) = s[1] /\ s[1] \in S
         /\ Tail(s) \in Seq(S) /\ Len(Tail(s)) = Len(s) - 1
         /\ \A i \in 1..Len(Tail(s)) : Tail(s)[i] = s[i + 1] /\ i + 1 \in 1..Len(s)
  OBVIOUS

LEMMA TailKeeps ==
  ASSUME NEW s \in Seq(Audio!Operations), s # <<>>
  PROVE  /\ Ordered(s) => Ordered(Tail(s))
         /\ Holding(s) /\ Head(s).do \notin Enders => Holding(Tail(s))
         /\ NotYet(s) /\ Head(s).do # "stop" => NotYet(Tail(s))
<1> USE HeadAndTail
<1>0. \A j \in 2..Len(s) : j - 1 \in 1..Len(Tail(s)) /\ Tail(s)[j - 1] = s[j]
  OBVIOUS
<1>1. ASSUME Ordered(s) PROVE Ordered(Tail(s))
  <2>1. \A i, j \in 1..Len(Tail(s)) : i < j =>
          /\ Tail(s)[i].do \notin {"popen", "reap"}
          /\ Tail(s)[i].do = "stop" => Tail(s)[j].do \notin {"stop", "fetch", "reap"}
          /\ Tail(s)[i].do = "unlock" => Tail(s)[j].do = "clear"
    BY <1>1 DEF Ordered
  <2>2. ASSUME NEW i \in 1..Len(Tail(s)), Tail(s)[i].do = "stop"
        PROVE  \E j \in 1..Len(Tail(s)) : i < j /\ Tail(s)[j].do \in Enders
    <3>1. PICK j \in 1..Len(s) : i + 1 < j /\ s[j].do \in Enders
      BY <1>1, <2>2 DEF Ordered
    <3>2. j - 1 \in 1..Len(Tail(s)) /\ i < j - 1 /\ Tail(s)[j - 1] = s[j]
      BY <1>0, <3>1
    <3> QED
      BY <3>1, <3>2
  <2> QED
    BY <2>1, <2>2 DEF Ordered
<1>2. ASSUME Holding(s), Head(s).do \notin Enders PROVE Holding(Tail(s))
  <2>1. PICK i \in 1..Len(s) : s[i].do \in Enders
    BY <1>2 DEF Holding
  <2>2. i \in 2..Len(s)
    BY <1>2, <2>1
  <2> QED
    BY <1>0, <1>2, <2>1, <2>2 DEF Holding
<1>3. ASSUME NotYet(s), Head(s).do # "stop" PROVE NotYet(Tail(s))
  <2> SUFFICES ASSUME NEW i \in 1..Len(Tail(s)), Tail(s)[i].do \in Enders
               PROVE  \E j \in 1..Len(Tail(s)) : j < i /\ Tail(s)[j].do = "stop"
    BY DEF NotYet
  <2>1. PICK j \in 1..Len(s) : j < i + 1 /\ s[j].do = "stop"
    BY <1>3 DEF NotYet
  <2>2. j # 1
    BY <1>3, <2>1
  <2>3. j - 1 \in 1..Len(Tail(s)) /\ j - 1 < i /\ Tail(s)[j - 1] = s[j]
    BY <2>1, <2>2
  <2> QED
    BY <2>1, <2>3
<1> QED
  BY <1>1, <1>2, <1>3

\* The two short programs that are put together.
LEMMA Joined ==
  ASSUME NEW S, NEW a \in S, NEW b \in S, NEW c \in S
  PROVE  <<a>> \o <<c>> = <<a, c>> /\ <<a, b>> \o <<c>> = <<a, b, c>>
<1>1. /\ <<a>> \in Seq(S) /\ <<c>> \in Seq(S) /\ <<a, b>> \in Seq(S)
      /\ <<a, c>> \in Seq(S) /\ <<a, b, c>> \in Seq(S)
  OBVIOUS
<1>2. /\ <<a>> \o <<c>> \in Seq(S) /\ Len(<<a>> \o <<c>>) = 2
      /\ (<<a>> \o <<c>>)[1] = a /\ (<<a>> \o <<c>>)[2] = c
  BY <1>1, ConcatProperties
<1>3. /\ <<a, b>> \o <<c>> \in Seq(S) /\ Len(<<a, b>> \o <<c>>) = 3
      /\ (<<a, b>> \o <<c>>)[1] = a /\ (<<a, b>> \o <<c>>)[2] = b /\ (<<a, b>> \o <<c>>)[3] = c
  BY <1>1, ConcatProperties
<1>4. \A i \in 1..2 : (<<a>> \o <<c>>)[i] = <<a, c>>[i]
  BY <1>2
<1>5. \A i \in 1..3 : (<<a, b>> \o <<c>>)[i] = <<a, b, c>>[i]
  BY <1>3
<1>6. <<a>> \o <<c>> = <<a, c>>
  BY <1>1, <1>2, <1>4, SeqEqual
<1>7. <<a, b>> \o <<c>> = <<a, b, c>>
  BY <1>1, <1>3, <1>5, SeqEqual
<1> QED
  BY <1>6, <1>7

\* Turning flags off before the rest changes nothing about the rest.
Sets(u) == \A i \in 1..Len(u) : u[i].do = "set"

LEMMA AnOperation ==
  /\ \A f \in Audio!Flags, on \in BOOLEAN :
       /\ Audio!Set(f, on) \in Audio!Operations /\ Audio!Set(f, on).do = "set"
       /\ Audio!Set(f, on).flag = f /\ Audio!Set(f, on).on = on
  /\ \A name \in {"fetch", "stop", "unlock", "clear", "reap"} :
       Audio!Op(name, Audio!None) \in Audio!Operations /\ Audio!Op(name, Audio!None).do = name /\ Audio!Op(name, Audio!None).flag = Audio!None
  /\ \A k \in Audio!Kinds : Audio!Op("popen", k) \in Audio!Operations /\ Audio!Op("popen", k).do = "popen" /\ Audio!Op("popen", k).flag = k
<1>1. ASSUME NEW f \in Audio!Flags, NEW on \in BOOLEAN
      PROVE  /\ Audio!Set(f, on) \in Audio!Operations /\ Audio!Set(f, on).do = "set"
             /\ Audio!Set(f, on).flag = f /\ Audio!Set(f, on).on = on
  BY DEF Audio!Set, Audio!Operations
<1>2. ASSUME NEW name \in {"fetch", "stop", "unlock", "clear", "reap"}
      PROVE  Audio!Op(name, Audio!None) \in Audio!Operations /\ Audio!Op(name, Audio!None).do = name /\ Audio!Op(name, Audio!None).flag = Audio!None
  BY DEF Audio!Op, Audio!Operations
<1>3. ASSUME NEW k \in Audio!Kinds
      PROVE  Audio!Op("popen", k) \in Audio!Operations /\ Audio!Op("popen", k).do = "popen" /\ Audio!Op("popen", k).flag = k
  BY DEF Audio!Op, Audio!Operations
<1> QED
  BY <1>1, <1>2, <1>3

\* Programs that do nothing but set one or two flags.
LEMMA OnlySets ==
  ASSUME NEW s
  PROVE  /\ s = <<>> => s \in Seq(Audio!Operations) /\ Sets(s) /\ Len(s) = 0
         /\ \A a \in Audio!Operations : a.do = "set" /\ s = <<a>> =>
              s \in Seq(Audio!Operations) /\ Sets(s) /\ \A i \in 1..Len(s) : s[i] = a
         /\ \A a, b \in Audio!Operations : a.do = "set" /\ b.do = "set" /\ s = <<a, b>> =>
              s \in Seq(Audio!Operations) /\ Sets(s) /\ \A i \in 1..Len(s) : s[i] \in {a, b}
<1>1. ASSUME s = <<>> PROVE s \in Seq(Audio!Operations) /\ Sets(s) /\ Len(s) = 0
  BY <1>1 DEF Sets
<1>2. ASSUME NEW a \in Audio!Operations, a.do = "set", s = <<a>>
      PROVE  s \in Seq(Audio!Operations) /\ Sets(s) /\ \A i \in 1..Len(s) : s[i] = a
  BY <1>2 DEF Sets
<1>3. ASSUME NEW a \in Audio!Operations, NEW b \in Audio!Operations, a.do = "set", b.do = "set", s = <<a, b>>
      PROVE  s \in Seq(Audio!Operations) /\ Sets(s) /\ \A i \in 1..Len(s) : s[i] \in {a, b}
  BY <1>3 DEF Sets
<1> QED
  BY <1>1, <1>2, <1>3

LEMMA OffIsSets ==
  ASSUME NEW k \in Audio!Kinds \cup {Audio!None}
  PROVE  /\ Audio!Off(k) \in Seq(Audio!Operations) /\ Sets(Audio!Off(k))
         /\ \A i \in 1..Len(Audio!Off(k)) : ~Audio!Off(k)[i].on
<1> DEFINE AnOff(o) == o \in Audio!Operations /\ o.do = "set" /\ ~o.on
<1>1. CASE k = Audio!None
  <2>1. Audio!Off(k) = <<>>
    BY <1>1 DEF Audio!Off, Audio!None
  <2> QED
    BY <2>1, OnlySets
<1>2. CASE k = "assistant"
  <2> DEFINE a == Audio!Set("assistant_speaking", FALSE)
  <2>1. Audio!Off(k) = <<a>>
    BY <1>2 DEF Audio!Off, Audio!None
  <2>2. AnOff(a)
    BY AnOperation DEF Audio!Flags
  <2> HIDE DEF a
  <2> QED
    BY <2>1, <2>2, OnlySets
<1>3. CASE k \in {"announcement", "critical"}
  <2> DEFINE a == Audio!Set("announcement_active", FALSE)  b == Audio!Set("critical_announcement", FALSE)
  <2>1. Audio!Off(k) = <<a, b>>
    BY <1>3 DEF Audio!Off, Audio!None
  <2>2. AnOff(a) /\ AnOff(b)
    BY AnOperation DEF Audio!Flags
  <2> HIDE DEF a, b
  <2> QED
    BY <2>1, <2>2, OnlySets
<1> QED
  BY <1>1, <1>2, <1>3 DEF Audio!Kinds

LEMMA SetsBefore ==
  ASSUME NEW u \in Seq(Audio!Operations), Sets(u), NEW t \in Seq(Audio!Operations)
  PROVE  /\ u \o t \in Seq(Audio!Operations)
         /\ Ordered(t) => Ordered(u \o t)
         /\ Holding(t) => Holding(u \o t)
<1>1. /\ u \o t \in Seq(Audio!Operations) /\ Len(u \o t) = Len(u) + Len(t)
      /\ \A i \in 1..Len(u \o t) : (u \o t)[i] = IF i <= Len(u) THEN u[i] ELSE t[i - Len(u)]
  OBVIOUS
<1>2. /\ Len(u) \in Nat /\ Len(t) \in Nat
      /\ \A i \in 1..Len(u \o t) : i > Len(u) => i - Len(u) \in 1..Len(t)
      /\ \A i \in 1..Len(u \o t) : i <= Len(u) => i \in 1..Len(u)
  BY <1>1
<1>3. \A i \in 1..Len(u \o t) : i <= Len(u) => (u \o t)[i].do = "set"
  BY <1>1, <1>2 DEF Sets
<1>4. \A i, j \in 1..Len(u \o t) : i < j /\ i > Len(u) => i - Len(u) < j - Len(u) /\ j > Len(u)
  BY <1>2
<1>a. \A j \in 1..Len(t) : j + Len(u) \in 1..Len(u \o t) /\ (u \o t)[j + Len(u)] = t[j]
  BY <1>1, <1>2
<1>5. ASSUME Ordered(t) PROVE Ordered(u \o t)
  <2>1. ASSUME NEW i \in 1..Len(u \o t), NEW j \in 1..Len(u \o t), i < j
        PROVE  /\ (u \o t)[i].do \notin {"popen", "reap"}
               /\ (u \o t)[i].do = "stop" => (u \o t)[j].do \notin {"stop", "fetch", "reap"}
               /\ (u \o t)[i].do = "unlock" => (u \o t)[j].do = "clear"
    <3>1. CASE i <= Len(u)
      BY <3>1, <1>3
    <3>2. CASE i > Len(u)
      <4>1. (u \o t)[i] = t[i - Len(u)] /\ (u \o t)[j] = t[j - Len(u)]
        BY <1>1, <1>2, <1>4, <2>1, <3>2
      <4> QED
        BY <1>2, <1>4, <1>5, <2>1, <3>2, <4>1 DEF Ordered
    <3> QED
      BY <1>2, <3>1, <3>2
  <2>2. ASSUME NEW i \in 1..Len(u \o t), (u \o t)[i].do = "stop"
        PROVE  \E j \in 1..Len(u \o t) : i < j /\ (u \o t)[j].do \in Enders
    <3>1. i > Len(u) /\ (u \o t)[i] = t[i - Len(u)] /\ i - Len(u) \in 1..Len(t)
      BY <1>1, <1>2, <1>3, <2>2
    <3>2. PICK j \in 1..Len(t) : i - Len(u) < j /\ t[j].do \in Enders
      BY <1>5, <2>2, <3>1 DEF Ordered
    <3>3. j + Len(u) \in 1..Len(u \o t) /\ i < j + Len(u) /\ (u \o t)[j + Len(u)] = t[j]
      BY <1>a, <1>2, <3>1, <3>2
    <3> QED
      BY <3>2, <3>3
  <2> QED
    BY <2>1, <2>2 DEF Ordered
<1>6. ASSUME Holding(t) PROVE Holding(u \o t)
  <2>1. PICK j \in 1..Len(t) : t[j].do \in Enders
    BY <1>6 DEF Holding
  <2>2. \A i \in 1..Len(u \o t) : (u \o t)[i].do \in {"set", "clear"} \cup Enders
    BY <1>1, <1>2, <1>3, <1>6 DEF Holding
  <2> QED
    BY <1>a, <2>1, <2>2 DEF Holding
<1> QED
  BY <1>1, <1>5, <1>6

LEMMA Announced ==
  ASSUME NEW k \in Audio!Kinds, NEW s \in Announcing(k)
  PROVE  /\ s \in Seq(Audio!Operations) /\ s # <<>> /\ Ordered(s) /\ Holding(s)
         /\ Head(s).do \in {"set", "unlock"}
         /\ Head(s).do = "set" => Tail(s) \in Announcing(k)
         /\ Head(s).do = "unlock" => s = Release
         /\ Head(s).do = "set" /\ ~Head(s).on =>
              Head(s).flag = "critical_announcement" /\ k # "critical"
<1> DEFINE unlock == Audio!Op("unlock", Audio!None)
<1>0. unlock \in Audio!Operations /\ unlock.do = "unlock" /\ Release = <<unlock>>
  BY AnOperation DEF Release
<1>1. CASE s = Release
  <2> HIDE DEF unlock
  <2> QED
    BY <1>0, <1>1 DEF Ordered, Holding, Enders
<1>2. ASSUME NEW x \in Audio!Operations, x.do = "set", s = <<x, unlock>>
      PROVE  /\ s \in Seq(Audio!Operations) /\ s # <<>> /\ Ordered(s) /\ Holding(s)
             /\ Head(s).do = "set" /\ Tail(s) = Release
  <2> HIDE DEF unlock
  <2> QED
    BY <1>0, <1>2 DEF Ordered, Holding, Enders
<1>3. ASSUME NEW x \in Audio!Operations, x.do = "set", NEW y \in Audio!Operations, y.do = "set", s = <<x, y, unlock>>
      PROVE  /\ s \in Seq(Audio!Operations) /\ s # <<>> /\ Ordered(s) /\ Holding(s)
             /\ Head(s).do = "set" /\ Tail(s) = <<y, unlock>>
  <2> HIDE DEF unlock
  <2> QED
    BY <1>0, <1>3 DEF Ordered, Holding, Enders
<1> DEFINE a == Audio!Set("assistant_speaking", TRUE)
           b == Audio!Set("announcement_active", TRUE)
           c == Audio!Set("critical_announcement", k = "critical")
<1>4. /\ a \in Audio!Operations /\ b \in Audio!Operations /\ c \in Audio!Operations
      /\ a.do = "set" /\ b.do = "set" /\ c.do = "set" /\ a.on /\ b.on
      /\ c.on = (k = "critical") /\ c.flag = "critical_announcement"
  <2>1. (k = "critical") \in BOOLEAN
    OBVIOUS
  <2> QED
    BY <2>1, AnOperation DEF Audio!Flags
<1>5. Announcing(k) = IF k = "assistant" THEN {<<a, unlock>>, Release}
                      ELSE {<<b, c, unlock>>, <<c, unlock>>, Release}
  BY DEF Announcing
<1> HIDE DEF unlock, a, b, c
<1>6. Head(<<a, unlock>>) = a /\ Head(<<b, c, unlock>>) = b /\ Head(<<c, unlock>>) = c /\ Head(<<unlock>>) = unlock
  OBVIOUS
<1>7. CASE s = Release
  BY <1>0, <1>1, <1>6, <1>7
<1>8. CASE s = <<a, unlock>> /\ k = "assistant"
  BY <1>0, <1>2, <1>4, <1>5, <1>6, <1>8
<1>9. CASE s = <<c, unlock>> /\ k # "assistant"
  BY <1>0, <1>2, <1>4, <1>5, <1>6, <1>9
<1>10. CASE s = <<b, c, unlock>> /\ k # "assistant"
  BY <1>0, <1>3, <1>4, <1>5, <1>6, <1>10
<1> QED
  BY <1>5, <1>7, <1>8, <1>9, <1>10

\* The operations a program is made of, one kind at a time.
LEMMA FlagSet ==
  ASSUME NEW f \in Audio!Flags, NEW on \in BOOLEAN
  PROVE  Audio!Set(f, on) \in Audio!Operations /\ Audio!Set(f, on).do = "set"
BY AnOperation

LEMMA Plain ==
  ASSUME NEW name \in {"fetch", "stop", "unlock", "clear", "reap"}
  PROVE  Audio!Op(name, Audio!None) \in Audio!Operations /\ Audio!Op(name, Audio!None).do = name
BY AnOperation

LEMMA SpeechFlags ==
  {"assistant_speaking", "announcement_active", "critical_announcement"} \subseteq Audio!Flags
BY DEF Audio!Flags

LEMMA Started ==
  ASSUME NEW k \in Audio!Kinds
  PROVE  Audio!On(k) \o <<Audio!Op("unlock", Audio!None)>> \in Announcing(k)
<1> DEFINE u == Audio!Op("unlock", Audio!None)
           a == Audio!Set("assistant_speaking", TRUE)
           b == Audio!Set("announcement_active", TRUE)
           c == Audio!Set("critical_announcement", k = "critical")
<1>1. (k = "critical") \in BOOLEAN
  OBVIOUS
<1>2. {u, a, b, c} \subseteq Audio!Operations
  <2>1. u \in Audio!Operations
    BY Plain
  <2>2. a \in Audio!Operations
    BY FlagSet, SpeechFlags
  <2>3. b \in Audio!Operations
    BY FlagSet, SpeechFlags
  <2>4. c \in Audio!Operations
    BY <1>1, FlagSet, SpeechFlags
  <2> HIDE DEF u, a, b, c
  <2> QED
    BY <2>1, <2>2, <2>3, <2>4
<1>3. Audio!On(k) = IF k = "assistant" THEN <<a>> ELSE <<b, c>>
  BY DEF Audio!On
<1>4. Announcing(k) = IF k = "assistant" THEN {<<a, u>>, Release} ELSE {<<b, c, u>>, <<c, u>>, Release}
  BY DEF Announcing
<1> HIDE DEF u, a, b, c
<1>5. <<a>> \o <<u>> = <<a, u>> /\ <<b, c>> \o <<u>> = <<b, c, u>>
  BY <1>2, Joined
<1>6. Audio!On(k) \o <<u>> \in Announcing(k)
  BY <1>3, <1>4, <1>5
<1> QED
  BY <1>6 DEF u

\* Its flags come on after a playback was started.
LEMMA Flagged ==
  ASSUME NEW k \in Audio!Kinds, NEW x, x = Audio!On(k) \o <<Audio!Op("unlock", Audio!None)>>
  PROVE  /\ k = "assistant" => x[1] = Audio!Set("assistant_speaking", TRUE) /\ 1 \in 1..Len(x)
         /\ k # "assistant" => x[1] = Audio!Set("announcement_active", TRUE) /\ 1 \in 1..Len(x)
         /\ k = "critical" => x[2] = Audio!Set("critical_announcement", TRUE) /\ 2 \in 1..Len(x)
<1> DEFINE u == Audio!Op("unlock", Audio!None)
           a == Audio!Set("assistant_speaking", TRUE)
           b == Audio!Set("announcement_active", TRUE)
           c == Audio!Set("critical_announcement", k = "critical")
<1>1. {u, a, b, c} \subseteq Audio!Operations
  <2>1. (k = "critical") \in BOOLEAN
    OBVIOUS
  <2>2. u \in Audio!Operations
    BY Plain
  <2>3. a \in Audio!Operations
    BY FlagSet, SpeechFlags
  <2>4. b \in Audio!Operations
    BY FlagSet, SpeechFlags
  <2>5. c \in Audio!Operations
    BY <2>1, FlagSet, SpeechFlags
  <2> HIDE DEF u, a, b, c
  <2> QED
    BY <2>2, <2>3, <2>4, <2>5
<1>2. Audio!On(k) = IF k = "assistant" THEN <<a>> ELSE <<b, c>>
  BY DEF Audio!On
<1>3. k = "critical" => c = Audio!Set("critical_announcement", TRUE)
  OBVIOUS
<1> HIDE DEF u, a, b, c
<1>4. x = IF k = "assistant" THEN <<a, u>> ELSE <<b, c, u>>
  <2>1. x = Audio!On(k) \o <<u>>
    BY DEF u
  <2>2. <<a>> \o <<u>> = <<a, u>> /\ <<b, c>> \o <<u>> = <<b, c, u>>
    BY <1>1, Joined
  <2> QED
    BY <1>2, <2>1, <2>2
<1>5. /\ k = "assistant" => x[1] = a /\ 1 \in 1..Len(x)
      /\ k # "assistant" => x[1] = b /\ 1 \in 1..Len(x) /\ x[2] = c /\ 2 \in 1..Len(x)
  BY <1>4
<1> QED
  BY <1>3, <1>5 DEF a, b

LEMMA SetsAreOrdered ==
  ASSUME NEW s \in Seq(Audio!Operations), Sets(s) PROVE Ordered(s) /\ NotYet(s)
  BY DEF Sets, Ordered, NotYet, Enders

LEMMA Programs ==
  ASSUME NEW r \in Audio!Requests
  PROVE  Audio!Program(r) \in Seq(Audio!Operations) /\ Ordered(Audio!Program(r)) /\ NotYet(Audio!Program(r))
<1> USE AnOperation DEF Audio!Flags
<1>1. CASE r.do = "play"
  <2>1. r.kind \in Audio!Kinds
    BY <1>1 DEF Audio!Requests, Audio!PlayRequests
  <2> DEFINE f == Audio!Op("fetch", Audio!None)  s == Audio!Op("stop", Audio!None)  p == Audio!Op("popen", r.kind)
  <2>2. Audio!Program(r) = <<f, s, p>>
    BY <1>1 DEF Audio!Program
  <2>3. /\ f \in Audio!Operations /\ s \in Audio!Operations /\ p \in Audio!Operations
        /\ f.do = "fetch" /\ s.do = "stop" /\ p.do = "popen"
    <3>1. f \in Audio!Operations /\ f.do = "fetch"
      BY Plain
    <3>2. s \in Audio!Operations /\ s.do = "stop"
      BY Plain
    <3>3. p \in Audio!Operations /\ p.do = "popen"
      BY <2>1, AnOperation
    <3> HIDE DEF f, s, p
    <3> QED
      BY <3>1, <3>2, <3>3
  <2> HIDE DEF f, s, p
  <2>4. Ordered(<<f, s, p>>) /\ NotYet(<<f, s, p>>)
    BY <2>3 DEF Ordered, NotYet, Enders
  <2> QED
    BY <2>2, <2>3, <2>4
<1>2. CASE r.do = "cancel"
  <2> DEFINE s == Audio!Op("stop", Audio!None)  u == Audio!Op("unlock", Audio!None)  c == Audio!Op("clear", Audio!None)
             x == Audio!Set("assistant_speaking", FALSE)  y == Audio!Set("announcement_active", FALSE)
             z == Audio!Set("critical_announcement", FALSE)
  <2>1. Audio!Program(r) = <<s, x, y, z, u, c>>
    BY <1>2 DEF Audio!Program
  <2>2. /\ {s, u, c, x, y, z} \subseteq Audio!Operations
        /\ s.do = "stop" /\ u.do = "unlock" /\ c.do = "clear"
        /\ x.do = "set" /\ y.do = "set" /\ z.do = "set"
    <3>1. s \in Audio!Operations /\ s.do = "stop"
      BY Plain
    <3>2. u \in Audio!Operations /\ u.do = "unlock"
      BY Plain
    <3>3. c \in Audio!Operations /\ c.do = "clear"
      BY Plain
    <3>4. x \in Audio!Operations /\ x.do = "set"
      BY FlagSet, SpeechFlags
    <3>5. y \in Audio!Operations /\ y.do = "set"
      BY FlagSet, SpeechFlags
    <3>6. z \in Audio!Operations /\ z.do = "set"
      BY FlagSet, SpeechFlags
    <3> HIDE DEF s, u, c, x, y, z
    <3> QED
      BY <3>1, <3>2, <3>3, <3>4, <3>5, <3>6
  <2> HIDE DEF s, u, c, x, y, z
  <2>3. <<s, x, y, z, u, c>> \in Seq(Audio!Operations)
    BY <2>2
  <2>4. Ordered(<<s, x, y, z, u, c>>) /\ NotYet(<<s, x, y, z, u, c>>)
    BY <2>2 DEF Ordered, NotYet, Enders
  <2> QED
    BY <2>1, <2>3, <2>4
<1>3. ASSUME NEW a \in Audio!Operations, a.do = "set", Audio!Program(r) = <<a>>
      PROVE  Audio!Program(r) \in Seq(Audio!Operations) /\ Ordered(Audio!Program(r)) /\ NotYet(Audio!Program(r))
  BY <1>3, OnlySets, SetsAreOrdered
<1>4. ASSUME NEW a \in Audio!Operations, NEW b \in Audio!Operations, a.do = "set", b.do = "set", Audio!Program(r) = <<a, b>>
      PROVE  Audio!Program(r) \in Seq(Audio!Operations) /\ Ordered(Audio!Program(r)) /\ NotYet(Audio!Program(r))
  BY <1>4, OnlySets, SetsAreOrdered
<1>5. CASE r.do \in {"start_listening", "stop_listening"}
  <2>1. Audio!Program(r) = <<Audio!Set("listening", r.do = "start_listening")>>
    BY <1>5 DEF Audio!Program
  <2>2. (r.do = "start_listening") \in BOOLEAN
    OBVIOUS
  <2> QED
    BY <1>3, <2>1, <2>2
<1>6. CASE r.do \in {"assistant_start", "assistant_end"}
  <2>1. Audio!Program(r) = <<Audio!Set("assistant_speaking", r.do = "assistant_start")>>
    BY <1>6 DEF Audio!Program
  <2>2. (r.do = "assistant_start") \in BOOLEAN
    OBVIOUS
  <2> QED
    BY <1>3, <2>1, <2>2
<1>7. CASE r.do = "announcement_start"
  <2>1. Audio!Program(r) = <<Audio!Set("announcement_active", TRUE), Audio!Set("critical_announcement", r.kind = "critical")>>
    BY <1>7 DEF Audio!Program
  <2>2. (r.kind = "critical") \in BOOLEAN
    OBVIOUS
  <2> QED
    BY <1>4, <2>1, <2>2
<1>8. CASE r.do = "announcement_end"
  <2>1. Audio!Program(r) = <<Audio!Set("announcement_active", FALSE), Audio!Set("critical_announcement", FALSE)>>
    BY <1>8 DEF Audio!Program
  <2> QED
    BY <1>4, <2>1
<1> QED
  BY <1>1, <1>2, <1>5, <1>6, <1>7, <1>8 DEF Audio!Requests, Audio!PlayRequests

-----------------------------------------------------------------------------
LEMMA AudioConstants ==
  ASSUME Audio!BoundsAssumption
  PROVE  /\ Audio!NoActor \notin Audio!Actors /\ Audio!Processes \subseteq Audio!Actors /\ Threads \subseteq Audio!Actors
         /\ Audio!NoProcess \notin Audio!Processes /\ Threads \cap Audio!Processes = {}
  BY DEF Audio!BoundsAssumption, Audio!Actors, Audio!Processes, Audio!NoActor, Audio!NoProcess

\* What an actor is about to do, and what is left then.
LEMMA Next1 ==
  ASSUME Audio!TypeOK, NEW a \in Audio!Actors, program[a] # <<>>
  PROVE  /\ program[a] \in Seq(Audio!Operations) /\ Head(program[a]) \in Audio!Operations
         /\ Head(program[a]) = program[a][1] /\ 1 \in 1..Len(program[a])
         /\ Tail(program[a]) \in Seq(Audio!Operations)
  BY HeadAndTail DEF Audio!TypeOK

\* A step of one actor that leaves the lock where it is.
LEMMA LockKept ==
  ASSUME Audio!TypeOK, LockHeld, Audio!BoundsAssumption, NEW a \in Audio!Actors, NEW x \in Seq(Audio!Operations),
         program' = [program EXCEPT ![a] = x], lock' = lock, Ordered(x),
         a = lock => Holding(x), a # lock => NotYet(x),
         slot' # Audio!NoProcess => slot' = slot /\ kind' = kind,
         slot' # Audio!NoProcess /\ lock = a => x \in Announcing(kind)
  PROVE  LockHeld'
<1>1. program' \in [Audio!Actors -> Seq(Audio!Operations)] /\ \A b \in Audio!Actors : program'[b] = IF b = a THEN x ELSE program[b]
  BY DEF Audio!TypeOK
<1>2. lock # Audio!NoActor => lock \in Audio!Actors
  BY DEF Audio!TypeOK
<1> QED
  BY <1>1, <1>2 DEF LockHeld

\* Who has the lock has something to do.
LEMMA HolderGoesOn ==
  ASSUME Audio!TypeOK, LockHeld, lock # Audio!NoActor
  PROVE  lock \in Audio!Actors /\ program[lock] # <<>>
<1>1. lock \in Audio!Actors /\ program[lock] \in Seq(Audio!Operations)
  BY DEF Audio!TypeOK
<1>2. Holding(program[lock])
  BY <1>1 DEF LockHeld
<1> QED
  BY <1>1, <1>2 DEF Holding

LEMMA InSlot ==
  ASSUME Audio!TypeOK, slot # Audio!NoProcess PROVE kind \in Audio!Kinds /\ slot \in Audio!Processes
  BY DEF Audio!TypeOK

-----------------------------------------------------------------------------
LEMMA RequestKeeps ==
  ASSUME Audio!BoundsAssumption, AudioInv, NEW t \in Threads, NEW r \in Offers, Audio!Request(t, r)
  PROVE  AudioInv'
<1> USE DEF AudioInv
<1>1. t \in Audio!Actors /\ t # lock
  BY AudioConstants, HolderGoesOn DEF Audio!Request
<1>2. Audio!Program(r) \in Seq(Audio!Operations) /\ Ordered(Audio!Program(r)) /\ NotYet(Audio!Program(r))
  BY Programs DEF Audio!BoundsAssumption
<1>3. program' = [program EXCEPT ![t] = Audio!Program(r)]
      /\ UNCHANGED <<focus, expiry, lock, slot, kind, running, told, started, disturbed, lapses>>
  BY DEF Audio!Request, Audio!state, Audio!playback, Audio!processes
<1>4. requests' \in 0..MaxRequests
  BY DEF Audio!Request, Audio!TypeOK, Audio!BoundsAssumption
<1>5. Audio!TypeOK'
  BY <1>1, <1>2, <1>3, <1>4 DEF Audio!TypeOK
<1>6. LockHeld'
  BY <1>1, <1>2, <1>3, LockKept
<1>7. Watched'
  BY <1>1, <1>3, AudioConstants DEF Watched, Audio!TypeOK
<1>8. Audio!OneSpeaker'
  BY <1>3 DEF Audio!OneSpeaker
<1>9. Spoken'
  BY <1>1, <1>3 DEF Spoken, Coming, Audio!InFocus, Audio!Expired, Audio!TypeOK
<1> QED
  BY <1>5, <1>6, <1>7, <1>8, <1>9

LEMMA SetFlagKeeps ==
  ASSUME Audio!BoundsAssumption, AudioInv, NEW a \in Audio!Actors, Audio!SetFlag(a)
  PROVE  AudioInv'
<1> USE DEF AudioInv
<1> DEFINE s == program[a]  h == Head(program[a])  f == h.flag
<1>1. /\ s # <<>> /\ h.do = "set" /\ s \in Seq(Audio!Operations) /\ h \in Audio!Operations /\ h = s[1]
      /\ 1 \in 1..Len(s) /\ Tail(s) \in Seq(Audio!Operations)
  BY Next1 DEF Audio!SetFlag, Audio!Doing
<1>2. f \in Audio!Flags /\ h.on \in BOOLEAN
  BY <1>1 DEF Audio!Operations
<1>3. /\ program' = [program EXCEPT ![a] = Tail(s)]
      /\ UNCHANGED <<lock, slot, kind, running, told, started, requests, lapses>>
      /\ focus' = IF h.on THEN (focus \ Audio!Expired) \cup {f} ELSE focus \ (Audio!Expired \cup {f})
      /\ expiry' = [g \in Audio!Flags |-> IF g = f THEN IF h.on THEN "ahead" ELSE Audio!None
                                   ELSE IF g \in Audio!Expired THEN Audio!None ELSE expiry[g]]
      /\ IF h.on THEN UNCHANGED disturbed ELSE Audio!Disturb(a)
  BY DEF Audio!SetFlag, Audio!Rest, Audio!playback
<1>4. disturbed' = disturbed \/ (lock # a /\ disturbed' = disturbed \cup ({slot} \cap running))
  BY <1>3 DEF Audio!Disturb
<1>5. Audio!TypeOK'
  <2>1. focus' \subseteq Audio!Flags
    BY <1>2, <1>3 DEF Audio!TypeOK
  <2>2. expiry' \in [Audio!Flags -> {Audio!None, "ahead", "past"}]
    BY <1>3 DEF Audio!TypeOK
  <2>3. \A g \in Audio!Flags : expiry'[g] # Audio!None => g \in focus'
    BY <1>2, <1>3 DEF Audio!TypeOK, Audio!Expired
  <2>4. program' \in [Audio!Actors -> Seq(Audio!Operations)]
    BY <1>1, <1>3 DEF Audio!TypeOK
  <2>5. disturbed' \subseteq 1..started'
    BY <1>3, <1>4 DEF Audio!TypeOK
  <2> QED
    BY <1>3, <2>1, <2>2, <2>3, <2>4, <2>5 DEF Audio!TypeOK
<1>6. h.do \notin Enders /\ h.do # "stop"
  BY <1>1 DEF Enders
<1>7. slot # Audio!NoProcess /\ lock = a =>
        /\ kind \in Audio!Kinds /\ s \in Announcing(kind)
        /\ Tail(s) \in Announcing(kind)
        /\ ~h.on => f = "critical_announcement" /\ kind # "critical"
  BY <1>1, InSlot, Announced, AudioConstants DEF LockHeld
<1>8. LockHeld'
  <2>1. Ordered(Tail(s)) /\ (a = lock => Holding(Tail(s))) /\ (a # lock => NotYet(Tail(s)))
    BY <1>1, <1>6, TailKeeps DEF LockHeld
  <2> QED
    BY <1>1, <1>3, <1>7, <2>1, LockKept
<1>9. Watched'
  BY <1>1, <1>3 DEF Watched, Audio!TypeOK
<1>10. Audio!OneSpeaker'
  BY <1>3 DEF Audio!OneSpeaker
<1>11. Spoken'
  <2> SUFFICES ASSUME slot \in (running \ told) \ disturbed'
               PROVE  /\ kind = "assistant" => (Audio!InFocus("assistant_speaking") \/ Coming("assistant_speaking"))'
                      /\ kind # "assistant" => (Audio!InFocus("announcement_active") \/ Coming("announcement_active"))'
                      /\ kind = "critical" => (Audio!InFocus("critical_announcement") \/ Coming("critical_announcement"))'
    BY <1>3 DEF Spoken
  <2>1. slot # Audio!NoProcess /\ slot \in (running \ told) \ disturbed
    BY <1>4 DEF Audio!TypeOK, Audio!NoProcess
  <2>2. ~h.on => lock = a /\ f = "critical_announcement" /\ kind # "critical"
    BY <1>3, <1>7, <2>1 DEF Audio!Disturb
  <2>3. ASSUME NEW g \in Audio!Flags, Audio!InFocus(g), ~h.on => g # f PROVE Audio!InFocus(g)'
    BY <1>2, <1>3, <2>3 DEF Audio!InFocus, Audio!Expired, Audio!None
  <2>4. ASSUME NEW g \in Audio!Flags, Coming(g) PROVE Audio!InFocus(g)' \/ Coming(g)'
    <3>1. lock \in Audio!Actors /\ program'[lock] = IF lock = a THEN Tail(s) ELSE program[lock]
      BY <1>3, <2>4, HolderGoesOn DEF Coming, Audio!TypeOK
    <3>2. PICK i \in 1..Len(program[lock]) : program[lock][i] = Audio!Set(g, TRUE)
      BY <2>4 DEF Coming
    <3>3. CASE lock # a
      BY <1>3, <2>4, <3>1, <3>2, <3>3 DEF Coming
    <3>4. CASE lock = a /\ i = 1
      <4>1. h.on /\ f = g
        BY <1>1, <3>2, <3>4 DEF Audio!Set
      <4> QED
        BY <1>2, <1>3, <4>1 DEF Audio!InFocus, Audio!Expired
    <3>5. CASE lock = a /\ i # 1
      <4>1. i - 1 \in 1..Len(Tail(s)) /\ Tail(s)[i - 1] = s[i]
        BY <1>1, <3>2, <3>5
      <4>2. program'[lock'] = Tail(s) /\ lock' # Audio!NoActor
        BY <1>3, <2>4, <3>1, <3>5 DEF Coming
      <4>3. \E j \in 1..Len(program'[lock']) : program'[lock'][j] = Audio!Set(g, TRUE)
        BY <3>2, <3>5, <4>1, <4>2
      <4> QED
        BY <4>2, <4>3 DEF Coming
    <3> QED
      BY <3>3, <3>4, <3>5
  <2>5. {"assistant_speaking", "announcement_active", "critical_announcement"} \subseteq Audio!Flags
    BY DEF Audio!Flags
  <2> QED
    BY <2>1, <2>2, <2>3, <2>4, <2>5 DEF Spoken
<1> QED
  BY <1>5, <1>8, <1>9, <1>10, <1>11

LEMMA ClearKeeps ==
  ASSUME Audio!BoundsAssumption, AudioInv, NEW a \in Audio!Actors, Audio!Clear(a)
  PROVE  AudioInv'
<1> USE DEF AudioInv
<1> DEFINE s == program[a]
<1>1. /\ s # <<>> /\ Head(s).do = "clear" /\ s \in Seq(Audio!Operations) /\ Tail(s) \in Seq(Audio!Operations)
  BY Next1 DEF Audio!Clear, Audio!Doing
<1>2. /\ program' = [program EXCEPT ![a] = Tail(s)]
      /\ UNCHANGED <<lock, slot, kind, running, told, started, requests, lapses>>
      /\ focus' = {} /\ expiry' = [f \in Audio!Flags |-> Audio!None] /\ Audio!Disturb(a)
  BY DEF Audio!Clear, Audio!Rest, Audio!playback
<1>3. disturbed' = disturbed \/ (lock # a /\ disturbed' = disturbed \cup ({slot} \cap running))
  BY <1>2 DEF Audio!Disturb
<1>4. slot # Audio!NoProcess => lock # a
  BY <1>1, InSlot, Announced, AudioConstants DEF LockHeld
<1>5. Audio!TypeOK'
  <2>1. disturbed' \subseteq 1..started'
    BY <1>2, <1>3 DEF Audio!TypeOK
  <2>2. expiry' \in [Audio!Flags -> {Audio!None, "ahead", "past"}] /\ \A f \in Audio!Flags : expiry'[f] = Audio!None
    BY <1>2
  <2>3. program' \in [Audio!Actors -> Seq(Audio!Operations)]
    BY <1>1, <1>2 DEF Audio!TypeOK
  <2> QED
    BY <1>2, <2>1, <2>2, <2>3 DEF Audio!TypeOK
<1>6. LockHeld'
  <2>1. Ordered(Tail(s)) /\ (a = lock => Holding(Tail(s))) /\ (a # lock => NotYet(Tail(s)))
    BY <1>1, TailKeeps DEF LockHeld, Enders
  <2> QED
    BY <1>1, <1>2, <1>4, <2>1, LockKept
<1>7. Watched'
  BY <1>1, <1>2 DEF Watched, Audio!TypeOK
<1>8. Audio!OneSpeaker'
  BY <1>2 DEF Audio!OneSpeaker
<1>9. Spoken'
  BY <1>2, <1>3, <1>4 DEF Spoken, Audio!Disturb, Audio!TypeOK, Audio!NoProcess
<1> QED
  BY <1>5, <1>6, <1>7, <1>8, <1>9

LEMMA FetchKeeps ==
  ASSUME Audio!BoundsAssumption, AudioInv, NEW a \in Audio!Actors, Audio!Fetch(a)
  PROVE  AudioInv'
<1> USE DEF AudioInv
<1> DEFINE s == program[a]
<1>1. /\ s # <<>> /\ Head(s).do = "fetch" /\ s \in Seq(Audio!Operations) /\ Tail(s) \in Seq(Audio!Operations)
      /\ Head(s) = s[1] /\ 1 \in 1..Len(s)
  BY Next1 DEF Audio!Fetch, Audio!Doing
<1>2. UNCHANGED <<focus, expiry, lock, slot, kind, running, told, disturbed, started, requests, lapses>>
  BY DEF Audio!Fetch, Audio!state, Audio!playback, Audio!processes
<1>3. a # lock
  BY <1>1 DEF LockHeld, Holding, Enders
<1>4. PICK x \in {Tail(s), <<>>} : program' = [program EXCEPT ![a] = x]
  BY DEF Audio!Fetch, Audio!Rest
<1>5. x \in Seq(Audio!Operations) /\ Ordered(x) /\ NotYet(x)
  <2>1. Ordered(<<>>) /\ NotYet(<<>>)
    BY DEF Ordered, NotYet
  <2>2. Ordered(s) /\ NotYet(s)
    BY <1>3 DEF LockHeld
  <2>3. Tail(s) \in Seq(Audio!Operations) /\ Ordered(Tail(s)) /\ NotYet(Tail(s))
    BY <1>1, <2>2, TailKeeps
  <2>4. <<>> \in Seq(Audio!Operations)
    OBVIOUS
  <2> QED
    BY <1>4, <2>1, <2>3, <2>4
<1>6. Audio!TypeOK'
  BY <1>2, <1>4, <1>5 DEF Audio!TypeOK
<1>7. LockHeld'
  BY <1>2, <1>3, <1>4, <1>5, LockKept
<1>8. Watched'
  BY <1>1, <1>2, <1>4 DEF Watched, Audio!TypeOK
<1>9. Audio!OneSpeaker' /\ Spoken'
  <2>1. lock # Audio!NoActor => program'[lock] = program[lock]
    BY <1>3, <1>4 DEF Audio!TypeOK
  <2> QED
    BY <1>2, <2>1 DEF Audio!OneSpeaker, Spoken, Coming, Audio!InFocus, Audio!Expired
<1> QED
  BY <1>6, <1>7, <1>8, <1>9

\* The lock is taken for the rest of a program, after the flags of what played.
LEMMA LockTaken ==
  ASSUME Audio!BoundsAssumption, Audio!TypeOK, LockHeld, lock = Audio!NoActor, NEW a \in Audio!Actors,
         NEW x \in Seq(Audio!Operations), Ordered(x), Holding(x),
         lock' = a, slot' = Audio!NoProcess, program' = [program EXCEPT ![a] = x]
  PROVE  LockHeld'
<1>1. program' \in [Audio!Actors -> Seq(Audio!Operations)] /\ \A b \in Audio!Actors : program'[b] = IF b = a THEN x ELSE program[b]
  BY DEF Audio!TypeOK
<1> QED
  BY <1>1, AudioConstants DEF LockHeld

LEMMA StopKeeps ==
  ASSUME Audio!BoundsAssumption, AudioInv, NEW a \in Audio!Actors, Audio!Stop(a)
  PROVE  AudioInv'
<1> USE DEF AudioInv
<1> DEFINE s == program[a]  x == Audio!Off(kind) \o Tail(s)
<1>1. /\ s # <<>> /\ s[1].do = "stop" /\ s \in Seq(Audio!Operations) /\ Tail(s) \in Seq(Audio!Operations)
  BY Next1 DEF Audio!Stop, Audio!Doing
<1>2. /\ program' = [program EXCEPT ![a] = x] /\ lock = Audio!NoActor /\ lock' = a
      /\ slot' = Audio!NoProcess /\ kind' = Audio!None /\ told' = told \cup ({slot} \cap running)
      /\ UNCHANGED <<focus, expiry, running, started, disturbed, requests, lapses>>
  BY DEF Audio!Stop, Audio!state
<1>3. Ordered(s) /\ kind \in Audio!Kinds \cup {Audio!None}
  BY DEF LockHeld, Audio!TypeOK
<1>4. Holding(Tail(s))
  <2>1. \A o \in Audio!Operations : o.do \in {"set", "fetch", "stop", "unlock", "clear", "reap", "popen"}
    BY DEF Audio!Operations
  <2>2. \A i \in 1..Len(Tail(s)) : Tail(s)[i] = s[i + 1] /\ i + 1 \in 1..Len(s) /\ s[i + 1] \in Audio!Operations
    BY <1>1, HeadAndTail
  <2>3. \A i \in 1..Len(Tail(s)) : Tail(s)[i].do \in {"set", "clear"} \cup Enders
    BY <1>1, <1>3, <2>1, <2>2 DEF Ordered, Enders
  <2>4. PICK j \in 1..Len(s) : 1 < j /\ s[j].do \in Enders
    BY <1>1, <1>3 DEF Ordered
  <2>5. j - 1 \in 1..Len(Tail(s)) /\ Tail(s)[j - 1] = s[j]
    BY <1>1, <2>4
  <2> QED
    BY <2>3, <2>4, <2>5 DEF Holding
<1>5. x \in Seq(Audio!Operations) /\ Ordered(x) /\ Holding(x)
  <2>1. Ordered(Tail(s))
    BY <1>1, <1>3, TailKeeps
  <2>2. Audio!Off(kind) \in Seq(Audio!Operations) /\ Sets(Audio!Off(kind))
    BY <1>3, OffIsSets
  <2> QED
    BY <1>1, <1>4, <2>1, <2>2, SetsBefore
<1> HIDE DEF x
<1>6. Audio!TypeOK'
  BY <1>2, <1>5 DEF Audio!TypeOK, Audio!NoProcess
<1>7. LockHeld'
  BY <1>2, <1>5, LockTaken
<1>8. Watched'
  BY <1>1, <1>2 DEF Watched, Audio!TypeOK
<1>9. Audio!OneSpeaker' /\ Spoken'
  BY <1>2 DEF Audio!OneSpeaker, Spoken, Audio!TypeOK, Audio!NoProcess
<1> QED
  BY <1>6, <1>7, <1>8, <1>9

LEMMA PopenKeeps ==
  ASSUME Audio!BoundsAssumption, AudioInv, NEW a \in Audio!Actors, Audio!Popen(a)
  PROVE  AudioInv'
<1> USE DEF AudioInv
<1> DEFINE s == program[a]  k == Head(s).flag  x == Audio!On(k) \o <<Audio!Op("unlock", Audio!None)>>
<1>1. /\ s # <<>> /\ s[1].do = "popen" /\ s[1] = Head(s) /\ s \in Seq(Audio!Operations) /\ s[1] \in Audio!Operations
      /\ 1 \in 1..Len(s)
  BY Next1 DEF Audio!Popen, Audio!Doing
<1>2. k \in Audio!Kinds
  BY <1>1 DEF Audio!Operations
<1>3. a = lock /\ lock # Audio!NoActor
  BY <1>1, AudioConstants DEF LockHeld, NotYet, Enders
<1>4. slot = Audio!NoProcess
  BY <1>1, <1>3, InSlot, Announced, AudioConstants DEF LockHeld
<1>5. running \ told = {} /\ running \subseteq 1..started /\ started \in 0..MaxRequests
  BY <1>4 DEF Audio!OneSpeaker, Audio!TypeOK, Audio!NoProcess
<1>6. UNCHANGED <<focus, expiry, told, disturbed, requests, lapses>>
  BY DEF Audio!Popen, Audio!state
<1>7. CASE started < MaxRequests /\ started' = started + 1 /\ running' = running \cup {started'}
           /\ slot' = started' /\ kind' = k /\ program' = [program EXCEPT ![a] = x] /\ UNCHANGED lock
  <2>1. x \in Announcing(k)
    BY <1>2, Started
  <2>2. x \in Seq(Audio!Operations) /\ Ordered(x) /\ Holding(x)
    BY <1>2, <2>1, Announced
  <2>3. /\ k = "assistant" => x[1] = Audio!Set("assistant_speaking", TRUE) /\ 1 \in 1..Len(x)
        /\ k # "assistant" => x[1] = Audio!Set("announcement_active", TRUE) /\ 1 \in 1..Len(x)
        /\ k = "critical" => x[2] = Audio!Set("critical_announcement", TRUE) /\ 2 \in 1..Len(x)
    BY <1>2, Flagged
  <2> HIDE DEF x
  <2>4. started' \in Audio!Processes /\ started' \in 0..MaxRequests /\ started' \notin 1..started
        /\ started' # Audio!NoProcess
    BY <1>5, <1>7 DEF Audio!Processes, Audio!NoProcess, Audio!BoundsAssumption
  <2>5. Audio!TypeOK'
    BY <1>2, <1>5, <1>6, <1>7, <2>2, <2>4 DEF Audio!TypeOK, Audio!Kinds, Audio!None
  <2>6. LockHeld'
    <3>1. program' \in [Audio!Actors -> Seq(Audio!Operations)] /\ \A b \in Audio!Actors : program'[b] = IF b = a THEN x ELSE program[b]
      BY <1>7, <2>2 DEF Audio!TypeOK
    <3> QED
      BY <1>3, <1>7, <2>1, <2>2, <3>1 DEF LockHeld
  <2>7. Watched'
    BY <1>1, <1>5, <1>7, <2>4 DEF Watched, Audio!TypeOK
  <2>8. Audio!OneSpeaker'
    BY <1>5, <1>6, <1>7 DEF Audio!OneSpeaker
  <2>9. program'[lock'] = x /\ lock' # Audio!NoActor
    BY <1>3, <1>7 DEF Audio!TypeOK
  <2>10. Spoken'
    BY <1>7, <2>3, <2>9 DEF Spoken, Coming
  <2> QED
    BY <2>5, <2>6, <2>7, <2>8, <2>10
<1>8. CASE lock' = Audio!NoActor /\ program' = [program EXCEPT ![a] = <<>>] /\ UNCHANGED <<slot, kind, running, started>>
  <2>1. Ordered(<<>>) /\ NotYet(<<>>)
    BY DEF Ordered, NotYet
  <2>2. program' \in [Audio!Actors -> Seq(Audio!Operations)] /\ \A b \in Audio!Actors : program'[b] = IF b = a THEN <<>> ELSE program[b]
    BY <1>8 DEF Audio!TypeOK
  <2>3. Audio!TypeOK'
    BY <1>6, <1>8, <2>2 DEF Audio!TypeOK
  <2>4. LockHeld'
    BY <1>3, <1>8, <2>1, <2>2, AudioConstants DEF LockHeld
  <2>5. Watched'
    BY <1>8, <2>2 DEF Watched, Audio!TypeOK, Audio!Actors
  <2>6. Audio!OneSpeaker' /\ Spoken'
    BY <1>4, <1>6, <1>8 DEF Audio!OneSpeaker, Spoken, Audio!TypeOK, Audio!NoProcess
  <2> QED
    BY <2>3, <2>4, <2>5, <2>6
<1> QED
  BY <1>7, <1>8 DEF Audio!Popen

LEMMA UnlockKeeps ==
  ASSUME Audio!BoundsAssumption, AudioInv, NEW a \in Audio!Actors, Audio!Unlock(a)
  PROVE  AudioInv'
<1> USE DEF AudioInv
<1> DEFINE s == program[a]
<1>1. /\ s # <<>> /\ s[1].do = "unlock" /\ s[1] = Head(s) /\ s \in Seq(Audio!Operations)
      /\ 1 \in 1..Len(s) /\ Tail(s) \in Seq(Audio!Operations)
  BY Next1 DEF Audio!Unlock, Audio!Doing
<1>2. /\ program' = [program EXCEPT ![a] = Tail(s)] /\ lock' = Audio!NoActor
      /\ UNCHANGED <<focus, expiry, slot, kind, running, told, started, disturbed, requests, lapses>>
  BY DEF Audio!Unlock, Audio!Rest, Audio!state, Audio!processes
<1>3. a = lock /\ lock # Audio!NoActor
  BY <1>1, AudioConstants DEF LockHeld, NotYet, Enders
<1>4. Ordered(Tail(s)) /\ NotYet(Tail(s))
  <2>1. Ordered(s)
    BY DEF LockHeld
  <2>2. \A i \in 1..Len(Tail(s)) : Tail(s)[i].do = "clear"
    BY <1>1, <2>1, HeadAndTail DEF Ordered
  <2> QED
    BY <1>1, <2>1, <2>2, TailKeeps DEF NotYet, Enders
<1>5. program' \in [Audio!Actors -> Seq(Audio!Operations)] /\ \A b \in Audio!Actors : program'[b] = IF b = a THEN Tail(s) ELSE program[b]
  BY <1>1, <1>2 DEF Audio!TypeOK
<1>6. Audio!TypeOK'
  BY <1>2, <1>5 DEF Audio!TypeOK
<1>7. LockHeld'
  BY <1>2, <1>3, <1>4, <1>5, AudioConstants DEF LockHeld
<1>8. Watched'
  BY <1>1, <1>2, <1>5 DEF Watched, Audio!TypeOK, Audio!Actors
<1>9. Audio!OneSpeaker'
  BY <1>2 DEF Audio!OneSpeaker
<1>10. Spoken'
  <2>1. slot # Audio!NoProcess => s = Release
    BY <1>1, <1>3, InSlot, Announced DEF LockHeld
  <2>2. slot # Audio!NoProcess => \A f \in Audio!Flags : ~Coming(f)
    BY <1>3, <2>1 DEF Coming, Release, Audio!Op, Audio!Set
  <2>3. {"assistant_speaking", "announcement_active", "critical_announcement"} \subseteq Audio!Flags
    BY DEF Audio!Flags
  <2> QED
    BY <1>2, <2>2, <2>3 DEF Spoken, Audio!InFocus, Audio!Expired, Audio!TypeOK, Audio!NoProcess
<1> QED
  BY <1>6, <1>7, <1>8, <1>9, <1>10

LEMMA ProcessEndsKeeps ==
  ASSUME Audio!BoundsAssumption, AudioInv, NEW p \in Audio!Processes, Audio!ProcessEnds(p)
  PROVE  AudioInv'
<1> USE DEF AudioInv
<1> DEFINE x == <<Audio!Op("reap", Audio!None)>>
<1>1. /\ p \in running /\ running' = running \ {p} /\ program' = [program EXCEPT ![p] = x]
      /\ UNCHANGED <<focus, expiry, lock, slot, kind, told, started, disturbed, requests, lapses>>
  BY DEF Audio!ProcessEnds, Audio!state, Audio!playback
<1>2. x \in Seq(Audio!Operations) /\ Ordered(x) /\ NotYet(x)
  <2> DEFINE o == Audio!Op("reap", Audio!None)
  <2>1. o \in Audio!Operations /\ o.do = "reap"
    BY AnOperation
  <2> HIDE DEF o
  <2>2. <<o>> \in Seq(Audio!Operations) /\ Ordered(<<o>>) /\ NotYet(<<o>>)
    BY <2>1 DEF Ordered, NotYet, Enders
  <2> QED
    BY <2>2 DEF o
<1>3. p \in Audio!Actors /\ p # lock
  BY <1>1, AudioConstants, HolderGoesOn DEF Watched
<1> HIDE DEF x
<1>4. Audio!TypeOK'
  BY <1>1, <1>2, <1>3 DEF Audio!TypeOK
<1>5. LockHeld'
  BY <1>1, <1>2, <1>3, LockKept
<1>6. Watched'
  BY <1>1, <1>3 DEF Watched, Audio!TypeOK, Audio!Processes
<1>7. Audio!OneSpeaker'
  BY <1>1 DEF Audio!OneSpeaker
<1>8. Spoken'
  BY <1>1, <1>3 DEF Spoken, Coming, Audio!InFocus, Audio!Expired, Audio!TypeOK
<1> QED
  BY <1>4, <1>5, <1>6, <1>7, <1>8

LEMMA ReapKeeps ==
  ASSUME Audio!BoundsAssumption, AudioInv, NEW p \in Audio!Processes, Audio!Reap(p)
  PROVE  AudioInv'
<1> USE DEF AudioInv
<1> DEFINE s == program[p]
<1>1. p \in Audio!Actors /\ p # Audio!NoActor
  BY AudioConstants
<1>2. /\ s # <<>> /\ s[1].do = "reap" /\ s \in Seq(Audio!Operations) /\ 1 \in 1..Len(s)
      /\ Tail(s) \in Seq(Audio!Operations)
  BY <1>1, Next1 DEF Audio!Reap, Audio!Doing
<1>3. lock = Audio!NoActor
      /\ UNCHANGED <<focus, expiry, running, told, started, disturbed, requests, lapses>>
  BY DEF Audio!Reap, Audio!state, Audio!processes
<1>4. p \notin running
  BY <1>2 DEF Watched
<1>5. CASE slot # p
  <2>1. program' = [program EXCEPT ![p] = Tail(s)] /\ UNCHANGED <<lock, slot, kind>>
    BY <1>5 DEF Audio!Reap, Audio!Rest, Audio!playback
  <2>2. Ordered(Tail(s)) /\ NotYet(Tail(s))
    BY <1>1, <1>2, <1>3, TailKeeps DEF LockHeld
  <2>3. Audio!TypeOK'
    BY <1>1, <1>2, <1>3, <2>1 DEF Audio!TypeOK
  <2>4. LockHeld'
    BY <1>1, <1>2, <1>3, <2>1, <2>2, LockKept
  <2>5. Watched'
    BY <1>1, <1>2, <1>3, <2>1 DEF Watched, Audio!TypeOK
  <2>6. Audio!OneSpeaker' /\ Spoken'
    BY <1>3, <2>1 DEF Audio!OneSpeaker, Spoken, Coming, Audio!InFocus, Audio!Expired
  <2> QED
    BY <2>3, <2>4, <2>5, <2>6
<1>6. CASE slot = p
  <2> DEFINE u == Audio!Op("unlock", Audio!None)  x == Audio!Off(kind) \o <<u>>
  <2>1. program' = [program EXCEPT ![p] = x] /\ lock' = p /\ slot' = Audio!NoProcess /\ kind' = Audio!None
    BY <1>6 DEF Audio!Reap
  <2>2. u \in Audio!Operations /\ u.do = "unlock"
    BY AnOperation
  <2>3. kind \in Audio!Kinds \cup {Audio!None}
    BY DEF Audio!TypeOK
  <2> HIDE DEF u
  <2>4. <<u>> \in Seq(Audio!Operations) /\ Ordered(<<u>>) /\ Holding(<<u>>)
    BY <2>2 DEF Ordered, Holding, Enders
  <2>5. x \in Seq(Audio!Operations) /\ Ordered(x) /\ Holding(x)
    BY <2>3, <2>4, OffIsSets, SetsBefore
  <2> HIDE DEF x
  <2>6. Audio!TypeOK'
    BY <1>1, <1>3, <2>1, <2>5 DEF Audio!TypeOK, Audio!NoProcess
  <2>7. LockHeld'
    BY <1>1, <1>3, <2>1, <2>5, LockTaken
  <2>8. Watched'
    BY <1>1, <1>2, <1>3, <2>1 DEF Watched, Audio!TypeOK
  <2>9. Audio!OneSpeaker' /\ Spoken'
    BY <1>3, <1>4, <1>6, <2>1 DEF Audio!OneSpeaker, Spoken, Audio!TypeOK, Audio!NoProcess
  <2> QED
    BY <2>6, <2>7, <2>8, <2>9
<1> QED
  BY <1>5, <1>6

LEMMA LapseKeeps ==
  ASSUME Audio!BoundsAssumption, AudioInv, NEW f \in Audio!Flags, Audio!Lapse(f)
  PROVE  AudioInv'
<1> USE DEF AudioInv
<1>1. /\ expiry[f] = "ahead" /\ expiry' = [expiry EXCEPT ![f] = "past"]
      /\ disturbed' = disturbed \cup ({slot} \cap running)
      /\ UNCHANGED <<focus, lock, slot, kind, program, running, told, started, requests>>
  BY DEF Audio!Lapse, Audio!playback
<1>2. lapses' \in 0..MaxLapses
  BY DEF Audio!Lapse, Audio!TypeOK, Audio!BoundsAssumption
<1>3. Audio!TypeOK'
  <2>1. expiry' \in [Audio!Flags -> {Audio!None, "ahead", "past"}] /\ \A g \in Audio!Flags : expiry'[g] # Audio!None => g \in focus
    BY <1>1 DEF Audio!TypeOK, Audio!None
  <2>2. disturbed' \subseteq 1..started'
    BY <1>1 DEF Audio!TypeOK
  <2> QED
    BY <1>1, <1>2, <2>1, <2>2 DEF Audio!TypeOK
<1>4. LockHeld' /\ Watched' /\ Audio!OneSpeaker'
  BY <1>1 DEF LockHeld, Watched, Audio!OneSpeaker
<1>5. Spoken'
  BY <1>1 DEF Spoken
<1> QED
  BY <1>3, <1>4, <1>5

LEMMA AudioInit == ASSUME Audio!BoundsAssumption, Audio!Init PROVE AudioInv
<1>1. Audio!TypeOK
  <2>1. expiry \in [Audio!Flags -> {Audio!None, "ahead", "past"}] /\ \A f \in Audio!Flags : expiry[f] = Audio!None
    BY DEF Audio!Init
  <2>2. program \in [Audio!Actors -> Seq(Audio!Operations)]
    BY DEF Audio!Init
  <2>3. started \in 0..MaxRequests /\ requests \in 0..MaxRequests /\ lapses \in 0..MaxLapses
    BY DEF Audio!Init, Audio!BoundsAssumption
  <2> QED
    BY <2>1, <2>2, <2>3 DEF Audio!Init, Audio!TypeOK
<1>2. \A a \in Audio!Actors : program[a] = <<>>
  BY DEF Audio!Init
<1>3. Ordered(<<>>) /\ NotYet(<<>>)
  BY DEF Ordered, NotYet
<1>4. LockHeld
  BY <1>2, <1>3, AudioConstants DEF Audio!Init, LockHeld
<1>5. Watched
  BY <1>2, AudioConstants DEF Watched
<1>6. Audio!OneSpeaker /\ Spoken
  BY DEF Audio!Init, Audio!OneSpeaker, Spoken
<1> QED
  BY <1>1, <1>4, <1>5, <1>6 DEF AudioInv

LEMMA AudioKept == ASSUME Audio!BoundsAssumption, AudioInv, Audio!Next PROVE AudioInv'
  BY RequestKeeps, SetFlagKeeps, ClearKeeps, FetchKeeps, StopKeeps, PopenKeeps, UnlockKeeps,
     ProcessEndsKeeps, ReapKeeps, LapseKeeps DEF Audio!Next, Audio!Step

LEMMA AudioRests == ASSUME AudioInv, UNCHANGED Audio!vars PROVE AudioInv'
  BY DEF AudioInv, Audio!TypeOK, LockHeld, Watched, Audio!OneSpeaker, Spoken, Coming, Audio!InFocus, Audio!Expired, Audio!vars,
     Audio!state, Audio!playback, Audio!processes

LEMMA AudioSpeaks == ASSUME AudioInv PROVE Audio!OneSpeaker /\ Audio!SpeechKeepsFocus
<1>1. lock = Audio!NoActor => \A f \in Audio!Flags : ~Coming(f)
  BY DEF Coming
<1>2. {"assistant_speaking", "announcement_active", "critical_announcement"} \subseteq Audio!Flags
  BY DEF Audio!Flags
<1>3. (running \ told) \ disturbed # {} => slot \in (running \ told) \ disturbed
  BY DEF AudioInv, Audio!OneSpeaker
<1> QED
  BY <1>1, <1>2, <1>3 DEF AudioInv, Spoken, Audio!SpeechKeepsFocus

-----------------------------------------------------------------------------
(* Playback turns off what it turned on.                                   *)

LEMMA AnnouncedFlags ==
  ASSUME NEW k \in Audio!Kinds, NEW s \in Announcing(k), TurnsOn(Head(s))
  PROVE  BelongsTo(Head(s).flag, k)
<1> DEFINE u == Audio!Op("unlock", Audio!None)
           a == Audio!Set("assistant_speaking", TRUE)
           b == Audio!Set("announcement_active", TRUE)
           c == Audio!Set("critical_announcement", k = "critical")
<1>1. Announcing(k) = IF k = "assistant" THEN {<<a, u>>, <<u>>} ELSE {<<b, c, u>>, <<c, u>>, <<u>>}
  BY DEF Announcing, Release
<1>2. /\ a.flag = "assistant_speaking" /\ b.flag = "announcement_active"
      /\ c.flag = "critical_announcement" /\ c.on = (k = "critical") /\ u.do = "unlock"
  BY DEF Audio!Set, Audio!Op
<1> HIDE DEF u, a, b, c
<1>h. Head(<<a, u>>) = a /\ Head(<<b, c, u>>) = b /\ Head(<<c, u>>) = c /\ Head(<<u>>) = u
  OBVIOUS
<1>3. \/ Head(s) = a /\ k = "assistant"
      \/ Head(s) = b /\ k # "assistant"
      \/ Head(s) \in {c, u}
  <2>1. CASE k = "assistant"
    <3>1. s = <<a, u>> \/ s = <<u>>
      BY <1>1, <2>1
    <3> QED
      BY <1>h, <2>1, <3>1
  <2>2. CASE k # "assistant"
    <3>1. s = <<b, c, u>> \/ s = <<c, u>> \/ s = <<u>>
      BY <1>1, <2>2
    <3> QED
      BY <1>h, <2>2, <3>1
  <2> QED
    BY <2>1, <2>2
<1>4. CASE Head(s) = a /\ k = "assistant"
  BY <1>2, <1>4 DEF BelongsTo
<1>5. CASE Head(s) = b /\ k # "assistant"
  BY <1>2, <1>5 DEF BelongsTo, Audio!Kinds
<1>6. CASE Head(s) = c
  BY <1>2, <1>6 DEF BelongsTo, TurnsOn
<1>7. CASE Head(s) = u
  BY <1>2, <1>7 DEF TurnsOn
<1> QED
  BY <1>3, <1>4, <1>5, <1>6, <1>7

LEMMA OffCovers ==
  ASSUME NEW k \in Audio!Kinds \cup {Audio!None}, NEW f \in Audio!Flags \ {"listening"}, BelongsTo(f, k),
         NEW t \in Seq(Audio!Operations)
  PROVE  \E i \in 1..Len(Audio!Off(k) \o t) : (Audio!Off(k) \o t)[i] = Audio!Set(f, FALSE)
<1> DEFINE a == Audio!Set("assistant_speaking", FALSE)
           b == Audio!Set("announcement_active", FALSE)
           c == Audio!Set("critical_announcement", FALSE)
<1>1. Audio!Off(k) = IF k = Audio!None THEN <<>> ELSE IF k = "assistant" THEN <<a>> ELSE <<b, c>>
  BY DEF Audio!Off, Audio!Kinds, Audio!None
<1>2. k # Audio!None /\ Audio!Set(f, FALSE) = IF k = "assistant" THEN a ELSE IF f = "announcement_active" THEN b ELSE c
  BY DEF BelongsTo, Audio!Flags, Audio!None
<1>3. Audio!Off(k) \in Seq(Audio!Operations)
  BY OffIsSets
<1> HIDE DEF a, b, c
<1>4. PICK i \in 1..Len(Audio!Off(k)) : Audio!Off(k)[i] = Audio!Set(f, FALSE)
  <2>1. CASE k = "assistant"
    <3>1. Audio!Off(k) = <<a>> /\ Audio!Set(f, FALSE) = a
      BY <1>1, <1>2, <2>1
    <3>2. 1 \in 1..Len(<<a>>) /\ <<a>>[1] = a
      OBVIOUS
    <3> QED
      BY <3>1, <3>2
  <2>2. CASE k # "assistant"
    <3>1. Audio!Off(k) = <<b, c>> /\ Audio!Set(f, FALSE) \in {b, c}
      BY <1>1, <1>2, <2>2
    <3>2. 1 \in 1..Len(<<b, c>>) /\ <<b, c>>[1] = b /\ 2 \in 1..Len(<<b, c>>) /\ <<b, c>>[2] = c
      OBVIOUS
    <3> QED
      BY <3>1, <3>2
  <2> QED
    BY <2>1, <2>2
<1>5. i \in 1..Len(Audio!Off(k) \o t) /\ (Audio!Off(k) \o t)[i] = Audio!Off(k)[i]
  BY <1>3
<1> QED
  BY <1>4, <1>5

LEMMA QuietPrograms ==
  ASSUME NEW r \in Audio!Requests, r.do \notin {"assistant_start", "announcement_start"}
  PROVE  Quiet(Audio!Program(r))
<1>1. CASE r.do = "play"
  <2> DEFINE f == Audio!Op("fetch", Audio!None)  s == Audio!Op("stop", Audio!None)  p == Audio!Op("popen", r.kind)
  <2>1. Audio!Program(r) = <<f, s, p>>
    BY <1>1 DEF Audio!Program
  <2>2. ~TurnsOn(f) /\ ~TurnsOn(s) /\ ~TurnsOn(p)
    BY DEF TurnsOn, Audio!Op
  <2> HIDE DEF f, s, p
  <2> QED
    BY <2>1, <2>2 DEF Quiet
<1>2. CASE r.do = "cancel"
  <2> DEFINE s == Audio!Op("stop", Audio!None)  u == Audio!Op("unlock", Audio!None)  c == Audio!Op("clear", Audio!None)
             x == Audio!Set("assistant_speaking", FALSE)  y == Audio!Set("announcement_active", FALSE)
             z == Audio!Set("critical_announcement", FALSE)
  <2>1. Audio!Program(r) = <<s, x, y, z, u, c>>
    BY <1>2 DEF Audio!Program
  <2>2. ~TurnsOn(s) /\ ~TurnsOn(x) /\ ~TurnsOn(y) /\ ~TurnsOn(z) /\ ~TurnsOn(u) /\ ~TurnsOn(c)
    BY DEF TurnsOn, Audio!Op, Audio!Set
  <2> HIDE DEF s, u, c, x, y, z
  <2> QED
    BY <2>1, <2>2 DEF Quiet
<1>3. CASE r.do \in {"start_listening", "stop_listening"}
  <2> DEFINE x == Audio!Set("listening", r.do = "start_listening")
  <2>1. Audio!Program(r) = <<x>>
    BY <1>3 DEF Audio!Program
  <2>2. ~TurnsOn(x)
    BY DEF TurnsOn, Audio!Set
  <2> HIDE DEF x
  <2> QED
    BY <2>1, <2>2 DEF Quiet
<1>4. CASE r.do = "assistant_end"
  <2> DEFINE x == Audio!Set("assistant_speaking", r.do = "assistant_start")
  <2>1. Audio!Program(r) = <<x>>
    BY <1>4 DEF Audio!Program
  <2>2. ~TurnsOn(x)
    BY <1>4 DEF TurnsOn, Audio!Set
  <2> HIDE DEF x
  <2> QED
    BY <2>1, <2>2 DEF Quiet
<1>5. CASE r.do = "announcement_end"
  <2> DEFINE y == Audio!Set("announcement_active", FALSE)  z == Audio!Set("critical_announcement", FALSE)
  <2>1. Audio!Program(r) = <<y, z>>
    BY <1>5 DEF Audio!Program
  <2>2. ~TurnsOn(y) /\ ~TurnsOn(z)
    BY DEF TurnsOn, Audio!Set
  <2> HIDE DEF y, z
  <2> QED
    BY <2>1, <2>2 DEF Quiet
<1> QED
  BY <1>1, <1>2, <1>3, <1>4, <1>5 DEF Audio!Requests, Audio!PlayRequests

LEMMA QuietOff ==
  ASSUME NEW k \in Audio!Kinds \cup {Audio!None}, NEW t \in Seq(Audio!Operations), Quiet(t)
  PROVE  Quiet(Audio!Off(k) \o t)
<1>1. Audio!Off(k) \in Seq(Audio!Operations) /\ \A i \in 1..Len(Audio!Off(k)) : ~TurnsOn(Audio!Off(k)[i])
  BY OffIsSets DEF TurnsOn
<1>2. \A i \in 1..Len(Audio!Off(k) \o t) :
        \/ i \in 1..Len(Audio!Off(k)) /\ (Audio!Off(k) \o t)[i] = Audio!Off(k)[i]
        \/ i - Len(Audio!Off(k)) \in 1..Len(t) /\ (Audio!Off(k) \o t)[i] = t[i - Len(Audio!Off(k))]
  BY <1>1
<1> QED
  BY <1>1, <1>2 DEF Quiet

LEMMA QuietTail ==
  ASSUME NEW s \in Seq(Audio!Operations), s # <<>>, Quiet(s) PROVE Quiet(Tail(s))
  BY HeadAndTail DEF Quiet

\* An operation of one actor that leaves the slot alone.
LEMMA QuietKept ==
  ASSUME Audio!TypeOK, NEW a \in Audio!Actors, NEW x \in Seq(Audio!Operations), program' = [program EXCEPT ![a] = x],
         \A b \in Audio!Actors : Quiet(program[b]) \/ (b = lock /\ slot # Audio!NoProcess),
         Quiet(x) \/ (a = lock' /\ slot' # Audio!NoProcess),
         slot' = slot, lock' = lock \/ lock = a
  PROVE  \A b \in Audio!Actors : Quiet(program'[b]) \/ (b = lock' /\ slot' # Audio!NoProcess)
<1>1. \A b \in Audio!Actors : program'[b] = IF b = a THEN x ELSE program[b]
  BY DEF Audio!TypeOK
<1> QED
  BY <1>1

LEMMA SetFlagSilent ==
  ASSUME Audio!BoundsAssumption, AudioInv, Silent, NEW a \in Audio!Actors, Audio!SetFlag(a)
  PROVE  Silent'
<1> USE DEF AudioInv
<1> DEFINE s == program[a]  h == Head(program[a])  f == h.flag
<1>1. /\ s # <<>> /\ h.do = "set" /\ s \in Seq(Audio!Operations) /\ h \in Audio!Operations /\ h = s[1]
      /\ 1 \in 1..Len(s) /\ Tail(s) \in Seq(Audio!Operations)
  BY Next1 DEF Audio!SetFlag, Audio!Doing
<1>2. f \in Audio!Flags /\ h.on \in BOOLEAN
  BY <1>1 DEF Audio!Operations
<1>3. /\ program' = [program EXCEPT ![a] = Tail(s)]
      /\ UNCHANGED <<lock, slot, kind>>
      /\ focus' = IF h.on THEN (focus \ Audio!Expired) \cup {f} ELSE focus \ (Audio!Expired \cup {f})
      /\ expiry' = [g \in Audio!Flags |-> IF g = f THEN IF h.on THEN "ahead" ELSE Audio!None
                                   ELSE IF g \in Audio!Expired THEN Audio!None ELSE expiry[g]]
  BY DEF Audio!SetFlag, Audio!Rest, Audio!playback
<1>4. /\ \A g \in Audio!Flags \ {"listening"} : Audio!InFocus(g) => BelongsTo(g, kind) \/ Going(g)
      /\ \A b \in Audio!Actors : Quiet(program[b]) \/ (b = lock /\ slot # Audio!NoProcess)
  BY DEF Silent
<1>5. Quiet(s) => Quiet(Tail(s))
  BY <1>1, QuietTail
<1>6. \A b \in Audio!Actors : Quiet(program'[b]) \/ (b = lock' /\ slot' # Audio!NoProcess)
  BY <1>1, <1>3, <1>4, <1>5, QuietKept
<1>7. ASSUME NEW g \in Audio!Flags \ {"listening"}, Audio!InFocus(g)' PROVE BelongsTo(g, kind) \/ Going(g)'
  <2>1. CASE h.on /\ g = f
    <3>1. TurnsOn(h)
      BY <1>1, <2>1 DEF TurnsOn
    <3>2. ~Quiet(s)
      BY <1>1, <3>1 DEF Quiet
    <3>3. a = lock /\ slot # Audio!NoProcess
      BY <1>4, <3>2
    <3>4. kind \in Audio!Kinds /\ s \in Announcing(kind)
      BY <3>3, InSlot, AudioConstants DEF LockHeld
    <3> QED
      BY <2>1, <3>1, <3>4, AnnouncedFlags
  <2>2. CASE ~(h.on /\ g = f)
    <3>1. g # f /\ Audio!InFocus(g)
      BY <1>2, <1>3, <1>7, <2>2 DEF Audio!InFocus, Audio!Expired, Audio!None
    <3>2. ASSUME Going(g) PROVE Going(g)'
      <4>1. lock \in Audio!Actors /\ program'[lock] = IF lock = a THEN Tail(s) ELSE program[lock]
        BY <1>3, <3>2, HolderGoesOn DEF Going, Audio!TypeOK
      <4>2. PICK i \in 1..Len(program[lock]) : program[lock][i] = Audio!Set(g, FALSE)
        BY <3>2 DEF Going
      <4>3. CASE lock # a
        BY <1>3, <3>2, <4>1, <4>2, <4>3 DEF Going
      <4>4. CASE lock = a
        <5>1. i # 1
          BY <1>1, <3>1, <4>2, <4>4 DEF Audio!Set
        <5>2. i - 1 \in 1..Len(Tail(s)) /\ Tail(s)[i - 1] = s[i]
          BY <1>1, <4>2, <4>4, <5>1
        <5>3. program'[lock'] = Tail(s) /\ lock' # Audio!NoActor
          BY <1>3, <3>2, <4>1, <4>4 DEF Going
        <5>4. \E j \in 1..Len(program'[lock']) : program'[lock'][j] = Audio!Set(g, FALSE)
          BY <4>2, <4>4, <5>2, <5>3
        <5> QED
          BY <5>3, <5>4 DEF Going
      <4> QED
        BY <4>3, <4>4
    <3> QED
      BY <1>4, <3>1, <3>2
  <2> QED
    BY <2>1, <2>2
<1>8. \A g \in Audio!Flags \ {"listening"} : Audio!InFocus(g)' => BelongsTo(g, kind') \/ Going(g)'
  BY <1>3, <1>7
<1> QED
  BY <1>6, <1>8 DEF Silent


LEMMA RequestSilent ==
  ASSUME Audio!BoundsAssumption, OwnFocus, AudioInv, Silent, NEW t \in Threads, NEW r \in Offers, Audio!Request(t, r)
  PROVE  Silent'
<1> USE DEF AudioInv
<1>1. t \in Audio!Actors /\ t # lock
  BY AudioConstants, HolderGoesOn DEF Audio!Request
<1>2. Audio!Program(r) \in Seq(Audio!Operations) /\ Quiet(Audio!Program(r))
  BY Programs, QuietPrograms DEF Audio!BoundsAssumption, OwnFocus
<1>3. program' = [program EXCEPT ![t] = Audio!Program(r)] /\ UNCHANGED <<focus, expiry, lock, slot, kind>>
  BY DEF Audio!Request, Audio!state, Audio!playback
<1>4. \A b \in Audio!Actors : Quiet(program'[b]) \/ (b = lock' /\ slot' # Audio!NoProcess)
  BY <1>1, <1>2, <1>3, QuietKept DEF Silent
<1> QED
  BY <1>1, <1>3, <1>4 DEF Silent, Audio!InFocus, Audio!Expired, Going, Audio!TypeOK

LEMMA ClearSilent ==
  ASSUME Audio!BoundsAssumption, AudioInv, Silent, NEW a \in Audio!Actors, Audio!Clear(a)
  PROVE  Silent'
<1> USE DEF AudioInv
<1>1. program[a] # <<>> /\ program[a] \in Seq(Audio!Operations) /\ Tail(program[a]) \in Seq(Audio!Operations)
  BY Next1 DEF Audio!Clear, Audio!Doing
<1>2. focus' = {} /\ program' = [program EXCEPT ![a] = Tail(program[a])] /\ UNCHANGED <<lock, slot, kind>>
  BY DEF Audio!Clear, Audio!Rest, Audio!playback
<1>3. Quiet(program[a]) => Quiet(Tail(program[a]))
  BY <1>1, QuietTail
<1>4. \A b \in Audio!Actors : Quiet(program'[b]) \/ (b = lock' /\ slot' # Audio!NoProcess)
  BY <1>1, <1>2, <1>3, QuietKept DEF Silent
<1> QED
  BY <1>2, <1>4 DEF Silent, Audio!InFocus

LEMMA FetchSilent ==
  ASSUME Audio!BoundsAssumption, AudioInv, Silent, NEW a \in Audio!Actors, Audio!Fetch(a)
  PROVE  Silent'
<1> USE DEF AudioInv
<1> DEFINE s == program[a]
<1>1. /\ s # <<>> /\ Head(s).do = "fetch" /\ s \in Seq(Audio!Operations) /\ Tail(s) \in Seq(Audio!Operations)
      /\ Head(s) = s[1] /\ 1 \in 1..Len(s)
  BY Next1 DEF Audio!Fetch, Audio!Doing
<1>2. UNCHANGED <<focus, expiry, lock, slot, kind>>
  BY DEF Audio!Fetch, Audio!state, Audio!playback
<1>3. a # lock
  BY <1>1 DEF LockHeld, Holding, Enders
<1>4. PICK x \in {Tail(s), <<>>} : program' = [program EXCEPT ![a] = x]
  BY DEF Audio!Fetch, Audio!Rest
<1>5. x \in Seq(Audio!Operations) /\ Quiet(x)
  <2>1. <<>> \in Seq(Audio!Operations) /\ Quiet(<<>>)
    BY DEF Quiet
  <2>2. Quiet(Tail(s))
    BY <1>1, <1>3, QuietTail DEF Silent
  <2> QED
    BY <1>1, <1>4, <2>1, <2>2
<1>6. \A b \in Audio!Actors : Quiet(program'[b]) \/ (b = lock' /\ slot' # Audio!NoProcess)
  BY <1>2, <1>4, <1>5, QuietKept DEF Silent
<1>7. lock # Audio!NoActor => program'[lock] = program[lock]
  BY <1>3, <1>4 DEF Audio!TypeOK
<1> QED
  BY <1>2, <1>6, <1>7 DEF Silent, Audio!InFocus, Audio!Expired, Going

\* The slot is freed by who has just taken the lock, before anything else.
LEMMA FreedSilent ==
  ASSUME Audio!BoundsAssumption, AudioInv, Silent, lock = Audio!NoActor, NEW a \in Audio!Actors,
         NEW t \in Seq(Audio!Operations), Quiet(t),
         lock' = a, slot' = Audio!NoProcess, kind' = Audio!None, program' = [program EXCEPT ![a] = Audio!Off(kind) \o t],
         UNCHANGED <<focus, expiry>>
  PROVE  Silent'
<1> USE DEF AudioInv
<1> DEFINE x == Audio!Off(kind) \o t
<1>1. kind \in Audio!Kinds \cup {Audio!None} /\ a # Audio!NoActor
  BY AudioConstants DEF Audio!TypeOK
<1>2. Quiet(x) /\ x \in Seq(Audio!Operations)
  BY <1>1, QuietOff, OffIsSets
<1>3. \A f \in Audio!Flags \ {"listening"} : Audio!InFocus(f)' => \E i \in 1..Len(x) : x[i] = Audio!Set(f, FALSE)
  <2> SUFFICES ASSUME NEW f \in Audio!Flags \ {"listening"}, Audio!InFocus(f)'
               PROVE  \E i \in 1..Len(x) : x[i] = Audio!Set(f, FALSE)
    OBVIOUS
  <2>1. BelongsTo(f, kind)
    BY DEF Silent, Audio!InFocus, Audio!Expired, Going
  <2> QED
    BY <1>1, <2>1, OffCovers
<1> HIDE DEF x
<1>4. program'[lock'] = x /\ lock' # Audio!NoActor
  BY <1>1 DEF Audio!TypeOK, x
<1>5. \A b \in Audio!Actors : Quiet(program'[b])
  BY <1>2, AudioConstants DEF Audio!TypeOK, Silent, x
<1> QED
  BY <1>3, <1>4, <1>5 DEF Silent, Going

LEMMA StopSilent ==
  ASSUME Audio!BoundsAssumption, AudioInv, Silent, NEW a \in Audio!Actors, Audio!Stop(a)
  PROVE  Silent'
<1>1. program[a] # <<>> /\ program[a] \in Seq(Audio!Operations) /\ Tail(program[a]) \in Seq(Audio!Operations)
  BY Next1 DEF Audio!Stop, Audio!Doing, AudioInv
<1>2. lock = Audio!NoActor
  BY DEF Audio!Stop
<1>3. Quiet(Tail(program[a]))
  BY <1>1, <1>2, AudioConstants, QuietTail DEF Silent
<1> QED
  BY <1>1, <1>2, <1>3, FreedSilent DEF Audio!Stop, Audio!state

LEMMA ReapSilent ==
  ASSUME Audio!BoundsAssumption, AudioInv, Silent, NEW p \in Audio!Processes, Audio!Reap(p)
  PROVE  Silent'
<1> USE DEF AudioInv
<1>1. p \in Audio!Actors /\ p # Audio!NoActor /\ lock = Audio!NoActor /\ UNCHANGED <<focus, expiry>>
  BY AudioConstants DEF Audio!Reap, Audio!state
<1>2. program[p] # <<>> /\ program[p] \in Seq(Audio!Operations) /\ Tail(program[p]) \in Seq(Audio!Operations)
  BY <1>1, Next1 DEF Audio!Reap, Audio!Doing
<1>3. CASE slot # p
  <2>1. program' = [program EXCEPT ![p] = Tail(program[p])] /\ UNCHANGED <<lock, slot, kind>>
    BY <1>3 DEF Audio!Reap, Audio!Rest, Audio!playback
  <2>2. Quiet(Tail(program[p]))
    BY <1>1, <1>2, QuietTail DEF Silent
  <2>3. \A b \in Audio!Actors : Quiet(program'[b]) \/ (b = lock' /\ slot' # Audio!NoProcess)
    BY <1>1, <1>2, <2>1, <2>2, QuietKept DEF Silent
  <2> QED
    BY <1>1, <2>1, <2>3 DEF Silent, Audio!InFocus, Audio!Expired, Going
<1>4. CASE slot = p
  <2> DEFINE u == Audio!Op("unlock", Audio!None)
  <2>1. u \in Audio!Operations /\ u.do = "unlock"
    BY AnOperation
  <2>2. lock' = p /\ slot' = Audio!NoProcess /\ kind' = Audio!None /\ program' = [program EXCEPT ![p] = Audio!Off(kind) \o <<u>>]
    BY <1>4 DEF Audio!Reap
  <2> HIDE DEF u
  <2>3. <<u>> \in Seq(Audio!Operations) /\ Quiet(<<u>>)
    BY <2>1 DEF Quiet, TurnsOn
  <2> QED
    BY <1>1, <2>2, <2>3, FreedSilent
<1> QED
  BY <1>3, <1>4

LEMMA PopenSilent ==
  ASSUME Audio!BoundsAssumption, AudioInv, Silent, NEW a \in Audio!Actors, Audio!Popen(a)
  PROVE  Silent'
<1> USE DEF AudioInv
<1> DEFINE s == program[a]
<1>1. /\ s # <<>> /\ s[1].do = "popen" /\ s[1] = Head(s) /\ s \in Seq(Audio!Operations) /\ s[1] \in Audio!Operations
      /\ 1 \in 1..Len(s)
  BY Next1 DEF Audio!Popen, Audio!Doing
<1>2. a = lock /\ lock # Audio!NoActor
  BY <1>1, AudioConstants DEF LockHeld, NotYet, Enders
<1>3. slot = Audio!NoProcess /\ kind = Audio!None
  BY <1>1, <1>2, InSlot, Announced, AudioConstants DEF LockHeld, Audio!TypeOK
<1>4. Ordered(s)
  BY DEF LockHeld
<1>5. \A i \in 1..Len(s) : i = 1
  <2> SUFFICES ASSUME NEW i \in 1..Len(s), i # 1 PROVE FALSE
    OBVIOUS
  <2>1. 1 < i
    BY <1>1
  <2> QED
    BY <1>1, <1>4, <2>1 DEF Ordered
<1>6. \A f \in Audio!Flags : ~Going(f)
  <2>1. \A f \in Audio!Flags : s[1] # Audio!Set(f, FALSE)
    BY <1>1 DEF Audio!Set
  <2> QED
    BY <1>1, <1>2, <1>5, <2>1 DEF Going
<1>7. \A f \in Audio!Flags \ {"listening"} : ~Audio!InFocus(f)
  BY <1>3, <1>6 DEF Silent, BelongsTo, Audio!Kinds, Audio!None
<1>8. UNCHANGED <<focus, expiry>>
  BY DEF Audio!Popen, Audio!state
<1>9. \A b \in Audio!Actors : Quiet(program[b])
  BY <1>3 DEF Silent
<1>10. \A b \in Audio!Actors \ {a} : program'[b] = program[b]
  BY DEF Audio!Popen, Audio!TypeOK
<1>11. Quiet(program'[a]) \/ (a = lock' /\ slot' # Audio!NoProcess)
  <2>1. CASE started < MaxRequests /\ started' = started + 1 /\ slot' = started' /\ UNCHANGED lock
    BY <1>2, <2>1 DEF Audio!TypeOK, Audio!NoProcess
  <2>2. CASE program' = [program EXCEPT ![a] = <<>>]
    <3>1. program'[a] = <<>>
      BY <2>2 DEF Audio!TypeOK
    <3> QED
      BY <3>1 DEF Quiet
  <2> QED
    BY <2>1, <2>2 DEF Audio!Popen
<1> QED
  BY <1>7, <1>8, <1>9, <1>10, <1>11 DEF Silent, Audio!InFocus, Audio!Expired

LEMMA UnlockSilent ==
  ASSUME Audio!BoundsAssumption, AudioInv, Silent, NEW a \in Audio!Actors, Audio!Unlock(a)
  PROVE  Silent'
<1> USE DEF AudioInv
<1> DEFINE s == program[a]
<1>1. /\ s # <<>> /\ s[1].do = "unlock" /\ s[1] = Head(s) /\ s \in Seq(Audio!Operations)
      /\ 1 \in 1..Len(s) /\ Tail(s) \in Seq(Audio!Operations)
  BY Next1 DEF Audio!Unlock, Audio!Doing
<1>2. /\ program' = [program EXCEPT ![a] = Tail(s)] /\ lock' = Audio!NoActor
      /\ UNCHANGED <<focus, expiry, slot, kind>>
  BY DEF Audio!Unlock, Audio!Rest, Audio!state
<1>3. a = lock /\ lock # Audio!NoActor
  BY <1>1, AudioConstants DEF LockHeld, NotYet, Enders
<1>4. Ordered(s)
  BY DEF LockHeld
<1>5. \A i \in 1..Len(s) : s[i].do \in {"unlock", "clear"}
  BY <1>1, <1>4 DEF Ordered
<1>6. \A f \in Audio!Flags : ~Going(f)
  BY <1>3, <1>5 DEF Going, Audio!Set
<1>7. Quiet(Tail(s))
  BY <1>1, <1>5, HeadAndTail DEF Quiet, TurnsOn
<1>8. \A b \in Audio!Actors : Quiet(program'[b]) \/ (b = lock' /\ slot' # Audio!NoProcess)
  BY <1>1, <1>2, <1>3, <1>7, QuietKept DEF Silent
<1> QED
  BY <1>2, <1>6, <1>8 DEF Silent, Audio!InFocus, Audio!Expired

LEMMA ProcessEndsSilent ==
  ASSUME Audio!BoundsAssumption, AudioInv, Silent, NEW p \in Audio!Processes, Audio!ProcessEnds(p)
  PROVE  Silent'
<1> USE DEF AudioInv
<1> DEFINE o == Audio!Op("reap", Audio!None)
<1>1. /\ p \in running /\ program' = [program EXCEPT ![p] = <<o>>]
      /\ UNCHANGED <<focus, expiry, lock, slot, kind>>
  BY DEF Audio!ProcessEnds, Audio!state, Audio!playback
<1>2. o \in Audio!Operations /\ o.do = "reap"
  BY AnOperation
<1> HIDE DEF o
<1>3. <<o>> \in Seq(Audio!Operations) /\ Quiet(<<o>>)
  BY <1>2 DEF Quiet, TurnsOn
<1>4. p \in Audio!Actors /\ p # lock
  BY <1>1, AudioConstants, HolderGoesOn DEF Watched
<1>5. \A b \in Audio!Actors : Quiet(program'[b]) \/ (b = lock' /\ slot' # Audio!NoProcess)
  BY <1>1, <1>3, <1>4, QuietKept DEF Silent
<1>6. lock # Audio!NoActor => program'[lock] = program[lock]
  BY <1>1, <1>4 DEF Audio!TypeOK
<1> QED
  BY <1>1, <1>5, <1>6 DEF Silent, Audio!InFocus, Audio!Expired, Going

LEMMA LapseSilent ==
  ASSUME AudioInv, Silent, NEW f \in Audio!Flags, Audio!Lapse(f)
  PROVE  Silent'
<1>1. /\ expiry[f] = "ahead" /\ expiry' = [expiry EXCEPT ![f] = "past"]
      /\ UNCHANGED <<focus, lock, slot, kind, program>>
  BY DEF Audio!Lapse, Audio!playback
<1>2. \A g \in Audio!Flags : Audio!InFocus(g)' => Audio!InFocus(g)
  BY <1>1 DEF Audio!InFocus, Audio!Expired, AudioInv, Audio!TypeOK
<1> QED
  BY <1>1, <1>2 DEF Silent, Going

LEMMA SilentInit == ASSUME Audio!Init PROVE Silent
<1>1. \A a \in Audio!Actors : program[a] = <<>>
  BY DEF Audio!Init
<1>2. Quiet(<<>>)
  BY DEF Quiet
<1> QED
  BY <1>1, <1>2 DEF Audio!Init, Silent, Audio!InFocus

LEMMA SilentKept ==
  ASSUME Audio!BoundsAssumption, OwnFocus, AudioInv, Silent, Audio!Next
  PROVE  Silent'
  BY RequestSilent, SetFlagSilent, ClearSilent, FetchSilent, StopSilent, PopenSilent, UnlockSilent,
     ProcessEndsSilent, ReapSilent, LapseSilent DEF Audio!Next, Audio!Step

LEMMA SilentRests == ASSUME Silent, UNCHANGED Audio!vars PROVE Silent'
  BY DEF Silent, Going, Audio!InFocus, Audio!Expired, Audio!vars, Audio!state, Audio!playback

LEMMA SilenceFalls == ASSUME AudioInv, Silent PROVE Audio!SilenceHasNoFocus
<1>1. SUFFICES ASSUME slot = Audio!NoProcess, \A a \in Audio!Actors : program[a] = <<>>
               PROVE  \A f \in Audio!Flags \ {"listening"} : ~Audio!InFocus(f)
  BY DEF Audio!SilenceHasNoFocus
<1>2. kind = Audio!None
  BY <1>1 DEF AudioInv, Audio!TypeOK
<1>3. \A f \in Audio!Flags : ~Going(f)
  <2>1. lock # Audio!NoActor => Len(program[lock]) = 0
    <3>1. lock # Audio!NoActor => program[lock] = <<>>
      BY <1>1 DEF AudioInv, Audio!TypeOK
    <3> QED
      BY <3>1
  <2>2. lock # Audio!NoActor => \A i \in 1..Len(program[lock]) : FALSE
    BY <2>1
  <2> QED
    BY <2>2 DEF Going
<1> QED
  BY <1>2, <1>3 DEF Silent, BelongsTo, Audio!Kinds, Audio!None

-----------------------------------------------------------------------------
(* The volumes of streams (audio_focus.py).                                 *)

\* A stream's own baseline is no louder than the stream began.
Quieter ==
  \A s \in Volume!Owners :
    stream[s] <= natural[s] /\ (baselines[s] # Volume!NoBaseline => baselines[s] <= natural[s])

\* A stream that began during a pass that will still look for its source has not been changed yet.
Untouched == \A s \in left \cap fresh : stream[s] = natural[s]

\* A pass that has not failed knows every stream but those that began since.
Listed ==
  Volume!Faultless /\ applying =>
    \A s \in Volume!Streamed \ nodes : stream[s] # Volume!NoStream => s \in fresh /\ stream[s] = natural[s]

\* The baseline of a stream is its own volume, and without one it has not been changed.
Remembered ==
  Volume!Faultless =>
    \A s \in Volume!Owners : IF baselines[s] = Volume!NoBaseline THEN stream[s] = natural[s]
                                                   ELSE baselines[s] = natural[s]

\* What the pass has done so far is what the decision asks for.
Applied ==
  Volume!Faultless =>
    \A s \in (((nodes \ left) \cap decided) \ fresh) \cap Volume!Owners :
      stream[s] = Volume!Scaled(s, decided, natural[s])

VolumeInv ==
  /\ Volume!TypeOK /\ (applying \/ left = {})
  /\ Quieter /\ Untouched /\ Listed /\ Remembered /\ Applied

-----------------------------------------------------------------------------
LEMMA Halved == ASSUME NEW v \in Nat PROVE /\ v \div 2 \in Nat /\ v \div 2 <= v
                                           /\ v >= 2 => v \div 2 > 0 /\ v \div 2 < v
  OBVIOUS

LEMMA ScaledIsQuieter ==
  ASSUME NEW s, NEW A, NEW v \in Nat
  PROVE  Volume!Scaled(s, A, v) \in Nat /\ Volume!Scaled(s, A, v) <= v
  BY Halved DEF Volume!Scaled

LEMMA ALevel ==
  /\ \A n \in Nat, m \in Volume!Levels : Volumes \subseteq Nat /\ n <= m => n \in Volume!Levels
  /\ \A v \in Volumes : Volumes \subseteq Nat => v \in Volume!Levels
  /\ \A n \in Volume!Levels : n \in Nat /\ n # Volume!NoStream /\ n # Volume!NoBaseline
<1>1. ASSUME NEW n \in Nat, NEW m \in Volume!Levels, Volumes \subseteq Nat, n <= m PROVE n \in Volume!Levels
  <2>1. PICK v \in Volumes : m <= v
    BY DEF Volume!Levels
  <2>2. m \in Nat
    BY DEF Volume!Levels
  <2>3. v \in Nat /\ n <= v
    BY <1>1, <2>1, <2>2
  <2> QED
    BY <2>1, <2>3 DEF Volume!Levels
<1>2. ASSUME NEW v \in Volumes, Volumes \subseteq Nat PROVE v \in Volume!Levels
  BY <1>2 DEF Volume!Levels
<1>3. ASSUME NEW n \in Volume!Levels PROVE n \in Nat /\ n # Volume!NoStream /\ n # Volume!NoBaseline
  BY DEF Volume!Levels, Volume!NoStream, Volume!NoBaseline
<1> QED
  BY <1>1, <1>2, <1>3

\* What setting a volume can come to.
LEMMA VolumeSet ==
  ASSUME Volume!TypeOK, Volume!BoundsAssumption, NEW s \in Volume!Streamed, NEW v \in Volume!Levels, Volume!SetVolume(s, v)
  PROVE  /\ stream' \in [Volume!Streamed -> Volume!Levels \cup {Volume!NoStream}]
         /\ \A t \in Volume!Streamed \ {s} : stream'[t] = stream[t]
         /\ stream'[s] \in {stream[s], v} /\ (stream[s] = Volume!NoStream <=> stream'[s] = Volume!NoStream)
         /\ callFailures' \in 0..MaxCallFailures
         /\ callFailures' = callFailures => stream'[s] = v \/ (Volume!Gone(s) /\ stream'[s] = stream[s])
         /\ callFailures' = callFailures \/ callFailures' = callFailures + 1
<1>0. callFailures \in 0..MaxCallFailures /\ MaxCallFailures \in Nat
  BY DEF Volume!TypeOK, Volume!BoundsAssumption
<1>1. CASE stream[s] # Volume!NoStream /\ stream' = [stream EXCEPT ![s] = v] /\ UNCHANGED callFailures
  BY <1>0, <1>1, ALevel DEF Volume!TypeOK
<1>2. CASE Volume!Gone(s) /\ UNCHANGED <<stream, callFailures>>
  BY <1>0, <1>2 DEF Volume!TypeOK
<1>3. CASE callFailures < MaxCallFailures /\ callFailures' = callFailures + 1 /\ UNCHANGED stream
  BY <1>0, <1>3 DEF Volume!TypeOK
<1> QED
  BY <1>1, <1>2, <1>3 DEF Volume!SetVolume

LEMMA FaultsCounted ==
  ASSUME Volume!TypeOK, Volume!BoundsAssumption
  PROVE  /\ dumpFailures \in Nat /\ callFailures \in Nat /\ restarts \in Nat
         /\ Volume!Faultless <=> dumpFailures = 0 /\ callFailures = 0 /\ restarts = 0
<1>1. dumpFailures \in Nat /\ callFailures \in Nat /\ restarts \in Nat
  BY DEF Volume!TypeOK, Volume!BoundsAssumption
<1> QED
  BY <1>1 DEF Volume!Faultless

LEMMA ChangeCounted ==
  ASSUME Volume!TypeOK, Volume!BoundsAssumption, Volume!Changes PROVE changes' \in 0..MaxChanges
  BY DEF Volume!TypeOK, Volume!BoundsAssumption, Volume!Changes

\* What a step of the pass with one source leaves of the others.
LEMMA ObserveKeeps == ASSUME Volume!BoundsAssumption, VolumeInv, Volume!Observe PROVE VolumeInv'
<1> USE DEF VolumeInv
<1>1. /\ UNCHANGED <<active, stream, natural, inherited, changes, baselines, callFailures, restarts>>
      /\ ~applying /\ applying' = TRUE /\ decided' = active /\ left' = nodes' /\ fresh' = {}
  BY DEF Volume!Observe
<1>2. nodes' \subseteq Volume!Streamed /\ dumpFailures' \in 0..MaxDumpFailures /\ dumpFailures' \in Nat
      /\ (dumpFailures' = dumpFailures \/ dumpFailures' = dumpFailures + 1)
  BY DEF Volume!Observe, Volume!TypeOK, Volume!BoundsAssumption
<1>3. Volume!TypeOK'
  BY <1>1, <1>2 DEF Volume!TypeOK
<1>4. Volume!Faultless' => Volume!Faultless
  BY <1>1, <1>2, FaultsCounted DEF Volume!Faultless
<1>5. Volume!Faultless' => nodes' = {s \in Volume!Streamed : stream[s] # Volume!NoStream}
  <2>1. Volume!Faultless' => dumpFailures' = 0
    BY <1>1, <1>2, FaultsCounted DEF Volume!Faultless
  <2>2. dumpFailures' = dumpFailures + 1 => dumpFailures' # 0
    BY FaultsCounted
  <2> QED
    BY <2>1, <2>2 DEF Volume!Observe
<1>6. Volume!Owners' = Volume!Owners
  BY <1>1 DEF Volume!Owners
<1>7. Quieter' /\ Untouched'
  BY <1>1, <1>6 DEF Quieter, Untouched
<1>8. Listed'
  BY <1>1, <1>5 DEF Listed
<1>9. Remembered' /\ Applied'
  BY <1>1, <1>4, <1>6 DEF Remembered, Applied
<1> QED
  BY <1>1, <1>3, <1>7, <1>8, <1>9

LEMMA RestoreKeeps == ASSUME Volume!BoundsAssumption, VolumeInv, NEW s \in Volume!Streamed, Volume!Restore(s) PROVE VolumeInv'
<1> USE DEF VolumeInv
<1>1. /\ s \in left /\ s \notin decided /\ left' = left \ {s}
      /\ baselines' = [baselines EXCEPT ![s] = Volume!NoBaseline]
      /\ UNCHANGED <<active, natural, fresh, inherited, changes, decided, nodes, applying, dumpFailures, restarts>>
  BY DEF Volume!Restore
<1>2. /\ stream' \in [Volume!Streamed -> Volume!Levels \cup {Volume!NoStream}]
      /\ \A t \in Volume!Streamed \ {s} : stream'[t] = stream[t]
      /\ stream'[s] = Volume!NoStream <=> stream[s] = Volume!NoStream
      /\ callFailures' \in 0..MaxCallFailures
      /\ callFailures' = callFailures \/ callFailures' = callFailures + 1
      /\ stream'[s] = stream[s] \/ (baselines[s] # Volume!NoBaseline /\ stream'[s] = baselines[s])
      /\ callFailures' = callFailures /\ baselines[s] # Volume!NoBaseline =>
           stream'[s] = baselines[s] \/ (Volume!Gone(s) /\ stream'[s] = stream[s])
  <2>1. CASE baselines[s] = Volume!NoBaseline
    BY <2>1 DEF Volume!Restore, Volume!TypeOK
  <2>2. CASE baselines[s] # Volume!NoBaseline
    <3>1. baselines[s] \in Volume!Levels /\ Volume!SetVolume(s, baselines[s])
      BY <2>2 DEF Volume!Restore, Volume!TypeOK
    <3> QED
      BY <2>2, <3>1, VolumeSet
  <2> QED
    BY <2>1, <2>2
<1>3. Volume!TypeOK'
  BY <1>1, <1>2 DEF Volume!TypeOK
<1>4. Volume!Faultless' => Volume!Faultless /\ callFailures' = callFailures
  BY <1>1, <1>2, FaultsCounted DEF Volume!Faultless
<1>5. Volume!Owners' = Volume!Owners
  BY <1>1, <1>2 DEF Volume!Owners
<1>6. /\ baselines'[s] = Volume!NoBaseline
      /\ \A t \in Volume!Streamed \ {s} : baselines'[t] = baselines[t]
  BY <1>1 DEF Volume!TypeOK
<1>7. Quieter'
  <2> SUFFICES ASSUME NEW t \in Volume!Owners
               PROVE  stream'[t] <= natural[t] /\ (baselines'[t] # Volume!NoBaseline => baselines'[t] <= natural[t])
    BY <1>1, <1>5 DEF Quieter
  <2>1. CASE t # s
    BY <1>2, <1>6, <2>1 DEF Quieter, Volume!Owners
  <2>2. CASE t = s
    BY <1>2, <1>6, <2>2 DEF Quieter
  <2> QED
    BY <2>1, <2>2
<1>8. Untouched'
  BY <1>1, <1>2 DEF Untouched, Volume!TypeOK
<1>9. Listed'
  BY <1>1, <1>2, <1>4 DEF Listed, Volume!TypeOK
<1>10. Remembered'
  <2> SUFFICES ASSUME Volume!Faultless', NEW t \in Volume!Owners
               PROVE  IF baselines'[t] = Volume!NoBaseline THEN stream'[t] = natural[t]
                                                    ELSE baselines'[t] = natural[t]
    BY <1>1, <1>5 DEF Remembered
  <2>1. CASE t # s
    BY <1>2, <1>4, <1>6, <2>1 DEF Remembered, Volume!Owners
  <2>2. CASE t = s
    <3>1. Volume!Gone(s) => stream[s] = natural[s]
      BY <1>1, <2>2 DEF Volume!Gone, Untouched, Volume!Owners
    <3> QED
      BY <1>2, <1>4, <1>6, <2>2, <3>1 DEF Remembered
  <2> QED
    BY <2>1, <2>2
<1>11. Applied'
  BY <1>1, <1>2, <1>4, <1>5 DEF Applied, Volume!TypeOK
<1> QED
  BY <1>1, <1>3, <1>7, <1>8, <1>9, <1>10, <1>11

LEMMA EnforceKeeps == ASSUME Volume!BoundsAssumption, VolumeInv, NEW s \in Volume!Streamed, Volume!Enforce(s) PROVE VolumeInv'
<1> USE DEF VolumeInv
<1> DEFINE c == Volume!Captured(s)
<1>1. /\ s \in left /\ s \in decided /\ left' = left \ {s} /\ c # Volume!NoBaseline
      /\ baselines' = [baselines EXCEPT ![s] = c] /\ Volume!SetVolume(s, Volume!Scaled(s, decided, c))
      /\ UNCHANGED <<active, natural, fresh, inherited, changes, decided, nodes, applying, dumpFailures, restarts>>
  BY DEF Volume!Enforce
<1>2. c \in Volume!Levels /\ c = IF baselines[s] # Volume!NoBaseline THEN baselines[s] ELSE stream[s]
  BY <1>1 DEF Volume!Captured, Volume!TypeOK, Volume!NoStream, Volume!NoBaseline
<1> HIDE DEF c
<1> DEFINE w == Volume!Scaled(s, decided, c)
<1>3. c \in Nat /\ w \in Nat /\ w <= c /\ w \in Volume!Levels
  <2>1. c \in Nat /\ Volumes \subseteq Nat
    BY <1>2, ALevel DEF Volume!BoundsAssumption
  <2>2. w \in Nat /\ w <= c
    BY <2>1, ScaledIsQuieter
  <2> QED
    BY <1>2, <2>1, <2>2, ALevel
<1>4. /\ stream' \in [Volume!Streamed -> Volume!Levels \cup {Volume!NoStream}]
      /\ \A t \in Volume!Streamed \ {s} : stream'[t] = stream[t]
      /\ stream'[s] \in {stream[s], w} /\ (stream[s] = Volume!NoStream <=> stream'[s] = Volume!NoStream)
      /\ callFailures' \in 0..MaxCallFailures
      /\ callFailures' = callFailures => stream'[s] = w \/ (Volume!Gone(s) /\ stream'[s] = stream[s])
      /\ callFailures' = callFailures \/ callFailures' = callFailures + 1
  BY <1>1, <1>3, VolumeSet
<1>5. Volume!TypeOK'
  BY <1>1, <1>2, <1>4 DEF Volume!TypeOK
<1>6. Volume!Faultless' => Volume!Faultless /\ callFailures' = callFailures
  BY <1>1, <1>4, FaultsCounted DEF Volume!Faultless
<1>7. Volume!Owners' = Volume!Owners
  BY <1>1, <1>4 DEF Volume!Owners
<1>8. baselines'[s] = c /\ \A t \in Volume!Streamed \ {s} : baselines'[t] = baselines[t]
  BY <1>1 DEF Volume!TypeOK
<1>9. Quieter'
  <2> SUFFICES ASSUME NEW t \in Volume!Owners
               PROVE  stream'[t] <= natural[t] /\ (baselines'[t] # Volume!NoBaseline => baselines'[t] <= natural[t])
    BY <1>1, <1>7 DEF Quieter
  <2>1. CASE t # s
    BY <1>4, <1>8, <2>1 DEF Quieter, Volume!Owners
  <2>2. CASE t = s
    <3>1. c <= natural[s] /\ stream[s] <= natural[s]
      BY <1>2, <2>2 DEF Quieter
    <3>2. natural[s] \in Nat
      BY <2>2 DEF Volume!Owners, Volume!TypeOK, Volume!BoundsAssumption
    <3>3. w <= natural[s]
      BY <1>3, <3>1, <3>2
    <3> QED
      BY <1>4, <1>8, <2>2, <3>1, <3>3
  <2> QED
    BY <2>1, <2>2
<1>10. Untouched'
  BY <1>1, <1>4 DEF Untouched, Volume!TypeOK
<1>11. Listed'
  BY <1>1, <1>4, <1>6 DEF Listed, Volume!TypeOK
<1>12. Volume!Faultless' /\ s \in Volume!Owners => c = natural[s]
  BY <1>2, <1>6 DEF Remembered
<1>13. Remembered'
  BY <1>1, <1>4, <1>6, <1>7, <1>8, <1>12 DEF Remembered, Volume!Owners
<1>14. Applied'
  <2> SUFFICES ASSUME Volume!Faultless', NEW t \in (((nodes \ left') \cap decided) \ fresh) \cap Volume!Owners
               PROVE  stream'[t] = Volume!Scaled(t, decided, natural[t])
    BY <1>1, <1>7 DEF Applied
  <2>1. CASE t # s
    BY <1>1, <1>4, <1>6, <2>1 DEF Applied, Volume!Owners
  <2>2. CASE t = s
    BY <1>4, <1>6, <1>12, <2>2 DEF Volume!Gone, Volume!Owners
  <2> QED
    BY <2>1, <2>2
<1> QED
  BY <1>1, <1>5, <1>9, <1>10, <1>11, <1>13, <1>14

LEMMA CannotCaptureKeeps ==
  ASSUME Volume!BoundsAssumption, VolumeInv, NEW s \in Volume!Streamed, Volume!CannotCapture(s) PROVE VolumeInv'
<1> USE DEF VolumeInv
<1>1. /\ s \in left /\ s \in decided /\ left' = left \ {s}
      /\ UNCHANGED <<active, stream, natural, fresh, inherited, changes, baselines, decided, nodes, applying,
                     dumpFailures, restarts>>
  BY DEF Volume!CannotCapture, Volume!environment
<1>2. /\ callFailures' \in 0..MaxCallFailures
      /\ callFailures' = callFailures \/ callFailures' = callFailures + 1
      /\ callFailures' = callFailures => Volume!Gone(s)
  <2>1. callFailures \in 0..MaxCallFailures /\ MaxCallFailures \in Nat
    BY DEF Volume!TypeOK, Volume!BoundsAssumption
  <2> QED
    BY <2>1 DEF Volume!CannotCapture
<1>3. Volume!TypeOK'
  BY <1>1, <1>2 DEF Volume!TypeOK
<1>4. Volume!Faultless' => Volume!Faultless /\ callFailures' = callFailures
  BY <1>1, <1>2, FaultsCounted DEF Volume!Faultless
<1>5. Volume!Owners' = Volume!Owners
  BY <1>1 DEF Volume!Owners
<1>6. Quieter' /\ Untouched' /\ Listed' /\ Remembered'
  BY <1>1, <1>4, <1>5 DEF Quieter, Untouched, Listed, Remembered
<1>7. Applied'
  <2> SUFFICES ASSUME Volume!Faultless', NEW t \in (((nodes \ left') \cap decided) \ fresh) \cap Volume!Owners
               PROVE  stream[t] = Volume!Scaled(t, decided, natural[t])
    BY <1>1, <1>5 DEF Applied
  <2>1. t # s
    BY <1>2, <1>4 DEF Volume!Gone, Volume!Owners
  <2> QED
    BY <1>1, <1>4, <2>1 DEF Applied
<1> QED
  BY <1>1, <1>3, <1>6, <1>7

LEMMA PruneKeeps == ASSUME Volume!BoundsAssumption, VolumeInv, Volume!Prune PROVE VolumeInv'
<1> USE DEF VolumeInv
<1>1. /\ applying /\ left = {} /\ applying' = FALSE
      /\ baselines' = [t \in Volume!Streamed |-> IF t \in nodes THEN baselines[t] ELSE Volume!NoBaseline]
      /\ UNCHANGED <<active, stream, natural, fresh, inherited, changes, decided, nodes, left,
                     dumpFailures, callFailures, restarts>>
  BY DEF Volume!Prune, Volume!environment, Volume!faults
<1>2. Volume!TypeOK'
  BY <1>1 DEF Volume!TypeOK
<1>3. Volume!Owners' = Volume!Owners /\ Volume!Faultless' = Volume!Faultless
  BY <1>1 DEF Volume!Owners, Volume!Faultless
<1>4. Quieter' /\ Untouched' /\ Listed' /\ Applied'
  BY <1>1, <1>3 DEF Quieter, Untouched, Listed, Applied, Volume!Owners
<1>5. Remembered'
  BY <1>1, <1>3 DEF Remembered, Listed, Volume!Owners
<1> QED
  BY <1>1, <1>2, <1>4, <1>5

LEMMA SourceChangesKeeps ==
  ASSUME Volume!BoundsAssumption, VolumeInv, NEW s \in Sources, Volume!SourceChanges(s) PROVE VolumeInv'
<1> USE DEF VolumeInv
<1>1. /\ active' \subseteq Sources /\ changes' \in 0..MaxChanges
      /\ UNCHANGED <<stream, natural, fresh, inherited, baselines, decided, nodes, left, applying,
                     dumpFailures, callFailures, restarts>>
  BY ChangeCounted DEF Volume!SourceChanges, Volume!pass, Volume!faults, Volume!TypeOK
<1>2. Volume!TypeOK'
  BY <1>1 DEF Volume!TypeOK
<1>3. Volume!Owners' = Volume!Owners /\ Volume!Faultless' = Volume!Faultless
  BY <1>1 DEF Volume!Owners, Volume!Faultless
<1>4. Quieter' /\ Untouched' /\ Listed' /\ Remembered' /\ Applied'
  BY <1>1, <1>3 DEF Quieter, Untouched, Listed, Remembered, Applied
<1> QED
  BY <1>1, <1>2, <1>4

LEMMA StreamBeginsKeeps ==
  ASSUME Volume!BoundsAssumption, VolumeInv, NEW s \in Volume!Streamed, NEW v \in Volumes, Volume!StreamBegins(s, v) PROVE VolumeInv'
<1> USE DEF VolumeInv
<1>1. /\ stream[s] = Volume!NoStream /\ stream' = [stream EXCEPT ![s] = v] /\ natural' = [natural EXCEPT ![s] = v]
      /\ fresh' = fresh \cup {s}
      /\ inherited' = IF baselines[s] \in {Volume!NoBaseline, v} THEN inherited ELSE inherited \cup {s}
      /\ changes' \in 0..MaxChanges
      /\ UNCHANGED <<active, baselines, decided, nodes, left, applying,
                     dumpFailures, callFailures, restarts>>
  BY ChangeCounted DEF Volume!StreamBegins, Volume!pass, Volume!faults
<1>2. v \in Volume!Levels /\ v \in Nat /\ v # Volume!NoStream
  BY ALevel DEF Volume!BoundsAssumption, Volume!NoStream
<1>3. /\ stream'[s] = v /\ natural'[s] = v
      /\ \A t \in Volume!Streamed \ {s} : stream'[t] = stream[t] /\ natural'[t] = natural[t]
  BY <1>1 DEF Volume!TypeOK
<1>4. Volume!TypeOK'
  <2>1. /\ stream' \in [Volume!Streamed -> Volume!Levels \cup {Volume!NoStream}]
        /\ natural' \in [Volume!Streamed -> Volumes \cup {Volume!NoStream}]
    BY <1>1, <1>2 DEF Volume!TypeOK
  <2>2. \A t \in Volume!Streamed : stream'[t] = Volume!NoStream <=> natural'[t] = Volume!NoStream
    BY <1>2, <1>3 DEF Volume!TypeOK
  <2> QED
    BY <1>1, <2>1, <2>2 DEF Volume!TypeOK
<1>5. Volume!Faultless' = Volume!Faultless
  BY <1>1 DEF Volume!Faultless
<1>6. /\ \A t \in Volume!Owners' : t = s \/ t \in Volume!Owners
      /\ s \in Volume!Owners' => baselines[s] \in {Volume!NoBaseline, v}
  BY <1>1, <1>3 DEF Volume!Owners
<1>7. Quieter'
  BY <1>1, <1>2, <1>3, <1>6 DEF Quieter, Volume!Owners
<1>8. Untouched' /\ Listed'
  BY <1>1, <1>3, <1>5 DEF Untouched, Listed, Volume!TypeOK
<1>9. Remembered'
  BY <1>1, <1>3, <1>5, <1>6 DEF Remembered, Volume!Owners
<1>10. Applied'
  BY <1>1, <1>3, <1>5, <1>6 DEF Applied, Volume!Owners
<1> QED
  BY <1>1, <1>4, <1>7, <1>8, <1>9, <1>10

LEMMA StreamEndsKeeps ==
  ASSUME Volume!BoundsAssumption, VolumeInv, NEW s \in Volume!Streamed, Volume!StreamEnds(s) PROVE VolumeInv'
<1> USE DEF VolumeInv
<1>1. /\ stream' = [stream EXCEPT ![s] = Volume!NoStream] /\ natural' = [natural EXCEPT ![s] = Volume!NoStream]
      /\ inherited' = inherited \ {s} /\ changes' \in 0..MaxChanges
      /\ UNCHANGED <<active, fresh, baselines, decided, nodes, left, applying,
                     dumpFailures, callFailures, restarts>>
  BY ChangeCounted DEF Volume!StreamEnds, Volume!pass, Volume!faults
<1>2. /\ stream'[s] = Volume!NoStream /\ natural'[s] = Volume!NoStream
      /\ \A t \in Volume!Streamed \ {s} : stream'[t] = stream[t] /\ natural'[t] = natural[t]
  BY <1>1 DEF Volume!TypeOK
<1>3. Volume!TypeOK'
  BY <1>1, <1>2 DEF Volume!TypeOK
<1>4. Volume!Faultless' = Volume!Faultless /\ Volume!Owners' = Volume!Owners \ {s}
  BY <1>1, <1>2 DEF Volume!Faultless, Volume!Owners
<1>5. Quieter' /\ Untouched' /\ Listed' /\ Remembered' /\ Applied'
  BY <1>1, <1>2, <1>4 DEF Quieter, Untouched, Listed, Remembered, Applied, Volume!Owners, Volume!TypeOK
<1> QED
  BY <1>1, <1>3, <1>5

LEMMA RestartKeeps == ASSUME Volume!BoundsAssumption, VolumeInv, Volume!AgentRestarts PROVE VolumeInv'
<1> USE DEF VolumeInv
<1>1. /\ restarts < MaxRestarts /\ restarts' = restarts + 1
      /\ baselines' = [t \in Volume!Streamed |-> Volume!NoBaseline]
      /\ decided' = {} /\ nodes' = {} /\ left' = {} /\ applying' = FALSE
      /\ UNCHANGED <<active, stream, natural, fresh, inherited, changes, dumpFailures, callFailures>>
  BY DEF Volume!AgentRestarts, Volume!environment
<1>2. restarts' \in 0..MaxRestarts /\ ~Volume!Faultless'
  <2>1. restarts \in 0..MaxRestarts /\ MaxRestarts \in Nat
    BY DEF Volume!TypeOK, Volume!BoundsAssumption
  <2> QED
    BY <1>1, <2>1, FaultsCounted DEF Volume!Faultless
<1>3. Volume!TypeOK'
  BY <1>1, <1>2 DEF Volume!TypeOK
<1>4. Quieter' /\ Untouched' /\ Listed' /\ Remembered' /\ Applied'
  BY <1>1, <1>2 DEF Quieter, Untouched, Listed, Remembered, Applied, Volume!Owners
<1> QED
  BY <1>1, <1>3, <1>4

LEMMA VolumeInit == ASSUME Volume!BoundsAssumption, Volume!Init PROVE VolumeInv
<1>1. Volume!TypeOK
  <2>1. /\ stream \in [Volume!Streamed -> Volume!Levels \cup {Volume!NoStream}]
        /\ natural \in [Volume!Streamed -> Volumes \cup {Volume!NoStream}]
        /\ baselines \in [Volume!Streamed -> Volume!Levels \cup {Volume!NoBaseline}]
        /\ \A s \in Volume!Streamed : stream[s] = Volume!NoStream <=> natural[s] = Volume!NoStream
    BY DEF Volume!Init
  <2>2. /\ changes \in 0..MaxChanges /\ dumpFailures \in 0..MaxDumpFailures
        /\ callFailures \in 0..MaxCallFailures /\ restarts \in 0..MaxRestarts
    BY DEF Volume!Init, Volume!BoundsAssumption
  <2> QED
    BY <2>1, <2>2 DEF Volume!Init, Volume!TypeOK
<1>2. Quieter /\ Untouched /\ Listed /\ Remembered /\ Applied
  BY DEF Volume!Init, Quieter, Untouched, Listed, Remembered, Applied, Volume!Owners
<1> QED
  BY <1>1, <1>2 DEF Volume!Init, VolumeInv

LEMMA VolumeKept == ASSUME Volume!BoundsAssumption, VolumeInv, Volume!Next PROVE VolumeInv'
  BY ObserveKeeps, RestoreKeeps, EnforceKeeps, CannotCaptureKeeps, PruneKeeps, SourceChangesKeeps,
     StreamBeginsKeeps, StreamEndsKeeps, RestartKeeps DEF Volume!Next, Volume!LoopStep

LEMMA VolumeRests == ASSUME VolumeInv, UNCHANGED Volume!vars PROVE VolumeInv'
  BY DEF VolumeInv, Volume!TypeOK, Quieter, Untouched, Listed, Remembered, Applied, Volume!Owners, Volume!Faultless, Volume!vars,
     Volume!environment, Volume!pass, Volume!faults

\* Speech is in the foreground whenever there is any.
LEMMA SpeechFirst ==
  ASSUME NEW A
  PROVE  (\E f \in {"critical", "assistant"} : Volume!Foreground(f, A)) <=> A \cap {"critical", "assistant"} # {}
<1>1. /\ Volume!Priority[1] = "critical" /\ Volume!Priority[2] = "assistant" /\ 1 \in DOMAIN Volume!Priority
      /\ 2 \in DOMAIN Volume!Priority
  BY DEF Volume!Priority
<1>2. "critical" \in A => Volume!Foreground("critical", A)
  BY <1>1 DEF Volume!Foreground
<1>3. "assistant" \in A /\ "critical" \notin A => Volume!Foreground("assistant", A)
  <2>1. \A j \in 1..(2 - 1) : j = 1
    OBVIOUS
  <2> QED
    BY <1>1, <2>1 DEF Volume!Foreground
<1> QED
  BY <1>2, <1>3 DEF Volume!Foreground

LEMMA VolumeFollows ==
  ASSUME Volume!BoundsAssumption, VolumeInv PROVE Volume!RestorableUnlessFaulty /\ Volume!PriorityHolds /\ Volume!NeverLouder
<1> USE DEF VolumeInv
<1>1. Volume!RestorableUnlessFaulty
  BY DEF Volume!RestorableUnlessFaulty, Volume!CanRestore, Remembered
<1>2. Volume!NeverLouder
  BY DEF Volume!NeverLouder, Quieter
<1>3. Volume!PriorityHolds
  <2> SUFFICES ASSUME Volume!Faultless, ~applying, decided = active,
                      NEW s \in ((nodes \cap active) \ fresh) \cap Volume!Owners
               PROVE  IF Volume!Foreground(s, active) THEN stream[s] = natural[s]
                      ELSE /\ stream[s] < natural[s]
                           /\ stream[s] > 0 <=> active \cap {"critical", "assistant"} # {}
    BY DEF Volume!PriorityHolds
  <2>1. stream[s] = Volume!Scaled(s, active, natural[s])
    BY DEF Applied
  <2>2. natural[s] \in Nat /\ natural[s] >= 2
    <3>1. natural[s] \in Volumes
      BY DEF Volume!Owners, Volume!TypeOK
    <3>2. \A n \in Nat \ {0, 1} : n >= 2
      OBVIOUS
    <3>3. natural[s] \in Nat \ {0, 1}
      BY <3>1 DEF Volume!BoundsAssumption
    <3> QED
      BY <3>2, <3>3
  <2> DEFINE n == natural[s]
  <2>3. n \div 2 < n /\ n \div 2 > 0
    BY <2>2, Halved
  <2>4. stream[s] = IF Volume!Foreground(s, active) THEN n
                    ELSE IF active \cap {"critical", "assistant"} # {} THEN n \div 2 ELSE 0
    BY <2>1, SpeechFirst DEF Volume!Scaled
  <2> HIDE DEF n
  <2> QED
    BY <2>2, <2>3, <2>4 DEF n
<1> QED
  BY <1>1, <1>2, <1>3

-----------------------------------------------------------------------------
(* The video player (youtube.py, controls.py).                              *)

\* A request that stands somewhere has the lock, and as long as no player was
\* given up there is at most one, which requests reach or the request that
\* started it waits for.
Reached ==
  /\ \A t \in Threads : at[t] # "idle" => holder = t
  /\ \A p, q \in alive : p = q \/ missed
  /\ \A p \in alive :
       \/ missed
       \/ p \in ready /\ ipc = p
       \/ p \notin ready /\ p = child /\ \E t \in Threads : at[t] = "starting"

VideoInv == Video!TypeOK /\ Reached

LEMMA VideoInit == ASSUME Video!BoundsAssumption, Video!Init PROVE VideoInv
<1>1. Video!TypeOK
  <2>1. starts \in 0..MaxStarts /\ faultsOfVideo \in 0..MaxFaults
    BY DEF Video!BoundsAssumption, Video!Init
  <2>2. at \in [Threads -> {"idle", "play", "stop", "starting"}]
    BY DEF Video!Init
  <2> QED
    BY <2>1, <2>2 DEF Video!Init, Video!TypeOK
<1>2. Reached
  BY DEF Video!Init, Reached
<1> QED
  BY <1>1, <1>2 DEF VideoInv

LEMMA FaultCounted == ASSUME Video!BoundsAssumption, Video!TypeOK, Video!Fault PROVE faultsOfVideo' \in 0..MaxFaults
  BY DEF Video!BoundsAssumption, Video!TypeOK, Video!Fault

LEMMA VideoKept == ASSUME Video!BoundsAssumption, VideoInv, Video!Next PROVE VideoInv'
<1> USE DEF VideoInv, Video!TypeOK, Reached
<1>0. Video!NoPlayer \notin Video!Players
  BY DEF Video!NoPlayer, Video!Players
<1>1. ASSUME NEW t \in Threads, NEW what \in {"play", "stop"}, Video!Request(t, what) PROVE VideoInv'
  BY <1>1 DEF Video!Request, Video!Locks, Video!BoundsAssumption
<1>2. ASSUME NEW t \in Threads, Video!Commands(t) PROVE VideoInv'
  BY <1>2 DEF Video!Commands, Video!Done, Video!Answers
<1>3. ASSUME NEW t \in Threads, Video!NothingToStop(t) PROVE VideoInv'
  BY <1>3 DEF Video!NothingToStop, Video!Done, Video!Answers
<1>4. ASSUME NEW t \in Threads, Video!Starts(t) PROVE VideoInv'
  <2>1. starts + 1 \in Video!Players /\ starts' \in 0..MaxStarts
    BY <1>4 DEF Video!Starts, Video!Players, Video!BoundsAssumption
  <2>2. missed' \/ alive = {}
    BY <1>4 DEF Video!Starts, Video!Answers
  <2>3. Video!TypeOK'
    <3>1. faultsOfVideo' \in 0..MaxFaults /\ missed' \in BOOLEAN
      BY <1>4, FaultCounted DEF Video!Starts
    <3> QED
      BY <1>4, <2>1, <3>1 DEF Video!Starts
  <2>4. Reached'
    BY <1>4, <2>2 DEF Video!Starts
  <2> QED
    BY <2>3, <2>4
<1>5. ASSUME NEW t \in Threads, Video!CannotStart(t) PROVE VideoInv'
  BY <1>5 DEF Video!CannotStart, Video!Answers
<1>6. ASSUME NEW t \in Threads, Video!GivesUp(t) PROVE VideoInv'
  <2>1. Video!TypeOK'
    <3>1. faultsOfVideo' \in 0..MaxFaults /\ missed' \in BOOLEAN
      BY <1>6, FaultCounted DEF Video!GivesUp
    <3> QED
      BY <1>6, <3>1 DEF Video!GivesUp
  <2>2. Reached'
    BY <1>6 DEF Video!GivesUp, Video!Answers
  <2> QED
    BY <2>1, <2>2
<1>7. ASSUME NEW p \in Video!Players, Video!BecomesReady(p) PROVE VideoInv'
  BY <1>7 DEF Video!BecomesReady
<1>8. ASSUME NEW p \in Video!Players, Video!Dies(p) PROVE VideoInv'
  <2>1. Video!TypeOK'
    BY <1>8 DEF Video!Dies, Video!Fault, Video!BoundsAssumption
  <2>2. Reached'
    BY <1>8 DEF Video!Dies
  <2> QED
    BY <2>1, <2>2
<1>9. ASSUME Video!AgentStops PROVE VideoInv'
  <2>1. Video!TypeOK'
    BY <1>9 DEF Video!AgentStops, Video!Fault, Video!BoundsAssumption
  <2>2. Reached'
    BY <1>9 DEF Video!AgentStops, Video!Answers, Video!BoundsAssumption
  <2> QED
    BY <2>1, <2>2
<1>10. ASSUME Video!AgentDies PROVE VideoInv'
  <2>1. Video!TypeOK'
    BY <1>10 DEF Video!AgentDies, Video!Fault, Video!BoundsAssumption
  <2>2. Reached'
    BY <1>10 DEF Video!AgentDies
  <2> QED
    BY <2>1, <2>2
<1> QED
  BY <1>1, <1>2, <1>3, <1>4, <1>5, <1>6, <1>7, <1>8, <1>9, <1>10 DEF Video!Next

LEMMA VideoSafe == ASSUME VideoInv PROVE Video!OnePlayer
  BY DEF VideoInv, Reached, Video!OnePlayer

-----------------------------------------------------------------------------
(* The Bluetooth bridge (bluetooth.py).                                     *)

\* Of several loopbacks one is the last.
LEMMA LastModule ==
  ASSUME Phone!BoundsAssumption, NEW S \in SUBSET Phone!Numbers, S # {}
  PROVE  \E n \in S : \A m \in S : m <= n
<1> DEFINE T == {MaxModules - n : n \in S}
<1>0. MaxModules \in Nat
  BY DEF Phone!BoundsAssumption
<1>1. T \subseteq Nat /\ T # {}
  <2>1. \A n \in S : n \in 1..MaxModules
    BY DEF Phone!Numbers
  <2>2. \A n \in S : MaxModules - n \in Nat
    BY <1>0, <2>1
  <2> QED
    BY <2>2
<1>2. PICK x \in T : \A y \in T : ~(<<y, x>> \in OpToRel(<, Nat))
  BY <1>1, NatLessThanWellFounded, WFMin, Zenon
<1>3. PICK n \in S : x = MaxModules - n
  OBVIOUS
<1>4. ASSUME NEW m \in S PROVE m <= n
  <2>1. MaxModules - m \in T /\ MaxModules - m \in Nat /\ x \in Nat
    BY <1>1
  <2>2. ~(MaxModules - m < x)
    BY <1>2, <2>1 DEF OpToRel
  <2> QED
    BY <1>0, <1>3, <2>1, <2>2 DEF Phone!Numbers
<1> QED
  BY <1>4

LEMMA EventCounted == ASSUME Phone!BoundsAssumption, Phone!TypeOK, Phone!Event PROVE events' \in 0..MaxEvents
  BY DEF Phone!BoundsAssumption, Phone!TypeOK, Phone!Event

LEMMA UnloadTypes ==
  ASSUME Phone!TypeOK, NEW ns, NEW stuck, Phone!Unload(ns, stuck)
  PROVE  /\ modules' \in [Phone!Numbers -> Phones \cup {Phone!Operator, Phone!Nobody}]
         /\ taken' \in BOOLEAN /\ orphaned' \in BOOLEAN
<1>1. /\ (taken \/ \E n \in ns \ stuck : modules[n] = Phone!Operator) \in BOOLEAN
      /\ (orphaned \/ \E n \in stuck : modules[n] \in Phones \ connected) \in BOOLEAN
  OBVIOUS
<1> QED
  BY <1>1 DEF Phone!TypeOK, Phone!Unload

LEMMA PhoneTypesInit == ASSUME Phone!BoundsAssumption, Phone!Init PROVE Phone!TypeOK
<1>1. /\ modules \in [Phone!Numbers -> Phones \cup {Phone!Operator, Phone!Nobody}]
      /\ loopbacks \in [Phones -> Phone!Numbers \cup {Phone!NoModule}]
  BY DEF Phone!Init
<1>2. events \in 0..MaxEvents
  BY DEF Phone!Init, Phone!BoundsAssumption
<1> QED
  BY <1>1, <1>2 DEF Phone!Init, Phone!TypeOK, Phone!Idle

LEMMA PhoneTypesKept ==
  ASSUME Phone!BoundsAssumption, Phone!TypeOK, Phone!Next PROVE Phone!TypeOK'
<1> USE DEF Phone!TypeOK
<1>1. ASSUME NEW p \in Phones, Phone!ConnectsOrLeaves(p) PROVE Phone!TypeOK'
  <2>1. events' \in 0..MaxEvents
    BY <1>1, EventCounted DEF Phone!ConnectsOrLeaves
  <2>2. (orphaned \/ (p \in connected /\ loopbacks[p] = Phone!NoModule /\ Phone!Own(p) # {})) \in BOOLEAN
    OBVIOUS
  <2> QED
    BY <1>1, <2>1, <2>2 DEF Phone!ConnectsOrLeaves
<1>2. ASSUME NEW p \in Phones, Phone!Load(p) PROVE Phone!TypeOK'
  <2>1. CASE \E n \in Phone!Numbers :
               /\ Phone!FreeNumber(n) /\ modules' = [modules EXCEPT ![n] = p]
               /\ \/ loopbacks' = [loopbacks EXCEPT ![p] = n] /\ UNCHANGED <<pass, unsure, events>>
                  \/ Phone!Event /\ pass' = Phone!Idle /\ unsure' = TRUE /\ UNCHANGED loopbacks
    <3>1. PICK n \in Phone!Numbers :
               /\ modules' = [modules EXCEPT ![n] = p]
               /\ \/ loopbacks' = [loopbacks EXCEPT ![p] = n] /\ UNCHANGED <<pass, unsure, events>>
                  \/ Phone!Event /\ pass' = Phone!Idle /\ unsure' = TRUE /\ UNCHANGED loopbacks
      BY <2>1
    <3>2. CASE loopbacks' = [loopbacks EXCEPT ![p] = n] /\ UNCHANGED <<pass, unsure, events>>
      BY <1>2, <3>1, <3>2 DEF Phone!Load
    <3>3. CASE Phone!Event /\ pass' = Phone!Idle /\ unsure' = TRUE /\ UNCHANGED loopbacks
      BY <1>2, <3>1, <3>3, EventCounted DEF Phone!Load, Phone!Idle
    <3> QED
      BY <3>1, <3>2, <3>3
  <2>2. CASE Phone!Event /\ pass' = [pass EXCEPT !.sources = @ \ {p}] /\ UNCHANGED <<modules, loopbacks, unsure>>
    BY <1>2, <2>2, EventCounted DEF Phone!Load
  <2> QED
    BY <1>2, <2>1, <2>2 DEF Phone!Load
<1>3. CASE Phone!OperatorLoads
  BY <1>3, EventCounted DEF Phone!OperatorLoads
<1>4. CASE Phone!PipeWireRestarts
  BY <1>4, EventCounted DEF Phone!PipeWireRestarts
<1>5. CASE Phone!AgentDies
  <2>1. (orphaned \/ \E p \in Phones \ connected : Phone!Own(p) # {}) \in BOOLEAN
    OBVIOUS
  <2> QED
    BY <1>5, <2>1, EventCounted DEF Phone!AgentDies, Phone!Idle
<1>6. CASE Phone!AgentStops
  BY <1>6, EventCounted, UnloadTypes DEF Phone!AgentStops, Phone!Idle
<1>7. CASE Phone!ListSources
  BY <1>7 DEF Phone!ListSources
<1>8. CASE Phone!ListModules
  <2>1. ASSUME NEW p \in Phones PROVE Phone!Adopted(p) \in Phone!Numbers \cup {Phone!NoModule}
    BY LastModule DEF Phone!Adopted, Phone!Own
  <2>2. CASE loopbacks' = [p \in Phones |-> Phone!Adopted(p)] /\ UNCHANGED <<unsure, events>>
    BY <1>8, <2>1, <2>2 DEF Phone!ListModules
  <2>3. CASE Phone!Event /\ unsure' = TRUE /\ UNCHANGED loopbacks
    BY <1>8, <2>3, EventCounted DEF Phone!ListModules
  <2> QED
    BY <1>8, <2>2, <2>3 DEF Phone!ListModules
<1>9. CASE Phone!EndLoading
  BY <1>9 DEF Phone!EndLoading
<1>10. CASE Phone!UnloadVanished
  <2>1. events' \in 0..MaxEvents
    BY <1>10, EventCounted DEF Phone!UnloadVanished
  <2> QED
    BY <1>10, <2>1, UnloadTypes DEF Phone!UnloadVanished, Phone!Idle
<1> QED
  BY <1>1, <1>2, <1>3, <1>4, <1>5, <1>6, <1>7, <1>8, <1>9, <1>10 DEF Phone!Next

\* A number that is remembered is that of the phone's own module, until PipeWire
\* gives the numbers again.
Named ==
  ~renumbered => /\ ~taken
                 /\ \A p \in Phones : loopbacks[p] # Phone!NoModule => modules[loopbacks[p]] = p

\* A phone has one module at most, and none while one is about to be loaded for it.
Lone ==
  ~unsure =>
    /\ \A p \in Phones : \A m, n \in Phone!Numbers : modules[m] = p /\ modules[n] = p => m = n
    /\ pass.at = "loading" =>
         \A p \in pass.sources :
           loopbacks[p] = Phone!NoModule => \A n \in Phone!Numbers : modules[n] # p

PhoneInv == Phone!TypeOK /\ Named /\ Lone

LEMMA PhoneInit == ASSUME Phone!BoundsAssumption, Phone!Init PROVE PhoneInv
<1>1. Phone!TypeOK
  BY PhoneTypesInit
<1>2. Phone!Operator \notin Phones /\ Phone!Nobody \notin Phones
  BY DEF Phone!BoundsAssumption
<1>3. Named /\ Lone
  BY <1>2 DEF Phone!Init, Named, Lone, Phone!Idle
<1> QED
  BY <1>1, <1>3 DEF PhoneInv

\* A module that is loaded takes a number that nobody remembers.
LEMMA NumberIsNew ==
  ASSUME Phone!BoundsAssumption, PhoneInv, NEW n \in Phone!Numbers, modules[n] = Phone!Nobody,
         NEW p \in Phones
  PROVE  /\ modules[n] \notin Phones
         /\ (~renumbered /\ loopbacks[p] # Phone!NoModule) => loopbacks[p] # n
  BY DEF PhoneInv, Named, Phone!BoundsAssumption

\* No phone gets a module.
LEMMA NoneLoaded ==
  ASSUME PhoneInv, unsure' = unsure,
         \A n \in Phone!Numbers : modules'[n] \in Phones => modules'[n] = modules[n],
         \/ pass'.at # "loading"
         \/ pass.at = "loading" /\ pass'.sources \subseteq pass.sources /\ loopbacks' = loopbacks
  PROVE  Lone'
<1> SUFFICES ASSUME ~unsure PROVE Lone'
  BY DEF Lone
<1>1. \A p \in Phones : \A m, n \in Phone!Numbers : modules'[m] = p /\ modules'[n] = p => m = n
  BY DEF PhoneInv, Lone
<1>2. ASSUME pass'.at = "loading", NEW p \in pass'.sources, loopbacks'[p] = Phone!NoModule,
             NEW n \in Phone!Numbers
      PROVE  modules'[n] # p
  <2>1. p \in pass.sources /\ p \in Phones /\ pass.at = "loading" /\ loopbacks[p] = Phone!NoModule
    BY <1>2 DEF PhoneInv, Phone!TypeOK
  <2>2. modules[n] # p
    BY <2>1 DEF PhoneInv, Lone
  <2> QED
    BY <2>1, <2>2
<1> QED
  BY <1>1, <1>2 DEF Lone

\* The modules that are unloaded are those of the phones they are remembered for.
LEMMA Unloading ==
  ASSUME Phone!BoundsAssumption, PhoneInv, NEW Q \in SUBSET Phones,
         NEW stuck, Phone!Unload(Phone!Remembered(Q), stuck), renumbered' = renumbered,
         loopbacks' = [p \in Phones |-> IF p \in Q THEN Phone!NoModule ELSE loopbacks[p]]
  PROVE  /\ Named'
         /\ \A n \in Phone!Numbers : modules'[n] \in Phones => modules'[n] = modules[n]
<1> DEFINE ns == Phone!Remembered(Q) \ stuck
<1>1. /\ modules' = [n \in Phone!Numbers |-> IF n \in ns THEN Phone!Nobody ELSE modules[n]]
      /\ taken' = (taken \/ \E n \in ns : modules[n] = Phone!Operator)
  BY DEF Phone!Unload
<1>2. Phone!Nobody \notin Phones /\ Phone!Operator \notin Phones
  BY DEF Phone!BoundsAssumption
<1>3. ASSUME NEW n \in ns PROVE \E q \in Q : n = loopbacks[q] /\ loopbacks[q] # Phone!NoModule
  BY DEF Phone!Remembered
<1> HIDE DEF ns
<1>4. \A n \in Phone!Numbers : modules'[n] \in Phones => modules'[n] = modules[n]
  BY <1>1, <1>2
<1>5. ASSUME ~renumbered PROVE Named'
  <2>1. /\ ~taken
        /\ \A p \in Phones : loopbacks[p] # Phone!NoModule => modules[loopbacks[p]] = p
    BY <1>5 DEF PhoneInv, Named
  <2>2. \A n \in ns : modules[n] \in Q
    BY <1>3, <2>1
  <2>3. ~taken'
    BY <1>1, <1>2, <2>1, <2>2
  <2>4. ASSUME NEW p \in Phones, loopbacks'[p] # Phone!NoModule PROVE modules'[loopbacks'[p]] = p
    <3>1. p \notin Q /\ loopbacks'[p] = loopbacks[p]
      BY <2>4
    <3>2. modules[loopbacks[p]] = p /\ loopbacks[p] \in Phone!Numbers
      BY <2>1, <2>4, <3>1 DEF PhoneInv, Phone!TypeOK
    <3>3. loopbacks[p] \notin ns
      BY <2>2, <3>1, <3>2
    <3> QED
      BY <1>1, <3>1, <3>2, <3>3
  <2> QED
    BY <2>3, <2>4 DEF Named
<1> QED
  BY <1>4, <1>5 DEF Named

\* pactl names the module that it loaded for a phone.
LEMMA Loaded ==
  ASSUME Phone!BoundsAssumption, PhoneInv, NEW p \in Phones, pass.at = "loading",
         p \in pass.sources, loopbacks[p] = Phone!NoModule,
         NEW n \in Phone!Numbers, modules[n] = Phone!Nobody,
         modules' = [modules EXCEPT ![n] = p], loopbacks' = [loopbacks EXCEPT ![p] = n],
         UNCHANGED <<pass, unsure, renumbered, taken>>
  PROVE  Named' /\ Lone'
<1>1. /\ \A m \in Phone!Numbers : modules'[m] = IF m = n THEN p ELSE modules[m]
      /\ \A q \in Phones : loopbacks'[q] = IF q = p THEN n ELSE loopbacks[q]
      /\ \A q \in Phones : loopbacks[q] \in Phone!Numbers \cup {Phone!NoModule}
      /\ pass.sources \subseteq Phones
  BY DEF PhoneInv, Phone!TypeOK
<1>2. n # Phone!NoModule /\ Phone!NoModule \notin Phone!Numbers
  BY DEF Phone!Numbers, Phone!NoModule
<1>3. Named'
  <2> SUFFICES ASSUME ~renumbered, NEW q \in Phones, loopbacks'[q] # Phone!NoModule
               PROVE  modules'[loopbacks'[q]] = q
    BY DEF PhoneInv, Named
  <2>1. CASE q = p
    BY <1>1, <2>1
  <2>2. CASE q # p
    <3>1. loopbacks'[q] = loopbacks[q] /\ loopbacks[q] \in Phone!Numbers
      BY <1>1, <2>2
    <3>2. modules[loopbacks[q]] = q
      BY <3>1 DEF PhoneInv, Named
    <3>3. loopbacks[q] # n
      BY <3>1, NumberIsNew
    <3> QED
      BY <1>1, <3>1, <3>2, <3>3
  <2> QED
    BY <2>1, <2>2
<1>4. Lone'
  <2> SUFFICES ASSUME ~unsure PROVE Lone'
    BY DEF Lone
  <2>1. \A m \in Phone!Numbers : modules[m] # p
    BY DEF PhoneInv, Lone
  <2>2. ASSUME NEW q \in Phones, NEW k \in Phone!Numbers, NEW m \in Phone!Numbers,
               modules'[k] = q, modules'[m] = q
        PROVE  k = m
    <3>1. CASE q = p
      BY <1>1, <2>1, <2>2, <3>1
    <3>2. CASE q # p
      <4>1. modules[k] = q /\ modules[m] = q
        BY <1>1, <2>2, <3>2
      <4> QED
        BY <4>1 DEF PhoneInv, Lone
    <3> QED
      BY <3>1, <3>2
  <2>3. ASSUME NEW q \in pass.sources, loopbacks'[q] = Phone!NoModule, NEW m \in Phone!Numbers
        PROVE  modules'[m] # q
    <3>1. q \in Phones /\ q # p /\ loopbacks[q] = Phone!NoModule
      BY <1>1, <1>2, <2>3
    <3>2. modules[m] # q
      BY <3>1, <2>3 DEF PhoneInv, Lone
    <3> QED
      BY <1>1, <3>1, <3>2
  <2> QED
    BY <2>2, <2>3 DEF Lone
<1> QED
  BY <1>3, <1>4

LEMMA LoadKeeps ==
  ASSUME Phone!BoundsAssumption, PhoneInv, NEW p \in Phones, Phone!Load(p)
  PROVE  Named' /\ Lone'
<1>1. /\ pass.at = "loading" /\ p \in pass.sources /\ loopbacks[p] = Phone!NoModule
      /\ UNCHANGED <<renumbered, taken>>
  BY DEF Phone!Load, Phone!Wanted
<1>2. ASSUME NEW n \in Phone!Numbers, modules[n] = Phone!Nobody,
             modules' = [modules EXCEPT ![n] = p], loopbacks' = [loopbacks EXCEPT ![p] = n],
             UNCHANGED <<pass, unsure>>
      PROVE  Named' /\ Lone'
  BY <1>1, <1>2, Loaded
<1>3. ASSUME NEW n \in Phone!Numbers, modules[n] = Phone!Nobody,
             modules' = [modules EXCEPT ![n] = p], unsure' = TRUE, UNCHANGED loopbacks
      PROVE  Named' /\ Lone'
  <2>1. Lone'
    BY <1>3 DEF Lone
  <2>2. ASSUME ~renumbered, NEW q \in Phones, loopbacks[q] # Phone!NoModule
        PROVE  modules'[loopbacks[q]] = q
    <3>1. loopbacks[q] # n /\ modules[loopbacks[q]] = q /\ loopbacks[q] \in Phone!Numbers
      BY <1>3, <2>2, NumberIsNew DEF PhoneInv, Named, Phone!TypeOK
    <3> QED
      BY <1>3, <3>1 DEF PhoneInv, Phone!TypeOK
  <2>3. Named'
    BY <1>1, <1>3, <2>2 DEF PhoneInv, Named
  <2> QED
    BY <2>1, <2>3
<1>4. CASE pass' = [pass EXCEPT !.sources = @ \ {p}] /\ UNCHANGED <<modules, loopbacks, unsure>>
  <2>1. Named'
    BY <1>1, <1>4 DEF PhoneInv, Named
  <2>2. pass'.sources \subseteq pass.sources
    BY <1>4 DEF PhoneInv, Phone!TypeOK
  <2> QED
    BY <1>1, <1>4, <2>1, <2>2, NoneLoaded
<1> QED
  BY <1>2, <1>3, <1>4 DEF Phone!Load, Phone!FreeNumber

\* The bridge adopts what the list of modules shows.
LEMMA ListingKeeps ==
  ASSUME Phone!BoundsAssumption, PhoneInv, Phone!ListModules
  PROVE  Named' /\ Lone'
<1>1. /\ pass.at = "listed" /\ pass'.sources = pass.sources /\ pass.sources \subseteq Phones
      /\ UNCHANGED <<modules, renumbered, taken>>
  BY DEF Phone!ListModules, PhoneInv, Phone!TypeOK
<1>2. CASE loopbacks' = [p \in Phones |-> Phone!Adopted(p)] /\ unsure' = unsure
  <2>1. ASSUME NEW p \in Phones
        PROVE  \/ loopbacks'[p] \in Phone!Numbers /\ modules[loopbacks'[p]] = p
               \/ /\ loopbacks'[p] = loopbacks[p]
                  /\ p \in pass.sources => \A n \in Phone!Numbers : modules[n] # p
    <3>1. CASE p \in pass.sources /\ Phone!Own(p) # {}
      <4>1. Phone!Own(p) \in SUBSET Phone!Numbers
        BY DEF Phone!Own
      <4>2. PICK k \in Phone!Own(p) : \A m \in Phone!Own(p) : m <= k
        BY <3>1, <4>1, LastModule
      <4>3. Phone!Adopted(p) \in Phone!Own(p)
        BY <3>1, <4>2 DEF Phone!Adopted
      <4> QED
        BY <1>2, <4>3 DEF Phone!Own
    <3>2. CASE ~(p \in pass.sources /\ Phone!Own(p) # {})
      <4>1. loopbacks'[p] = loopbacks[p]
        BY <1>2, <3>2 DEF Phone!Adopted
      <4>2. p \in pass.sources => \A n \in Phone!Numbers : modules[n] # p
        BY <3>2 DEF Phone!Own
      <4> QED
        BY <4>1, <4>2
    <3> QED
      BY <3>1, <3>2
  <2>2. Named'
    BY <1>1, <2>1 DEF PhoneInv, Named
  <2>3. Phone!NoModule \notin Phone!Numbers
    BY DEF Phone!Numbers, Phone!NoModule
  <2>4. ASSUME NEW p \in pass.sources, loopbacks'[p] = Phone!NoModule
        PROVE  \A n \in Phone!Numbers : modules[n] # p
    BY <1>1, <2>1, <2>3, <2>4
  <2>5. Lone'
    BY <1>1, <1>2, <2>4 DEF PhoneInv, Lone
  <2> QED
    BY <2>2, <2>5
<1>3. CASE unsure' = TRUE /\ UNCHANGED loopbacks
  BY <1>1, <1>3 DEF PhoneInv, Named, Lone
<1> QED
  BY <1>2, <1>3 DEF Phone!ListModules

LEMMA PhoneKept == ASSUME Phone!BoundsAssumption, PhoneInv, Phone!Next PROVE PhoneInv'
<1>1. Phone!TypeOK'
  BY PhoneTypesKept DEF PhoneInv
<1> SUFFICES Named' /\ Lone'
  BY <1>1 DEF PhoneInv
<1>2. ASSUME NEW p \in Phones, Phone!ConnectsOrLeaves(p) PROVE Named' /\ Lone'
  BY <1>2 DEF Phone!ConnectsOrLeaves, PhoneInv, Named, Lone
<1>3. ASSUME NEW p \in Phones, Phone!Load(p) PROVE Named' /\ Lone'
  BY <1>3, LoadKeeps
<1>4. CASE Phone!OperatorLoads
  <2>1. PICK n \in Phone!Numbers :
          modules[n] = Phone!Nobody /\ modules' = [modules EXCEPT ![n] = Phone!Operator]
    BY <1>4 DEF Phone!OperatorLoads, Phone!FreeNumber
  <2>2. UNCHANGED <<loopbacks, pass, renumbered, unsure, taken>>
    BY <1>4 DEF Phone!OperatorLoads
  <2>3. \A m \in Phone!Numbers : modules'[m] = IF m = n THEN Phone!Operator ELSE modules[m]
    BY <2>1 DEF PhoneInv, Phone!TypeOK
  <2>4. Lone'
    <3>1. Phone!Operator \notin Phones
      BY DEF Phone!BoundsAssumption
    <3>2. \A m \in Phone!Numbers : modules'[m] \in Phones => modules'[m] = modules[m]
      BY <2>3, <3>1
    <3>3. pass.at = "loading" \/ pass'.at # "loading"
      BY <2>2
    <3> QED
      BY <2>2, <3>2, <3>3, NoneLoaded
  <2>5. ASSUME ~renumbered, NEW q \in Phones, loopbacks[q] # Phone!NoModule
        PROVE  modules'[loopbacks[q]] = q
    <3>1. loopbacks[q] # n /\ modules[loopbacks[q]] = q /\ loopbacks[q] \in Phone!Numbers
      BY <2>1, <2>5, NumberIsNew DEF PhoneInv, Named, Phone!TypeOK
    <3> QED
      BY <2>3, <3>1
  <2>6. Named'
    BY <2>2, <2>5 DEF PhoneInv, Named
  <2> QED
    BY <2>4, <2>6
<1>5. CASE Phone!PipeWireRestarts
  <2>1. renumbered' /\ UNCHANGED <<loopbacks, pass, unsure>>
    BY <1>5 DEF Phone!PipeWireRestarts
  <2>2. \A n \in Phone!Numbers : modules'[n] \in Phones => modules'[n] = modules[n]
    BY <1>5 DEF Phone!PipeWireRestarts, Phone!BoundsAssumption
  <2>3. pass.at = "loading" \/ pass'.at # "loading"
    BY <2>1
  <2> QED
    BY <2>1, <2>2, <2>3, NoneLoaded DEF Named
<1>6. CASE Phone!AgentDies
  BY <1>6 DEF Phone!AgentDies, Phone!Idle, PhoneInv, Named, Lone
<1>7. CASE Phone!AgentStops
  <2>1. PICK stuck : Phone!Unload(Phone!Remembered(Phones), stuck)
    BY <1>7 DEF Phone!AgentStops
  <2>2. /\ loopbacks' = [p \in Phones |-> IF p \in Phones THEN Phone!NoModule ELSE loopbacks[p]]
        /\ pass'.at # "loading" /\ UNCHANGED <<renumbered, unsure>>
    BY <1>7 DEF Phone!AgentStops, Phone!Idle
  <2> QED
    BY <2>1, <2>2, Unloading, NoneLoaded
<1>8. CASE Phone!ListSources
  BY <1>8 DEF Phone!ListSources, PhoneInv, Named, Lone
<1>9. CASE Phone!ListModules
  BY <1>9, ListingKeeps
<1>10. CASE Phone!EndLoading
  BY <1>10 DEF Phone!EndLoading, PhoneInv, Phone!TypeOK, Named, Lone
<1>11. CASE Phone!UnloadVanished
  <2> DEFINE Q == Phones \ pass.sources
  <2>1. PICK stuck : Phone!Unload(Phone!Remembered(Q), stuck)
    BY <1>11 DEF Phone!UnloadVanished
  <2>2. /\ loopbacks' = [p \in Phones |-> IF p \in Q THEN Phone!NoModule ELSE loopbacks[p]]
        /\ pass'.at # "loading" /\ UNCHANGED <<renumbered, unsure>>
    BY <1>11 DEF Phone!UnloadVanished, Phone!Idle
  <2>3. Q \in SUBSET Phones
    OBVIOUS
  <2> HIDE DEF Q
  <2> QED
    BY <2>1, <2>2, <2>3, Unloading, NoneLoaded
<1> QED
  BY <1>2, <1>3, <1>4, <1>5, <1>6, <1>7, <1>8, <1>9, <1>10, <1>11 DEF Phone!Next

LEMMA PhoneRests == ASSUME PhoneInv, UNCHANGED Phone!vars PROVE PhoneInv'
  BY DEF PhoneInv, Phone!TypeOK, Named, Lone, Phone!vars

LEMMA PhoneSafe ==
  ASSUME PhoneInv PROVE Phone!HeardOnlyOnce /\ Phone!OperatorsModulesStay
<1>1. Phone!OperatorsModulesStay
  BY DEF PhoneInv, Named, Phone!OperatorsModulesStay
<1>2. Phone!HeardOnlyOnce
  BY DEF PhoneInv, Lone, Phone!HeardOnlyOnce, Phone!Own
<1> QED
  BY <1>1, <1>2

-----------------------------------------------------------------------------
(* The reporter (reporter.py).                                              *)

LEMMA ReporterTypesInit ==
  ASSUME Reporter!BoundsAssumption, Reporter!Init PROVE Reporter!TypeOK
<1>1. previous \in [Reported -> Reporter!Values]
  BY DEF Reporter!Init, Reporter!Values
<1>2. turns \in 0..MaxTurns /\ faults \in 0..MaxReportFaults
  BY DEF Reporter!Init, Reporter!BoundsAssumption
<1> QED
  BY <1>1, <1>2 DEF Reporter!Init, Reporter!TypeOK, Reporter!Idle

LEMMA ReporterTypesKept ==
  ASSUME Reporter!BoundsAssumption, Reporter!TypeOK, Reporter!Next PROVE Reporter!TypeOK'
<1> USE DEF Reporter!TypeOK, Reporter!BoundsAssumption
<1>0. {s \in Reported : previous[s] # Reporter!Value(s \in sources)} \subseteq Reported
  OBVIOUS
<1>1. ASSUME NEW s \in Reported, Reporter!SourceChanges(s) PROVE Reporter!TypeOK'
  BY <1>1 DEF Reporter!SourceChanges
<1>2. ASSUME NEW s \in Reported, Reporter!PostSource(s) PROVE Reporter!TypeOK'
  BY <1>2 DEF Reporter!PostSource, Reporter!Store
<1>3. CASE Reporter!Collect
  BY <1>3, <1>0 DEF Reporter!Collect
<1>4. CASE Reporter!PostHealth
  BY <1>4 DEF Reporter!PostHealth
<1>5. CASE Reporter!Complete
  BY <1>5 DEF Reporter!Complete, Reporter!Idle, Reporter!Values, Reporter!Value
<1>6. CASE Reporter!BreaksOff
  <2>1. faults' \in 0..MaxReportFaults
    BY <1>6 DEF Reporter!BreaksOff, Reporter!Fault
  <2>2. shown' \subseteq Reported /\ torn' \in BOOLEAN
    <3>1. (torn \/ report.stored) \in BOOLEAN
      OBVIOUS
    <3>2. CASE torn' = (torn \/ report.stored) /\ UNCHANGED shown
      BY <3>1, <3>2
    <3>3. CASE \E s \in report.left : report.at = "sources" /\ Reporter!Store(s) /\ torn' = TRUE
      BY <3>3 DEF Reporter!Store
    <3> QED
      BY <1>6, <3>2, <3>3 DEF Reporter!BreaksOff
  <2> QED
    BY <1>6, <2>1, <2>2 DEF Reporter!BreaksOff, Reporter!Idle, Reporter!KeepPrevious
<1>7. CASE Reporter!AgentRestarts
  <2>1. faults' \in 0..MaxReportFaults
    BY <1>7 DEF Reporter!AgentRestarts, Reporter!Fault
  <2> QED
    BY <1>7, <2>1 DEF Reporter!AgentRestarts, Reporter!Idle, Reporter!Values
<1> QED
  BY <1>1, <1>2, <1>3, <1>4, <1>5, <1>6, <1>7 DEF Reporter!Next

\* What a report has yet to post differs from what was reported before it, and what it
\* need not post any more is what Core shows.
Posting ==
  /\ report.at = "idle" => ~report.stored
  /\ report.at # "idle" =>
       \A s \in Reported : IF s \in report.left
                          THEN previous[s] # Reporter!Value(s \in report.seen)
                          ELSE torn \/ (s \in shown <=> s \in report.seen)

ReporterInv == Reporter!TypeOK /\ Posting /\ Reporter!RememberedIsShown

\* Equal values were made of equal truths.
LEMMA SameValue ==
  ASSUME NEW a \in BOOLEAN, NEW b \in BOOLEAN
  PROVE  Reporter!Value(a) = Reporter!Value(b) <=> (a <=> b)
  BY DEF Reporter!Value

LEMMA ReporterInit ==
  ASSUME Reporter!BoundsAssumption, Reporter!Init PROVE ReporterInv
<1>1. Reporter!TypeOK
  BY ReporterTypesInit
<1>2. report.at = "idle" /\ ~report.stored
  BY DEF Reporter!Init, Reporter!Idle
<1>3. \A s \in Reported : previous[s] = "none"
  BY DEF Reporter!Init
<1> QED
  BY <1>1, <1>2, <1>3 DEF ReporterInv, Posting, Reporter!RememberedIsShown

\* A report begins.
LEMMA CollectKeeps ==
  ASSUME ReporterInv, Reporter!Collect
  PROVE  Posting' /\ Reporter!RememberedIsShown'
<1>1. /\ report'.at = "health" /\ report'.stored = FALSE /\ report'.seen = sources
      /\ report'.left = {s \in Reported : previous[s] # Reporter!Value(s \in sources)}
      /\ UNCHANGED <<previous, shown, torn>> /\ ~report.stored
  BY DEF Reporter!Collect, ReporterInv, Posting
<1>2. \A s \in Reported : torn \/ previous[s] = "none" \/ previous[s] = Reporter!Value(s \in shown)
  BY <1>1 DEF ReporterInv, Reporter!RememberedIsShown
<1>3. ASSUME NEW s \in Reported
      PROVE  IF s \in report'.left THEN previous[s] # Reporter!Value(s \in sources)
                                   ELSE torn \/ (s \in shown <=> s \in sources)
  <2>1. CASE previous[s] # Reporter!Value(s \in sources)
    BY <1>1, <2>1
  <2>2. CASE previous[s] = Reporter!Value(s \in sources)
    <3>1. torn \/ Reporter!Value(s \in sources) = Reporter!Value(s \in shown)
      BY <1>2, <2>2 DEF Reporter!Value
    <3> QED
      BY <1>1, <2>2, <3>1 DEF Reporter!Value
  <2> QED
    BY <2>1, <2>2
<1> QED
  BY <1>1, <1>2, <1>3 DEF Posting, Reporter!RememberedIsShown

\* One source of a report arrives.
LEMMA PostKeeps ==
  ASSUME ReporterInv, NEW s \in Reported, Reporter!PostSource(s)
  PROVE  Posting' /\ Reporter!RememberedIsShown'
<1>1. /\ report'.at = "sources" /\ report'.stored = TRUE /\ report'.seen = report.seen
      /\ report'.left = report.left \ {s} /\ report.at = "sources" /\ s \in report.left
      /\ UNCHANGED <<previous, torn>>
  BY DEF Reporter!PostSource, ReporterInv, Reporter!TypeOK
<1>2. \A q \in Reported : q \in shown' <=> IF q = s THEN q \in report.seen ELSE q \in shown
  BY DEF Reporter!PostSource, Reporter!Store
<1>3. \A q \in Reported : IF q \in report.left
                          THEN previous[q] # Reporter!Value(q \in report.seen)
                          ELSE torn \/ (q \in shown <=> q \in report.seen)
  BY <1>1 DEF ReporterInv, Posting
<1>4. Posting'
  BY <1>1, <1>2, <1>3 DEF Posting
<1>5. ASSUME NEW q \in Reported
      PROVE  \/ torn \/ previous[q] = "none"
             \/ previous[q] # Reporter!Value(q \in report.seen)
             \/ previous[q] = Reporter!Value(q \in shown')
  <2>1. CASE q \in report.left
    BY <1>3, <2>1
  <2>2. CASE q \notin report.left
    <3>1. torn \/ (q \in shown' <=> q \in report.seen)
      BY <1>1, <1>2, <1>3, <2>2
    <3>2. torn \/ Reporter!Value(q \in shown') = Reporter!Value(q \in report.seen)
      BY <3>1, SameValue
    <3> QED
      BY <3>2
  <2> QED
    BY <2>1, <2>2
<1> QED
  BY <1>1, <1>4, <1>5 DEF Reporter!RememberedIsShown

\* A report breaks off.
LEMMA BreakKeeps ==
  ASSUME ReporterInv, Reporter!BreaksOff
  PROVE  Posting' /\ Reporter!RememberedIsShown'
<1>1. report'.at = "idle" /\ ~report'.stored /\ previous' = previous
  BY DEF Reporter!BreaksOff, Reporter!Idle, Reporter!KeepPrevious
<1>2. CASE torn'
  BY <1>1, <1>2 DEF Posting, Reporter!RememberedIsShown
<1>3. CASE ~torn'
  <2>1. ~torn /\ ~report.stored /\ shown' = shown
    BY <1>3 DEF Reporter!BreaksOff
  <2>2. \A s \in Reported : previous[s] = "none" \/ previous[s] = Reporter!Value(s \in shown)
    BY <2>1 DEF ReporterInv, Reporter!RememberedIsShown
  <2> QED
    BY <1>1, <2>1, <2>2 DEF Posting, Reporter!RememberedIsShown
<1> QED
  BY <1>2, <1>3

LEMMA ReporterKept ==
  ASSUME Reporter!BoundsAssumption, ReporterInv, Reporter!Next PROVE ReporterInv'
<1>1. Reporter!TypeOK'
  BY ReporterTypesKept DEF ReporterInv
<1> SUFFICES Posting' /\ Reporter!RememberedIsShown'
  BY <1>1 DEF ReporterInv
<1>2. ASSUME NEW s \in Reported, Reporter!SourceChanges(s)
      PROVE  Posting' /\ Reporter!RememberedIsShown'
  BY <1>2 DEF Reporter!SourceChanges, ReporterInv, Posting, Reporter!RememberedIsShown
<1>3. ASSUME NEW s \in Reported, Reporter!PostSource(s)
      PROVE  Posting' /\ Reporter!RememberedIsShown'
  BY <1>3, PostKeeps
<1>4. CASE Reporter!Collect
  BY <1>4, CollectKeeps
<1>5. CASE Reporter!PostHealth
  <2>1. /\ report'.at = "sources" /\ report.at = "health" /\ report'.seen = report.seen
        /\ report'.left = report.left /\ report'.stored = report.stored
        /\ UNCHANGED <<previous, shown, torn>>
    BY <1>5 DEF Reporter!PostHealth, ReporterInv, Reporter!TypeOK
  <2> QED
    BY <2>1 DEF ReporterInv, Posting, Reporter!RememberedIsShown
<1>6. CASE Reporter!Complete
  <2>1. /\ report'.at = "idle" /\ ~report'.stored /\ UNCHANGED <<shown, torn>>
        /\ report.at # "idle" /\ report.left = {}
        /\ \A s \in Reported : previous'[s] = Reporter!Value(s \in report.seen)
    BY <1>6 DEF Reporter!Complete, Reporter!Idle
  <2>2. \A s \in Reported : torn \/ (s \in shown <=> s \in report.seen)
    BY <2>1 DEF ReporterInv, Posting
  <2>3. \A s \in Reported : torn \/ previous'[s] = Reporter!Value(s \in shown)
    BY <2>1, <2>2, SameValue
  <2> QED
    BY <2>1, <2>3 DEF Posting, Reporter!RememberedIsShown
<1>7. CASE Reporter!BreaksOff
  BY <1>7, BreakKeeps
<1>8. CASE Reporter!AgentRestarts
  <2>1. /\ report'.at = "idle" /\ ~report'.stored
        /\ \A s \in Reported : previous'[s] = "none"
    BY <1>8 DEF Reporter!AgentRestarts, Reporter!Idle
  <2> QED
    BY <2>1 DEF Posting, Reporter!RememberedIsShown
<1> QED
  BY <1>2, <1>3, <1>4, <1>5, <1>6, <1>7, <1>8 DEF Reporter!Next

LEMMA ReporterRests == ASSUME ReporterInv, UNCHANGED Reporter!vars PROVE ReporterInv'
  BY DEF ReporterInv, Reporter!TypeOK, Posting, Reporter!RememberedIsShown, Reporter!vars

-----------------------------------------------------------------------------
(* The activation gate (activation.py, activation_cli.py).                  *)

\* What is written down traces back to somebody in the room: whatever an
\* operator armed was tested, the receipt names devices that were, and an armed
\* marker names what was armed.
Justified ==
  /\ \A c \in armed : c.devices \in tested
  /\ receipt.devices # None => receipt.devices \in tested
  /\ marker.state = "armed" => marker.config \in armed

GateInv == TypeOK /\ Justified /\ SoundWasAccepted

\* A marker that is not armed names no configuration in particular; one exists,
\* since the file has one.
LEMMA AnyConfigIsConfig == ASSUME NEW c \in Configs PROVE AnyConfig \in Configs
  BY DEF AnyConfig

LEMMA GateInit == ConstantsFit /\ Init => GateInv
<1> SUFFICES ASSUME ConstantsFit, Init PROVE GateInv
  OBVIOUS
<1>1. file \in Configs /\ AnyConfig \in Configs
  BY AnyConfigIsConfig DEF Init
<1>2. TypeOK
  <2>1. marker \in [state: Unarmed \cup {"armed"}, config: Configs]
    BY <1>1 DEF Init, Marker, Unarmed
  <2>2. receipt \in [devices: Devices \cup {None}, recent: BOOLEAN]
    BY DEF Init
  <2>3. request \in [Threads -> {"idle", "fetching"}]
    BY DEF Init
  <2>4. edits \in 0..MaxEdits
    BY DEF Init, ConstantsFit
  <2> QED
    BY <1>1, <2>1, <2>2, <2>3, <2>4 DEF Init, TypeOK
<1>3. Justified /\ SoundWasAccepted
  BY DEF Init, Justified, SoundWasAccepted, Marker
<1> QED
  BY <1>2, <1>3 DEF GateInv

\* Every step keeps the types, the traces and what can be heard.
LEMMA GateKept == ConstantsFit /\ GateInv /\ [Next]_vars => GateInv'
<1> SUFFICES ASSUME ConstantsFit, GateInv, [Next]_vars PROVE GateInv'
  OBVIOUS
<1> USE DEF GateInv, Justified, SoundWasAccepted, TypeOK, ConstantsFit, Marker, Unarmed
<1>0. file.devices \in Devices /\ AnyConfig \in Configs
  BY AnyConfigIsConfig DEF Configs
<1>1. CASE Install
  BY <1>1 DEF Install, Edit
<1>2. CASE AgentRestarts
  BY <1>2 DEF AgentRestarts
<1>3. CASE AcceptanceTest
  BY <1>0, <1>3 DEF AcceptanceTest
<1>4. CASE ReceiptAges
  BY <1>4 DEF ReceiptAges
<1>5. CASE Arm
  <2>1. receipt.devices = file.devices /\ file.devices \in tested
    BY <1>0, <1>5 DEF Arm, ReceiptValid
  <2> QED
    BY <1>5, <2>1 DEF Arm
<1>6. CASE Disarm
  BY <1>0, <1>6 DEF Disarm
<1>7. CASE MarkerSpoiled
  BY <1>0, <1>7 DEF MarkerSpoiled, Edit
<1>8. ASSUME NEW t \in Threads, Play(t) PROVE GateInv'
  <2>1. loaded \in armed /\ loaded.devices \in tested
    BY <1>8 DEF Play, Allowed
  <2> QED
    BY <1>8, <2>1 DEF Play
<1>9. ASSUME NEW t \in Threads, Starts(t) PROVE GateInv'
  BY <1>9 DEF Starts
<1>10. ASSUME NEW t \in Threads, Fails(t) PROVE GateInv'
  BY <1>10 DEF Fails
<1>11. CASE Ends
  BY <1>11 DEF Ends
<1>12. CASE UNCHANGED vars
  BY <1>12 DEF vars
<1> QED
  BY <1>1, <1>2, <1>3, <1>4, <1>5, <1>6, <1>7, <1>8, <1>9, <1>10, <1>11, <1>12 DEF Next

-----------------------------------------------------------------------------
(* The room agent.                                                         *)

RoomInv ==
  AudioInv /\ VolumeInv /\ VideoInv /\ PhoneInv /\ ReporterInv /\ GateInv

\* A component rests when its variables do.
LEMMA AudioAtRest == ASSUME AudioInv, UNCHANGED audio PROVE AudioInv'
<1>1. UNCHANGED Audio!vars
  BY DEF audio, Audio!vars, Audio!state, Audio!playback, Audio!processes
<1> QED
  BY <1>1, AudioRests

LEMMA SilentAtRest == ASSUME Silent, UNCHANGED audio PROVE Silent'
<1>1. UNCHANGED Audio!vars
  BY DEF audio, Audio!vars, Audio!state, Audio!playback, Audio!processes
<1> QED
  BY <1>1, SilentRests

LEMMA VolumeAtRest == ASSUME VolumeInv, UNCHANGED volume PROVE VolumeInv'
<1>1. UNCHANGED Volume!vars
  BY DEF volume, Volume!vars, Volume!environment, Volume!pass, Volume!faults
<1> QED
  BY <1>1, VolumeRests

LEMMA VideoAtRest == ASSUME VideoInv, UNCHANGED video PROVE VideoInv'
  BY DEF VideoInv, Video!TypeOK, Reached, video

LEMMA PhoneAtRest == ASSUME PhoneInv, UNCHANGED phone PROVE PhoneInv'
  BY PhoneRests DEF phone, Phone!vars

LEMMA ReporterAtRest == ASSUME ReporterInv, UNCHANGED reporter PROVE ReporterInv'
  BY ReporterRests DEF reporter, Reporter!vars

LEMMA GateAtRest == ASSUME ConstantsFit, GateInv, UNCHANGED vars PROVE GateInv'
  BY GateKept

LEMMA RoomInitially == RoomInit => RoomInv
  BY RoomConstants, AudioInit, VolumeInit, VideoInit, PhoneInit, ReporterInit, GateInit
  DEF RoomInit, RoomInv

\* One component takes the step, the others rest.
LEMMA RoomKept ==
  RoomInv /\ [RoomNext]_<<component, audio, volume, video, phone, reporter, vars>> => RoomInv'
<1> SUFFICES ASSUME RoomInv, [RoomNext]_<<component, audio, volume, video, phone, reporter, vars>>
             PROVE  RoomInv'
  OBVIOUS
<1> USE RoomConstants DEF RoomInv
<1>1. AudioInv'
  BY AudioKept, AudioAtRest
  DEF RoomNext, AudioNext, VolumeNext, VideoNext, PhoneNext, ReporterNext, GateNext
<1>2. VolumeInv'
  BY VolumeKept, VolumeAtRest
  DEF RoomNext, AudioNext, VolumeNext, VideoNext, PhoneNext, ReporterNext, GateNext
<1>3. VideoInv'
  BY VideoKept, VideoAtRest
  DEF RoomNext, AudioNext, VolumeNext, VideoNext, PhoneNext, ReporterNext, GateNext
<1>4. PhoneInv'
  BY PhoneKept, PhoneAtRest
  DEF RoomNext, AudioNext, VolumeNext, VideoNext, PhoneNext, ReporterNext, GateNext
<1>5. ReporterInv'
  BY ReporterKept, ReporterAtRest
  DEF RoomNext, AudioNext, VolumeNext, VideoNext, PhoneNext, ReporterNext, GateNext
<1>6. GateInv'
  BY GateKept, GateAtRest
  DEF RoomNext, AudioNext, VolumeNext, VideoNext, PhoneNext, ReporterNext, GateNext
<1> QED
  BY <1>1, <1>2, <1>3, <1>4, <1>5, <1>6

LEMMA RoomInvariant == RoomSpec => []RoomInv
<1>1. RoomInit => RoomInv
  BY RoomInitially
<1>2. RoomInv /\ [RoomNext]_<<component, audio, volume, video, phone, reporter, vars>> => RoomInv'
  BY RoomKept
<1> QED
  BY <1>1, <1>2, PTL DEF RoomSpec

\* Every component of the room agent keeps the types of its variables.
THEOREM RoomTypes == RoomSpec => []TypesOK
<1>1. RoomInv => TypesOK
  BY DEF RoomInv, AudioInv, VolumeInv, VideoInv, PhoneInv, ReporterInv, GateInv, TypesOK
<1> QED
  BY <1>1, RoomInvariant, PTL

\* Whatever requests, watchers and faults do, at most one speech or announcement is left to
\* play and it is the one that is reached, and no video player runs beside the one that is
\* reached unless one did not answer in time (controls.py, youtube.py).
THEOREM OneOfEach == RoomSpec => []OnePlayback
<1>1. RoomInv => OnePlayback
  BY AudioSpeaks, VideoSafe DEF RoomInv, OnePlayback
<1> QED
  BY <1>1, RoomInvariant, PTL

\* While a speech or an announcement plays its focus is on, unless another request or the end
\* of a lifetime has taken it (controls.py).
THEOREM SpeechIsHeard == RoomSpec => []Audio!SpeechKeepsFocus
<1>1. RoomInv => Audio!SpeechKeepsFocus
  BY AudioSpeaks DEF RoomInv
<1> QED
  BY <1>1, RoomInvariant, PTL

\* When nobody but playback turns a focus on, it also leaves none behind: speech and focus match
\* (controls.py).
THEOREM FocusOfSpeech == OwnFocus => (RoomSpec => []FocusMatchesSpeech)
<1> SUFFICES ASSUME OwnFocus PROVE RoomSpec => []FocusMatchesSpeech
  OBVIOUS
<1>1. RoomInit => Silent
  BY SilentInit DEF RoomInit
<1>2. ASSUME RoomInv, Silent, [RoomNext]_<<component, audio, volume, video, phone, reporter, vars>>
      PROVE  Silent'
  BY <1>2, RoomConstants, SilentKept, SilentAtRest
  DEF RoomInv, RoomNext, AudioNext, VolumeNext, VideoNext, PhoneNext, ReporterNext, GateNext
<1>3. RoomInv /\ Silent => FocusMatchesSpeech
  BY AudioSpeaks, SilenceFalls DEF RoomInv, FocusMatchesSpeech
<1> QED
  BY <1>1, <1>2, <1>3, RoomInvariant, PTL DEF RoomSpec

\* For all volumes, priorities and changes: the volumes follow the priorities after a pass in
\* which no call failed, what was ducked can then be restored, and no stream is ever louder than
\* it began (audio_focus.py).
THEOREM VolumesFollowPriorities == RoomSpec => []VolumesFollow
<1>1. RoomInv => VolumesFollow
  BY RoomConstants, VolumeFollows DEF RoomInv, VolumesFollow
<1> QED
  BY <1>1, RoomInvariant, PTL

\* Whatever is edited, upgraded, armed, restarted or tested in between, only an agent whose
\* devices were tested and whose configuration was armed is heard (activation.py,
\* activation_cli.py).
THEOREM OnlyAcceptedSound == RoomSpec => []SoundWasAccepted
<1>1. RoomInv => SoundWasAccepted
  BY DEF RoomInv, GateInv
<1> QED
  BY <1>1, RoomInvariant, PTL

\* Whenever phones come and go and agents are stopped, killed and started, no phone is heard over
\* two loopbacks, unless a listing failed or a load was given up, and no module of the operator is
\* unloaded before PipeWire gives its number again (bluetooth.py).
THEOREM LoopbacksStayOwn == RoomSpec => []LoopbacksAreOwn
<1>1. RoomInv => LoopbacksAreOwn
  BY PhoneSafe DEF RoomInv, LoopbacksAreOwn
<1> QED
  BY <1>1, RoomInvariant, PTL

\* What the reporter takes for reported is what Core shows, through failures, lost requests and
\* restarts, unless a report broke off halfway (reporter.py).
THEOREM WhatIsReportedIsShown == RoomSpec => []ReportsAreShown
<1>1. RoomInv => ReportsAreShown
  BY DEF RoomInv, ReporterInv, ReportsAreShown
<1> QED
  BY <1>1, RoomInvariant, PTL
=============================================================================
