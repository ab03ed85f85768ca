----------------------------- MODULE Otp_proofs -----------------------------
(* Machine-checked proofs about Otp, for every number of requests and      *)
(* connections, every quota, window and limit, and every growing sequence  *)
(* of delays.                                                              *)
EXTENDS Otp, FiniteSetTheorems, TLAPS

LEMMA FinitePart ==
  ASSUME NEW T, T \subseteq Senders \/ T \subseteq Validators
  PROVE  IsFiniteSet(T) /\ Cardinality(T) \in Nat
BY OtpNames, FS_Subset, FS_CardinalityType

LEMMA FewerIn ==
  ASSUME NEW T, IsFiniteSet(T), NEW S, S \subseteq T
  PROVE  Cardinality(S) <= Cardinality(T) /\ Cardinality(S) \in Nat
BY FS_Subset, FS_CardinalityType

LEMMA LargerFacts ==
  ASSUME NEW m \in Nat, NEW n \in Nat
  PROVE  Larger(m, n) \in Nat /\ m <= Larger(m, n) /\ n <= Larger(m, n)
BY DEF Larger

LEMMA QuotaType == MAX_SENDS_PER_WINDOW \in Nat /\ MaxAttempts \in Nat
BY OtpAssumption DEF MAX_SENDS_PER_WINDOW

(* The later resend, the longer its wait.                                  *)
LEMMA DelayFacts ==
  ASSUME NEW m \in Nat, NEW n \in Nat
  PROVE  Delay(m) \in Nat /\ (0 < m /\ m <= n => Delay(m) <= Delay(n))
<1>1. Len(RESEND_DELAYS) \in DOMAIN RESEND_DELAYS /\ DOMAIN RESEND_DELAYS = 1 .. Len(RESEND_DELAYS)
  BY OtpAssumption
<1>2. \A k \in DOMAIN RESEND_DELAYS : RESEND_DELAYS[k] \in Nat
  BY OtpAssumption
<1>3. Len(RESEND_DELAYS) \in Nat
  BY OtpAssumption
<1> QED
  BY <1>1, <1>2, <1>3, DelaysGrow DEF Delay

(* What is in flight, and what counts, is a finite part of the names.      *)
LEMMA CountsAreFinite ==
  ASSUME TypeOK
  PROVE  /\ IsFiniteSet(Sending) /\ Cardinality(Sending) \in Nat
         /\ IsFiniteSet(Checking) /\ Cardinality(Checking) \in Nat
         /\ \A t : IsFiniteSet(CountedSince(t)) /\ Cardinality(CountedSince(t)) \in Nat
         /\ \A c : IsFiniteSet(Guessing(c)) /\ Cardinality(Guessing(c)) \in Nat
         /\ \A c : IsFiniteSet(Consuming(c)) /\ Cardinality(Consuming(c)) \in Nat
<1>1. saved \subseteq Senders
  BY DEF TypeOK
<1>2. \A t : CountedSince(t) \subseteq Senders
  BY <1>1 DEF CountedSince, Active
<1> QED
  BY <1>2, FinitePart DEF Sending, Checking, Guessing, Consuming

LEMMA BoundTypes == {MaxTime, ResendWindow, MaxAttempts, NoPromise} \subseteq Nat
BY OtpAssumption DEF NoPromise

(* The types, in three parts.                                              *)
PcType ==
  /\ pc \in [Senders \union Validators -> {"idle", "full", "wait", "save", "mail", "done",
                                          "guess", "consume"}]
TableType ==
  /\ consumed \subseteq saved /\ inbox \subseteq saved /\ saved \subseteq Senders
  /\ target \in [Validators -> saved \union {NoCode}]
NumberType ==
  /\ now \in 0 .. MaxTime
  /\ attempts \in [Senders -> Nat]
  /\ at \in [Senders -> 0 .. MaxTime]
  /\ sent \in [Senders -> Nat]
  /\ tried \in [Senders -> Nat] /\ opened \in [Senders -> Nat]
  /\ promised \in Nat /\ reopens \in Nat /\ crossed \in BOOLEAN
  /\ rush \in Nat /\ crowd \in Nat

LEMMA TypeParts == TypeOK <=> PcType /\ TableType /\ NumberType
BY DEF TypeOK, PcType, TableType, NumberType

LEMMA PcStep == PcType /\ [Next]_vars => PcType'
<1> SUFFICES ASSUME PcType, [Next]_vars PROVE PcType'
  OBVIOUS
<1> USE DEF Goto, PcType, table, request, history
<1>1. ASSUME NEW r \in Senders, FindOldest(r) PROVE PcType'
  BY <1>1 DEF FindOldest
<1>2. ASSUME NEW r \in Senders, CountSent(r) PROVE PcType'
  BY <1>2 DEF CountSent, Count
<1>3. ASSUME NEW r \in Senders, AwaitDelay(r) PROVE PcType'
  BY <1>3 DEF AwaitDelay
<1>4. ASSUME NEW r \in Senders, SaveCode(r) PROVE PcType'
  BY <1>4 DEF SaveCode
<1>5. ASSUME NEW r \in Senders, Mail(r) PROVE PcType'
  BY <1>5 DEF Mail
<1>6. ASSUME NEW v \in Validators, ReadCode(v) PROVE PcType'
  BY <1>6 DEF ReadCode
<1>7. ASSUME NEW v \in Validators, IncrementAttempts(v) PROVE PcType'
  BY <1>7 DEF IncrementAttempts
<1>8. ASSUME NEW v \in Validators, Consume(v) PROVE PcType'
  BY <1>8 DEF Consume
<1>9. CASE Tick
  BY <1>9 DEF Tick
<1>10. CASE UNCHANGED vars
  BY <1>10 DEF vars
<1> QED
  BY <1>1, <1>2, <1>3, <1>4, <1>5, <1>6, <1>7, <1>8, <1>9, <1>10 DEF Next, OtpRequest, OtpVerify

LEMMA TableStep == TypeOK /\ StepInv /\ [Next]_vars => TableType'
<1> SUFFICES ASSUME PcType, TableType, StepInv, [Next]_vars PROVE TableType'
  BY TypeParts
<1> USE DEF Goto, TableType, table, request, history
<1>1. ASSUME NEW r \in Senders, FindOldest(r) PROVE TableType'
  BY <1>1 DEF FindOldest
<1>2. ASSUME NEW r \in Senders, CountSent(r) PROVE TableType'
  BY <1>2 DEF CountSent, Count
<1>3. ASSUME NEW r \in Senders, AwaitDelay(r) PROVE TableType'
  BY <1>3 DEF AwaitDelay
<1>4. ASSUME NEW r \in Senders, SaveCode(r) PROVE TableType'
  BY <1>4 DEF SaveCode
<1>5. ASSUME NEW r \in Senders, Mail(r) PROVE TableType'
  BY <1>5 DEF Mail, StepInv
<1>6. ASSUME NEW v \in Validators, ReadCode(v) PROVE TableType'
  BY <1>6 DEF ReadCode, Active
<1>7. ASSUME NEW v \in Validators, IncrementAttempts(v) PROVE TableType'
  BY <1>7 DEF IncrementAttempts
<1>8. ASSUME NEW v \in Validators, Consume(v) PROVE TableType'
  BY <1>8 DEF Consume, StepInv
<1>9. CASE Tick
  BY <1>9 DEF Tick
<1>10. CASE UNCHANGED vars
  BY <1>10 DEF vars
<1> QED
  BY <1>1, <1>2, <1>3, <1>4, <1>5, <1>6, <1>7, <1>8, <1>9, <1>10 DEF Next, OtpRequest, OtpVerify

LEMMA NumberStep == TypeOK /\ StepInv /\ [Next]_vars => NumberType'
<1> SUFFICES ASSUME TypeOK, NumberType, TableType, StepInv, [Next]_vars PROVE NumberType'
  BY TypeParts
<1> USE BoundTypes DEF NumberType, table, request, history
<1>1. ASSUME NEW r \in Senders, FindOldest(r) PROVE NumberType'
  <2>1. at[r] + ResendWindow \in Nat /\ at[r] + 1 \in Nat
    OBVIOUS
  <2>2. \A c \in CountedSince(at[r]) : Leaves(c) \in Nat
    BY DEF Leaves, CountedSince, Active, TableType
  <2>3. reopens' \in Nat
    <3>1. CASE reopens' = at[r] + ResendWindow
      BY <2>1, <3>1
    <3>2. CASE \E c \in CountedSince(at[r]) : reopens' = Larger(Leaves(c), at[r] + 1)
      BY <2>1, <2>2, <3>2, LargerFacts
    <3> QED
      BY <1>1, <3>1, <3>2 DEF FindOldest
  <2> QED
    BY <1>1, <2>3 DEF FindOldest
<1>2. ASSUME NEW r \in Senders, CountSent(r) PROVE NumberType'
  <2>1. Cardinality(CountedSince(now)) \in Nat
    BY CountsAreFinite
  <2>2. Cardinality(Sending') \in Nat
    BY FinitePart DEF Sending
  <2>3. rush' \in Nat
    BY <1>2, <2>2, LargerFacts DEF CountSent, Count
  <2> QED
    BY <1>2, <2>1, <2>3 DEF CountSent, Count
<1>3. ASSUME NEW r \in Senders, AwaitDelay(r) PROVE NumberType'
  <2>1. \A c \in Active : ReadyAt(r, c) \in Nat
    BY DelayFacts DEF ReadyAt, TableType, Active
  <2> QED
    BY <1>3, <2>1 DEF AwaitDelay
<1>4. ASSUME NEW r \in Senders, SaveCode(r) PROVE NumberType'
  BY <1>4 DEF SaveCode
<1>5. ASSUME NEW r \in Senders, Mail(r) PROVE NumberType'
  BY <1>5 DEF Mail
<1>6. ASSUME NEW v \in Validators, ReadCode(v) PROVE NumberType'
  <2>1. Cardinality(Checking \union {v}) \in Nat
    BY FinitePart DEF Checking
  <2>2. crowd' \in Nat
    BY <2>1, <1>6, LargerFacts DEF ReadCode
  <2> QED
    BY <1>6, <2>2 DEF ReadCode
<1>7. ASSUME NEW v \in Validators, IncrementAttempts(v) PROVE NumberType'
  <2>1. target[v] \in Senders
    BY <1>7 DEF IncrementAttempts, StepInv, TableType
  <2> QED
    BY <1>7, <2>1 DEF IncrementAttempts
<1>8. ASSUME NEW v \in Validators, Consume(v) PROVE NumberType'
  <2>1. target[v] \in Senders
    BY <1>8 DEF Consume, StepInv, TableType
  <2> QED
    BY <1>8, <2>1 DEF Consume
<1>9. CASE Tick
  BY <1>9 DEF Tick
<1>10. CASE UNCHANGED vars
  BY <1>10 DEF vars
<1> QED
  BY <1>1, <1>2, <1>3, <1>4, <1>5, <1>6, <1>7, <1>8, <1>9, <1>10 DEF Next, OtpRequest, OtpVerify

LEMMA TypeStep == TypeOK /\ StepInv /\ [Next]_vars => TypeOK'
<1> SUFFICES ASSUME TypeOK, StepInv, [Next]_vars PROVE PcType' /\ TableType' /\ NumberType'
  BY DEF TypeOK, PcType, TableType, NumberType
<1> QED
  BY PcStep, TableStep, NumberStep, TypeParts

(* Where everybody stands, and what follows for the rows.                  *)
LEMMA StepStep == TypeOK /\ StepInv /\ [Next]_vars => StepInv'
<1> SUFFICES ASSUME PcType, TableType, NumberType, StepInv, [Next]_vars PROVE StepInv'
  BY TypeParts
<1> USE OtpNames DEF Goto, PcType, StepInv, table, request, history
<1>1. ASSUME NEW r \in Senders, FindOldest(r) PROVE StepInv'
  BY <1>1 DEF FindOldest, NumberType
<1>2. ASSUME NEW r \in Senders, CountSent(r) PROVE StepInv'
  <2>1. Cardinality(CountedSince(now)) \in Nat /\ MAX_SENDS_PER_WINDOW \in Nat
    BY CountsAreFinite, TypeParts, QuotaType
  <2>2. pc'[r] \in {"full", "wait", "save"} /\ at'[r] = now
    BY <1>2 DEF CountSent, Count, NumberType
  <2>3. pc'[r] = "wait" => 0 < sent'[r] /\ sent'[r] < MAX_SENDS_PER_WINDOW
    BY <1>2, <2>1 DEF CountSent, Count, NumberType
  <2>4. ASSUME NEW s \in Senders, s # r
        PROVE  pc'[s] = pc[s] /\ at'[s] = at[s] /\ sent'[s] = sent[s]
    BY <1>2, <2>4 DEF CountSent, Count, NumberType
  <2>5. /\ saved' = saved /\ target' = target /\ now' = now
        /\ \A v \in Validators : pc'[v] = pc[v]
    BY <1>2 DEF CountSent, Count
  <2> QED
    BY <1>2, <2>2, <2>3, <2>4, <2>5 DEF CountSent, Count, NumberType
<1>3. ASSUME NEW r \in Senders, AwaitDelay(r) PROVE StepInv'
  BY <1>3 DEF AwaitDelay, NumberType
<1>4. ASSUME NEW r \in Senders, SaveCode(r) PROVE StepInv'
  BY <1>4 DEF SaveCode, NumberType
<1>5. ASSUME NEW r \in Senders, Mail(r) PROVE StepInv'
  BY <1>5 DEF Mail
<1>6. ASSUME NEW v \in Validators, ReadCode(v) PROVE StepInv'
  BY <1>6 DEF ReadCode, TableType, Active
<1>7. ASSUME NEW v \in Validators, IncrementAttempts(v) PROVE StepInv'
  BY <1>7 DEF IncrementAttempts, TableType
<1>8. ASSUME NEW v \in Validators, Consume(v) PROVE StepInv'
  BY <1>8 DEF Consume, TableType
<1>9. CASE Tick
  BY <1>9 DEF Tick, NumberType
<1>10. CASE UNCHANGED vars
  BY <1>10 DEF vars
<1> QED
  BY <1>1, <1>2, <1>3, <1>4, <1>5, <1>6, <1>7, <1>8, <1>9, <1>10 DEF Next, OtpRequest, OtpVerify

(* Only a count adds a request to those in flight, and only a row a code   *)
(* to those that count.                                                    *)
LEMMA SenderFrame ==
  ASSUME TypeOK, StepInv, [Next]_vars, \A r \in Senders : ~CountSent(r) /\ ~SaveCode(r)
  PROVE  /\ Sending' \subseteq Sending /\ rush' = rush /\ saved' = saved
         /\ CountedSince(now)' \subseteq CountedSince(now)
         /\ Active' \subseteq Active
         /\ \A c \in saved : at'[c] = at[c]
<1> DEFINE P == /\ Sending' \subseteq Sending /\ rush' = rush /\ saved' = saved
               /\ CountedSince(now)' \subseteq CountedSince(now)
               /\ Active' \subseteq Active
               /\ \A c \in saved : at'[c] = at[c]
<1> USE OtpNames, TypeParts DEF Goto, PcType, TableType, NumberType, StepInv, Sending, CountedSince, Active, table, request, history
<1> SUFFICES P
  OBVIOUS
<1>1. ASSUME NEW r \in Senders, FindOldest(r) PROVE P
  BY <1>1 DEF FindOldest
<1>2. ASSUME NEW r \in Senders, CountSent(r) PROVE P
  BY <1>2
<1>3. ASSUME NEW r \in Senders, AwaitDelay(r) PROVE P
  <2>1. \A c \in saved : at'[c] = at[c]
    BY <1>3 DEF AwaitDelay
  <2>2. saved' = saved /\ consumed' = consumed /\ now' = now /\ rush' = rush
    BY <1>3 DEF AwaitDelay
  <2>3. Sending' \subseteq Sending
    BY <1>3 DEF AwaitDelay
  <2> QED
    BY <2>1, <2>2, <2>3
<1>4. ASSUME NEW r \in Senders, SaveCode(r) PROVE P
  BY <1>4
<1>5. ASSUME NEW r \in Senders, Mail(r) PROVE P
  BY <1>5 DEF Mail
<1>6. ASSUME NEW v \in Validators, ReadCode(v) PROVE P
  BY <1>6 DEF ReadCode
<1>7. ASSUME NEW v \in Validators, IncrementAttempts(v) PROVE P
  BY <1>7 DEF IncrementAttempts
<1>8. ASSUME NEW v \in Validators, Consume(v) PROVE P
  BY <1>8 DEF Consume
<1>9. CASE Tick
  BY <1>9, BoundTypes DEF Tick
<1>10. CASE UNCHANGED vars
  BY <1>10 DEF vars
<1> QED
  BY <1>1, <1>2, <1>3, <1>4, <1>5, <1>6, <1>7, <1>8, <1>9, <1>10 DEF Next, OtpRequest, OtpVerify

LEMMA CheckFrame ==
  ASSUME TypeOK, StepInv, [Next]_vars, \A v \in Validators : ~ReadCode(v)
  PROVE  Checking' \subseteq Checking /\ crowd' = crowd
<1> DEFINE P == Checking' \subseteq Checking /\ crowd' = crowd
<1> USE OtpNames, TypeParts DEF Goto, PcType, Checking, table, request, history
<1> SUFFICES P
  OBVIOUS
<1>1. ASSUME NEW r \in Senders, FindOldest(r) PROVE P
  BY <1>1 DEF FindOldest
<1>2. ASSUME NEW r \in Senders, CountSent(r) PROVE P
  BY <1>2 DEF CountSent, Count
<1>3. ASSUME NEW r \in Senders, AwaitDelay(r) PROVE P
  BY <1>3 DEF AwaitDelay
<1>4. ASSUME NEW r \in Senders, SaveCode(r) PROVE P
  BY <1>4 DEF SaveCode
<1>5. ASSUME NEW r \in Senders, Mail(r) PROVE P
  BY <1>5 DEF Mail
<1>6. ASSUME NEW v \in Validators, ReadCode(v) PROVE P
  BY <1>6
<1>7. ASSUME NEW v \in Validators, IncrementAttempts(v) PROVE P
  BY <1>7 DEF IncrementAttempts
<1>8. ASSUME NEW v \in Validators, Consume(v) PROVE P
  BY <1>8 DEF Consume
<1>9. CASE Tick
  BY <1>9 DEF Tick
<1>10. CASE UNCHANGED vars
  BY <1>10 DEF vars
<1> QED
  BY <1>1, <1>2, <1>3, <1>4, <1>5, <1>6, <1>7, <1>8, <1>9, <1>10 DEF Next, OtpRequest, OtpVerify

(* A request that saves its code gives its place in flight for one among   *)
(* the codes.                                                              *)
LEMMA SaveFrame ==
  ASSUME TypeOK, StepInv, NEW r \in Senders, SaveCode(r)
  PROVE  /\ r \in Sending /\ r \notin saved
         /\ Sending' = Sending \ {r} /\ rush' = rush
         /\ CountedSince(now)' \subseteq CountedSince(now) \union {r}
<1> USE OtpNames, TypeParts DEF SaveCode, Goto, PcType, TableType, StepInv
<1>1. r \in Sending /\ r \notin saved /\ rush' = rush
  BY DEF Sending
<1>2. Sending' = Sending \ {r}
  BY DEF Sending
<1>3. CountedSince(now)' \subseteq CountedSince(now) \union {r}
  BY DEF CountedSince, Active
<1> QED
  BY <1>1, <1>2, <1>3

(* A count lets one more request into flight if there is room, and sees    *)
(* all that there are.                                                     *)
LEMMA CountFrame ==
  ASSUME TypeOK, StepInv, NEW r \in Senders, CountSent(r)
  PROVE  /\ CountedSince(now)' = CountedSince(now) /\ Active' = Active
         /\ \A c \in saved : at'[c] = at[c]
         /\ r \notin Sending /\ r \notin saved
         /\ rush' = Larger(rush, Cardinality(Sending'))
         /\ \/ Sending' = Sending /\ pc'[r] = "full"
            \/ /\ Sending' = Sending \union {r}
               /\ Cardinality(CountedSince(now)) < MAX_SENDS_PER_WINDOW
               /\ at'[r] = now /\ sent'[r] = Cardinality(CountedSince(now))
<1> USE OtpNames, TypeParts DEF CountSent, Count, Goto, PcType, TableType, NumberType, StepInv, table
<1>1. r \notin saved /\ r \notin Sending
  BY DEF Sending
<1>2. \A c \in saved : at'[c] = at[c]
  BY <1>1
<1>3. CountedSince(now)' = CountedSince(now) /\ Active' = Active
  BY <1>2 DEF CountedSince, Active
<1>4. rush' = Larger(rush, Cardinality(Sending'))
  BY DEF Sending
<1>5. MAX_SENDS_PER_WINDOW \in Nat /\ Cardinality(CountedSince(now)) \in Nat
  BY QuotaType, CountsAreFinite
<1>6. \/ Sending' = Sending /\ pc'[r] = "full"
      \/ /\ Sending' = Sending \union {r}
         /\ Cardinality(CountedSince(now)) < MAX_SENDS_PER_WINDOW
         /\ at'[r] = now /\ sent'[r] = Cardinality(CountedSince(now))
  <2>1. CASE Cardinality(CountedSince(now)) >= MAX_SENDS_PER_WINDOW
    BY <2>1 DEF Sending
  <2>2. CASE ~(Cardinality(CountedSince(now)) >= MAX_SENDS_PER_WINDOW)
    <3>1. pc'[r] \in {"wait", "save"} /\ at'[r] = now /\ sent'[r] = Cardinality(CountedSince(now))
      BY <2>2
    <3>2. Sending' = Sending \union {r}
      BY <2>2, <3>1 DEF Sending
    <3> QED
      BY <2>2, <3>1, <3>2, <1>5
  <2> QED
    BY <2>1, <2>2
<1> QED
  BY <1>1, <1>2, <1>3, <1>4, <1>6

LEMMA CountStep == TypeOK /\ StepInv /\ CountInv /\ [Next]_vars => CountInv'
<1> SUFFICES ASSUME TypeOK, StepInv, CountInv, [Next]_vars PROVE CountInv'
  OBVIOUS
<1> DEFINE Counted == CountedSince(now)
<1> USE DEF CountInv
<1>1. /\ Cardinality(Counted) \in Nat /\ Cardinality(Sending) \in Nat /\ Cardinality(Checking) \in Nat
      /\ rush \in Nat /\ crowd \in Nat /\ MAX_SENDS_PER_WINDOW \in Nat
      /\ IsFiniteSet(Counted) /\ IsFiniteSet(Sending) /\ IsFiniteSet(Checking)
  BY CountsAreFinite, QuotaType DEF TypeOK
<1>2. Cardinality(Counted') \in Nat /\ Cardinality(Sending') \in Nat /\ IsFiniteSet(Sending')
  <2>1. TypeOK'
    BY TypeStep
  <2>2. Counted' \subseteq Senders /\ Sending' \subseteq Senders
    BY <2>1 DEF TypeOK, CountedSince, Active, Sending
  <2> QED
    BY <2>2, FinitePart
<1> DEFINE Room == /\ Cardinality(Sending') <= rush'
                  /\ Cardinality(Counted') + Cardinality(Sending') < MAX_SENDS_PER_WINDOW + Larger(rush', 1)
<1>3. ASSUME NEW r \in Senders, CountSent(r) PROVE Room
  <2>1. rush' \in Nat /\ rush <= rush' /\ Cardinality(Sending') <= rush'
    BY <1>3, <1>1, <1>2, CountFrame, LargerFacts
  <2>2. Counted' = Counted
    BY <1>3, CountFrame
  <2>3. CASE Sending' = Sending
    BY <2>1, <2>2, <2>3, <1>1 DEF Larger
  <2>4. CASE Cardinality(Counted) < MAX_SENDS_PER_WINDOW
    BY <2>1, <2>2, <2>4, <1>1, <1>2 DEF Larger
  <2> QED
    BY <1>3, <2>3, <2>4, CountFrame
<1>4. ASSUME NEW r \in Senders, SaveCode(r) PROVE Room
  <2>1. Cardinality(Sending') = Cardinality(Sending) - 1
    BY <1>4, <1>1, SaveFrame, FS_RemoveElement
  <2>2. Cardinality(Counted') <= Cardinality(Counted) + 1
    <3>0. /\ IsFiniteSet(Counted \union {r})
          /\ Cardinality(Counted \union {r}) = IF r \in Counted THEN Cardinality(Counted) ELSE Cardinality(Counted) + 1
      BY <1>1, FS_AddElement
    <3>1. Cardinality(Counted \union {r}) <= Cardinality(Counted) + 1
      BY <3>0, <1>1
    <3>2. Counted' \subseteq Counted \union {r}
      BY <1>4, SaveFrame
    <3>3. Cardinality(Counted') <= Cardinality(Counted \union {r})
      BY <3>0, <3>2, FewerIn
    <3>4. Cardinality(Counted \union {r}) \in Nat
      BY <3>0, FS_CardinalityType
    <3> QED
      BY <3>1, <3>3, <3>4, <1>1, <1>2
  <2> QED
    BY <2>1, <2>2, <1>1, <1>2, <1>4, SaveFrame DEF Larger
<1>5. ASSUME \A r \in Senders : ~CountSent(r) /\ ~SaveCode(r) PROVE Room
  <2>1. Sending' \subseteq Sending /\ Counted' \subseteq Counted /\ rush' = rush
    BY <1>5, SenderFrame
  <2>2. Cardinality(Sending') <= Cardinality(Sending) /\ Cardinality(Counted') <= Cardinality(Counted)
    BY <2>1, <1>1, FewerIn
  <2> QED
    <3>1. Larger(rush', 1) = Larger(rush, 1) /\ Larger(rush, 1) \in Nat
      BY <2>1, <1>1, LargerFacts
    <3> QED
      BY <2>1, <2>2, <3>1, <1>1, <1>2
<1>6. Cardinality(Checking') <= crowd'
  <2>1. ASSUME NEW v \in Validators, ReadCode(v) PROVE Cardinality(Checking') <= crowd'
    <3>1. Checking' = Checking \union {v}
      BY <2>1, OtpNames DEF ReadCode, Goto, Checking, TypeOK
    <3>2. Cardinality(Checking \union {v}) \in Nat
      BY FinitePart DEF Checking
    <3> QED
      BY <2>1, <3>1, <3>2, <1>1, LargerFacts DEF ReadCode
  <2>2. ASSUME \A v \in Validators : ~ReadCode(v) PROVE Cardinality(Checking') <= crowd'
    <3>1. Checking' \subseteq Checking /\ crowd' = crowd
      BY <2>2, CheckFrame
    <3> QED
      BY <3>1, <1>1, FewerIn
  <2> QED
    BY <2>1, <2>2
<1> QED
  BY <1>3, <1>4, <1>5, <1>6

LEMMA GuessingFrame ==
  ASSUME TypeOK, StepInv, [Next]_vars, NEW c \in Senders,
         \A v \in Validators : ~ReadCode(v) /\ ~IncrementAttempts(v)
  PROVE  Guessing(c)' = Guessing(c) /\ crowd' = crowd /\ tried' = tried /\ attempts' = attempts
<1> DEFINE P == Guessing(c)' = Guessing(c) /\ crowd' = crowd /\ tried' = tried /\ attempts' = attempts
<1> USE OtpNames, TypeParts DEF Goto, PcType, TableType, StepInv, Guessing, table, request, history
<1> SUFFICES P
  OBVIOUS
<1>1. ASSUME NEW r \in Senders, FindOldest(r) PROVE P
  BY <1>1 DEF FindOldest
<1>2. ASSUME NEW r \in Senders, CountSent(r) PROVE P
  BY <1>2 DEF CountSent, Count
<1>3. ASSUME NEW r \in Senders, AwaitDelay(r) PROVE P
  BY <1>3 DEF AwaitDelay
<1>4. ASSUME NEW r \in Senders, SaveCode(r) PROVE P
  BY <1>4 DEF SaveCode
<1>5. ASSUME NEW r \in Senders, Mail(r) PROVE P
  BY <1>5 DEF Mail
<1>6. ASSUME NEW v \in Validators, ReadCode(v) PROVE P
  BY <1>6
<1>7. ASSUME NEW v \in Validators, IncrementAttempts(v) PROVE P
  BY <1>7
<1>8. ASSUME NEW v \in Validators, Consume(v) PROVE P
  BY <1>8 DEF Consume
<1>9. CASE Tick
  BY <1>9 DEF Tick
<1>10. CASE UNCHANGED vars
  BY <1>10 DEF vars
<1> QED
  BY <1>1, <1>2, <1>3, <1>4, <1>5, <1>6, <1>7, <1>8, <1>9, <1>10 DEF Next, OtpRequest, OtpVerify

LEMMA ConsumingFrame ==
  ASSUME TypeOK, StepInv, [Next]_vars, NEW c \in Senders,
         \A v \in Validators : ~ReadCode(v) /\ ~Consume(v)
  PROVE  Consuming(c)' = Consuming(c) /\ crowd' = crowd /\ opened' = opened /\ consumed' = consumed
<1> DEFINE P == Consuming(c)' = Consuming(c) /\ crowd' = crowd /\ opened' = opened /\ consumed' = consumed
<1> USE OtpNames, TypeParts DEF Goto, PcType, TableType, StepInv, Consuming, table, request, history
<1> SUFFICES P
  OBVIOUS
<1>1. ASSUME NEW r \in Senders, FindOldest(r) PROVE P
  BY <1>1 DEF FindOldest
<1>2. ASSUME NEW r \in Senders, CountSent(r) PROVE P
  BY <1>2 DEF CountSent, Count
<1>3. ASSUME NEW r \in Senders, AwaitDelay(r) PROVE P
  BY <1>3 DEF AwaitDelay
<1>4. ASSUME NEW r \in Senders, SaveCode(r) PROVE P
  BY <1>4 DEF SaveCode
<1>5. ASSUME NEW r \in Senders, Mail(r) PROVE P
  BY <1>5 DEF Mail
<1>6. ASSUME NEW v \in Validators, ReadCode(v) PROVE P
  BY <1>6
<1>7. ASSUME NEW v \in Validators, IncrementAttempts(v) PROVE P
  BY <1>7 DEF IncrementAttempts
<1>8. ASSUME NEW v \in Validators, Consume(v) PROVE P
  BY <1>8
<1>9. CASE Tick
  BY <1>9 DEF Tick
<1>10. CASE UNCHANGED vars
  BY <1>10 DEF vars
<1> QED
  BY <1>1, <1>2, <1>3, <1>4, <1>5, <1>6, <1>7, <1>8, <1>9, <1>10 DEF Next, OtpRequest, OtpVerify

(* A validation that starts has a code with an attempt left and no owner   *)
(* yet, and is one of those at once.                                       *)
LEMMA ReadFrame ==
  ASSUME TypeOK, StepInv, CountInv, NEW v \in Validators, ReadCode(v), NEW c \in Senders
  PROVE  /\ crowd' \in Nat /\ crowd <= crowd' /\ Cardinality(Checking') <= crowd'
         /\ tried' = tried /\ attempts' = attempts /\ opened' = opened /\ consumed' = consumed
         /\ Guessing(c)' = Guessing(c) \/ (Guessing(c)' \subseteq Checking' /\ attempts[c] < MaxAttempts)
         /\ Consuming(c)' = Consuming(c) \/ (Consuming(c)' \subseteq Checking' /\ c \notin consumed)
<1> USE OtpNames, TypeParts DEF ReadCode, Goto, PcType, TableType, StepInv, table
<1>1. Checking' = Checking \union {v}
  BY DEF Checking
<1>2. Cardinality(Checking \union {v}) \in Nat /\ crowd \in Nat
  BY FinitePart DEF Checking, NumberType
<1>3. crowd' \in Nat /\ crowd <= crowd' /\ Cardinality(Checking') <= crowd'
  BY <1>1, <1>2, LargerFacts
<1>4. Guessing(c)' = Guessing(c) \/ (Guessing(c)' \subseteq Checking' /\ attempts[c] < MaxAttempts)
  <2>1. CASE target'[v] = c
    BY <2>1 DEF Guessing, Checking, Guessable, Active
  <2>2. CASE target'[v] # c
    BY <2>2 DEF Guessing
  <2> QED
    BY <2>1, <2>2
<1>5. Consuming(c)' = Consuming(c) \/ (Consuming(c)' \subseteq Checking' /\ c \notin consumed)
  <2>1. CASE target'[v] = c
    BY <2>1 DEF Consuming, Checking, Active
  <2>2. CASE target'[v] # c
    BY <2>2 DEF Consuming
  <2> QED
    BY <2>1, <2>2
<1> QED
  BY <1>3, <1>4, <1>5

LEMMA GuessStep == TypeOK /\ StepInv /\ CountInv /\ GuessInv /\ [Next]_vars => GuessInv'
<1> SUFFICES ASSUME TypeOK, StepInv, CountInv, GuessInv, [Next]_vars, NEW c \in Senders
             PROVE  tried'[c] = attempts'[c] /\ attempts'[c] + Cardinality(Guessing(c)') < MaxAttempts + Larger(crowd', 1)
  BY DEF GuessInv
<1> USE DEF GuessInv
<1>1. TypeOK' /\ CountInv'
  BY TypeStep, CountStep
<1>2. /\ attempts[c] \in Nat /\ tried[c] \in Nat /\ crowd \in Nat /\ crowd' \in Nat /\ MaxAttempts \in Nat
      /\ Cardinality(Guessing(c)) \in Nat /\ IsFiniteSet(Guessing(c))
      /\ Larger(crowd, 1) \in Nat
  BY <1>1, CountsAreFinite, LargerFacts, QuotaType DEF TypeOK
<1>3. ASSUME NEW v \in Validators, ReadCode(v) PROVE tried'[c] = attempts'[c] /\ attempts'[c] + Cardinality(Guessing(c)') < MaxAttempts + Larger(crowd', 1)
  <2>1. /\ crowd <= crowd' /\ Cardinality(Checking') <= crowd' /\ tried' = tried /\ attempts' = attempts
    BY <1>3, ReadFrame
  <2>2. CASE Guessing(c)' = Guessing(c)
    BY <2>1, <2>2, <1>2 DEF Larger
  <2>3. CASE Guessing(c)' \subseteq Checking' /\ attempts[c] < MaxAttempts
    <3>1. IsFiniteSet(Checking') /\ Cardinality(Checking') \in Nat
      BY FinitePart DEF Checking
    <3>2. Cardinality(Guessing(c)') <= Cardinality(Checking') /\ Cardinality(Guessing(c)') \in Nat
      BY <2>3, <3>1, FewerIn
    <3> QED
      BY <2>1, <2>3, <3>1, <3>2, <1>2 DEF Larger
  <2> QED
    BY <2>2, <2>3, <1>3, ReadFrame
<1>4. ASSUME NEW v \in Validators, IncrementAttempts(v) PROVE tried'[c] = attempts'[c] /\ attempts'[c] + Cardinality(Guessing(c)') < MaxAttempts + Larger(crowd', 1)
  <2>1. crowd' = crowd
    BY <1>4 DEF IncrementAttempts
  <2>2. CASE target[v] = c
    <3>1. Guessing(c)' = Guessing(c) \ {v} /\ v \in Guessing(c)
      BY <1>4, <2>2, OtpNames DEF IncrementAttempts, Goto, Guessing, TypeOK
    <3>2. Cardinality(Guessing(c)') = Cardinality(Guessing(c)) - 1
      BY <3>1, <1>2, FS_RemoveElement
    <3>3. tried'[c] = tried[c] + 1 /\ attempts'[c] = attempts[c] + 1
      BY <1>4, <2>2, <1>2 DEF IncrementAttempts, TypeOK
    <3> QED
      BY <2>1, <3>2, <3>3, <1>2
  <2>3. CASE target[v] # c
    <3>1. Guessing(c)' = Guessing(c)
      BY <1>4, <2>3, OtpNames DEF IncrementAttempts, Goto, Guessing, TypeOK
    <3>2. tried'[c] = tried[c] /\ attempts'[c] = attempts[c]
      BY <1>4, <2>3 DEF IncrementAttempts, TypeOK
    <3> QED
      BY <2>1, <3>1, <3>2, <1>2
  <2> QED
    BY <2>2, <2>3
<1>5. ASSUME \A v \in Validators : ~ReadCode(v) /\ ~IncrementAttempts(v) PROVE tried'[c] = attempts'[c] /\ attempts'[c] + Cardinality(Guessing(c)') < MaxAttempts + Larger(crowd', 1)
  <2>1. Guessing(c)' = Guessing(c) /\ crowd' = crowd /\ tried' = tried /\ attempts' = attempts
    BY <1>5, GuessingFrame
  <2> QED
    BY <2>1
<1> QED
  BY <1>3, <1>4, <1>5

LEMMA OpenStep == TypeOK /\ StepInv /\ CountInv /\ OpenInv /\ [Next]_vars => OpenInv'
<1> SUFFICES ASSUME TypeOK, StepInv, CountInv, OpenInv, [Next]_vars, NEW c \in Senders
             PROVE  (c \notin consumed' => opened'[c] = 0) /\ opened'[c] + Cardinality(Consuming(c)') <= Larger(crowd', 1)
  BY DEF OpenInv
<1> USE DEF OpenInv
<1>1. TypeOK' /\ CountInv'
  BY TypeStep, CountStep
<1>2. /\ opened[c] \in Nat /\ crowd \in Nat /\ crowd' \in Nat /\ MaxAttempts \in Nat
      /\ Cardinality(Consuming(c)) \in Nat /\ IsFiniteSet(Consuming(c))
      /\ Larger(crowd, 1) \in Nat
  BY <1>1, CountsAreFinite, LargerFacts, QuotaType DEF TypeOK
<1>3. ASSUME NEW v \in Validators, ReadCode(v) PROVE (c \notin consumed' => opened'[c] = 0) /\ opened'[c] + Cardinality(Consuming(c)') <= Larger(crowd', 1)
  <2>1. /\ crowd <= crowd' /\ Cardinality(Checking') <= crowd' /\ opened' = opened /\ consumed' = consumed
    BY <1>3, ReadFrame
  <2>2. CASE Consuming(c)' = Consuming(c)
    BY <2>1, <2>2, <1>2 DEF Larger
  <2>3. CASE Consuming(c)' \subseteq Checking' /\ c \notin consumed
    <3>1. IsFiniteSet(Checking') /\ Cardinality(Checking') \in Nat
      BY FinitePart DEF Checking
    <3>2. Cardinality(Consuming(c)') <= Cardinality(Checking') /\ Cardinality(Consuming(c)') \in Nat
      BY <2>3, <3>1, FewerIn
    <3> QED
      BY <2>1, <2>3, <3>1, <3>2, <1>2 DEF Larger
  <2> QED
    BY <2>2, <2>3, <1>3, ReadFrame
<1>4. ASSUME NEW v \in Validators, Consume(v) PROVE (c \notin consumed' => opened'[c] = 0) /\ opened'[c] + Cardinality(Consuming(c)') <= Larger(crowd', 1)
  <2>1. crowd' = crowd
    BY <1>4 DEF Consume
  <2>2. CASE target[v] = c
    <3>1. Consuming(c)' = Consuming(c) \ {v} /\ v \in Consuming(c)
      BY <1>4, <2>2, OtpNames DEF Consume, Goto, Consuming, TypeOK
    <3>2. Cardinality(Consuming(c)') = Cardinality(Consuming(c)) - 1
      BY <3>1, <1>2, FS_RemoveElement
    <3>3. opened'[c] = opened[c] + 1 /\ c \in consumed'
      BY <1>4, <2>2, <1>2 DEF Consume, TypeOK
    <3> QED
      BY <2>1, <3>2, <3>3, <1>2
  <2>3. CASE target[v] # c
    <3>1. Consuming(c)' = Consuming(c)
      BY <1>4, <2>3, OtpNames DEF Consume, Goto, Consuming, TypeOK
    <3>2. opened'[c] = opened[c] /\ (c \in consumed => c \in consumed')
      BY <1>4, <2>3 DEF Consume, TypeOK
    <3> QED
      BY <2>1, <3>1, <3>2, <1>2
  <2> QED
    BY <2>2, <2>3
<1>5. ASSUME \A v \in Validators : ~ReadCode(v) /\ ~Consume(v) PROVE (c \notin consumed' => opened'[c] = 0) /\ opened'[c] + Cardinality(Consuming(c)') <= Larger(crowd', 1)
  <2>1. Consuming(c)' = Consuming(c) /\ crowd' = crowd /\ opened' = opened /\ consumed' = consumed
    BY <1>5, ConsumingFrame
  <2> QED
    BY <2>1
<1> QED
  BY <1>3, <1>4, <1>5

(* Of requests that do not overlap, one is in flight at most.              *)
LEMMA AloneInFlight ==
  ASSUME TypeOK, CountInv, rush <= 1, NEW r \in Sending, NEW s \in Sending
  PROVE  r = s
<1> SUFFICES ASSUME r # s PROVE FALSE
  OBVIOUS
<1>1. IsFiniteSet(Sending) /\ Cardinality(Sending) \in Nat /\ rush \in Nat
  BY CountsAreFinite DEF TypeOK
<1>2. /\ IsFiniteSet(Sending \ {r})
      /\ Cardinality(Sending \ {r}) = Cardinality(Sending) - 1
  BY <1>1, FS_RemoveElement
<1>3. Cardinality(Sending \ {r}) = 0
  BY <1>1, <1>2, FS_CardinalityType DEF CountInv
<1>4. Sending \ {r} = {}
  BY <1>2, <1>3, FS_EmptySet
<1> QED
  BY <1>4

LEMMA WaitFrame ==
  ASSUME TypeOK, [Next]_vars, \A r \in Senders : ~CountSent(r) /\ ~SaveCode(r) /\ ~AwaitDelay(r)
  PROVE  /\ sent' = sent /\ promised' = promised
         /\ \A r \in Senders : pc'[r] = "wait" => pc[r] = "wait"
<1> DEFINE P == /\ sent' = sent /\ promised' = promised
               /\ \A r \in Senders : pc'[r] = "wait" => pc[r] = "wait"
<1> USE OtpNames, TypeParts DEF Goto, PcType, table, request, history
<1> SUFFICES P
  OBVIOUS
<1>1. ASSUME NEW r \in Senders, FindOldest(r) PROVE P
  BY <1>1 DEF FindOldest
<1>2. ASSUME NEW r \in Senders, CountSent(r) PROVE P
  BY <1>2
<1>3. ASSUME NEW r \in Senders, AwaitDelay(r) PROVE P
  BY <1>3
<1>4. ASSUME NEW r \in Senders, SaveCode(r) PROVE P
  BY <1>4
<1>5. ASSUME NEW r \in Senders, Mail(r) PROVE P
  BY <1>5 DEF Mail
<1>6. ASSUME NEW v \in Validators, ReadCode(v) PROVE P
  BY <1>6 DEF ReadCode
<1>7. ASSUME NEW v \in Validators, IncrementAttempts(v) PROVE P
  BY <1>7 DEF IncrementAttempts
<1>8. ASSUME NEW v \in Validators, Consume(v) PROVE P
  BY <1>8 DEF Consume
<1>9. CASE Tick
  BY <1>9 DEF Tick
<1>10. CASE UNCHANGED vars
  BY <1>10 DEF vars
<1> QED
  BY <1>1, <1>2, <1>3, <1>4, <1>5, <1>6, <1>7, <1>8, <1>9, <1>10 DEF Next, OtpRequest, OtpVerify

(* Codes that are used or leave the window keep what was promised.         *)
LEMMA KeptPromise ==
  ASSUME TypeOK, StepInv, promised' = promised, Active' \subseteq Active,
         \A c \in saved : at'[c] = at[c], NEW n, WithinPromise(n)
  PROVE  WithinPromise(n)'
BY DEF WithinPromise, Active, Delay

LEMMA RushGrows == TypeOK /\ StepInv /\ [Next]_vars => rush <= rush'
<1> SUFFICES ASSUME TypeOK, StepInv, [Next]_vars PROVE rush <= rush'
  OBVIOUS
<1>1. rush \in Nat /\ Cardinality(Sending') \in Nat
  BY FinitePart DEF Sending, TypeOK
<1>2. ASSUME NEW r \in Senders, CountSent(r) PROVE rush <= rush'
  BY <1>1, <1>2, CountFrame, LargerFacts
<1>3. ASSUME NEW r \in Senders, SaveCode(r) PROVE rush <= rush'
  BY <1>1, <1>3 DEF SaveCode
<1>4. ASSUME \A r \in Senders : ~CountSent(r) /\ ~SaveCode(r) PROVE rush <= rush'
  BY <1>1, <1>4, SenderFrame
<1> QED
  BY <1>2, <1>3, <1>4

LEMMA PromiseStep == TypeOK /\ StepInv /\ CountInv /\ PromiseInv /\ [Next]_vars => PromiseInv'
<1> DEFINE Counted == Cardinality(CountedSince(now))
          Promised(n) == WithinPromise(n)
          P == /\ \A n \in 1 .. Counted' : Promised(n)'
               /\ \A r \in Senders : pc'[r] = "wait" => Counted' <= sent'[r] /\ Promised(sent[r])'
<1> SUFFICES ASSUME TypeOK, StepInv, CountInv, PromiseInv, [Next]_vars, rush' <= 1 PROVE P
  BY DEF PromiseInv
<1>1. rush <= 1
  <2>1. rush \in Nat /\ rush' \in Nat
    BY TypeStep DEF TypeOK
  <2> QED
    BY <2>1, RushGrows
<1>2. /\ \A n \in 1 .. Counted : WithinPromise(n)
      /\ \A r \in Senders : pc[r] = "wait" => Counted <= sent[r] /\ WithinPromise(sent[r])
  BY <1>1 DEF PromiseInv
<1>3. Counted \in Nat /\ IsFiniteSet(CountedSince(now)) /\ sent \in [Senders -> Nat]
  BY CountsAreFinite DEF TypeOK
<1>4. ASSUME NEW r \in Senders, CountSent(r) PROVE P
  <2>1. /\ Counted' = Counted /\ Active' \subseteq Active
        /\ \A c \in saved : at'[c] = at[c]
        /\ promised' = promised
    BY <1>4, CountFrame DEF CountSent, Count
  <2>2. \A n \in 1 .. Counted' : WithinPromise(n)'
    BY <1>2, <2>1, KeptPromise
  <2>3. ASSUME NEW s \in Senders, pc'[s] = "wait"
        PROVE  Counted' <= sent'[s] /\ WithinPromise(sent[s])'
    <3>1. CASE s = r
      <4>1. sent'[r] = Counted /\ Counted # 0
        BY <1>4, <2>3, <3>1 DEF CountSent, Count, Goto, TypeOK
      <4>2. sent'[r] \in 1 .. Counted'
        BY <4>1, <1>3, <2>1
      <4> QED
        BY <3>1, <4>1, <4>2, <2>1, <2>2, <1>3
    <3>2. CASE s # r
      <4>1. pc[s] = "wait" /\ sent'[s] = sent[s]
        BY <1>4, <2>3, <3>2 DEF CountSent, Count, Goto, TypeOK
      <4>2. WithinPromise(sent[s])
        BY <1>2, <4>1
      <4> QED
        BY <1>2, <2>1, <4>1, <4>2, KeptPromise
    <3> QED
      BY <3>1, <3>2
  <2> QED
    BY <2>2, <2>3
<1>5. ASSUME NEW r \in Senders, SaveCode(r) PROVE P
  <2>1. promised' = NoPromise
    BY <1>5 DEF SaveCode
  <2>2. \A n : WithinPromise(n)'
    BY <2>1 DEF WithinPromise, NoPromise
  <2>3. ASSUME NEW s \in Senders, pc'[s] = "wait" PROVE FALSE
    <3>1. s # r /\ pc[s] = "wait"
      BY <1>5, <2>3 DEF SaveCode, Goto, TypeOK
    <3>2. r \in Sending /\ s \in Sending
      BY <3>1, <1>5 DEF SaveCode, Sending
    <3> QED
      BY <3>1, <3>2, <1>1, AloneInFlight
  <2> QED
    BY <2>2, <2>3
<1>6. ASSUME \A r \in Senders : ~CountSent(r) /\ ~SaveCode(r) PROVE P
  <2>1. /\ Counted' <= Counted /\ Counted' \in Nat
        /\ Active' \subseteq Active /\ \A c \in saved : at'[c] = at[c]
    BY <1>3, <1>6, SenderFrame, FewerIn
  <2>2. ASSUME \A r \in Senders : ~AwaitDelay(r) PROVE P
    <3>1. /\ sent' = sent /\ promised' = promised
          /\ \A r \in Senders : pc'[r] = "wait" => pc[r] = "wait"
      BY <1>6, <2>2, WaitFrame
    <3>2. \A n : WithinPromise(n) => WithinPromise(n)'
      BY <2>1, <3>1, KeptPromise
    <3>3. ASSUME NEW n \in 1 .. Counted' PROVE WithinPromise(n)'
      <4>1. n \in 1 .. Counted
        BY <2>1, <1>3
      <4> QED
        BY <4>1, <3>2, <1>2
    <3>4. ASSUME NEW s \in Senders, pc'[s] = "wait"
          PROVE  Counted' <= sent'[s] /\ WithinPromise(sent[s])'
      <4>1. Counted <= sent[s] /\ WithinPromise(sent[s])
        BY <3>1, <3>4, <1>2
      <4>2. WithinPromise(sent[s])'
        BY <2>1, <3>1, <4>1, KeptPromise DEF WithinPromise, Delay, Active
      <4> QED
        BY <4>1, <4>2, <3>1, <2>1, <1>3
    <3> QED
      BY <3>3, <3>4
  <2>3. ASSUME NEW r \in Senders, AwaitDelay(r) PROVE P
    <3>1. \A s \in Senders : pc'[s] # "wait"
      <4> SUFFICES ASSUME NEW s \in Senders, pc'[s] = "wait" PROVE FALSE
        OBVIOUS
      <4>1. s # r /\ pc[s] = "wait" /\ pc[r] = "wait"
        BY <2>3 DEF AwaitDelay, Goto, TypeOK
      <4>2. r \in Sending /\ s \in Sending
        BY <4>1 DEF Sending
      <4> QED
        BY <4>1, <4>2, <1>1, AloneInFlight
    <3>2. ASSUME NEW n \in 1 .. Counted' PROVE WithinPromise(n)'
      <4>1. n \in 1 .. Counted /\ n \in Nat /\ 0 < n
        BY <2>1, <1>3
      <4>2. CASE promised' = promised
        BY <4>1, <4>2, <2>1, <1>2, KeptPromise
      <4>3. CASE promised' # promised
        <5>1. PICK c \in Active : LatestActive(c) /\ promised' = ReadyAt(r, c)
          BY <2>3, <4>3 DEF AwaitDelay
        <5>2. n <= sent[r] /\ sent[r] \in Nat
          BY <4>1, <1>2, <1>3, <2>3 DEF AwaitDelay
        <5>3. Delay(n) <= Delay(sent[r]) /\ Delay(n) \in Nat /\ Delay(sent[r]) \in Nat
          BY <4>1, <5>2, DelayFacts
        <5>4. \A d \in Active : at[d] \in Nat /\ at[d] <= at[c]
          BY <5>1 DEF LatestActive, TypeOK, Active
        <5>5. \A d \in Active' : at'[d] + Delay(n) <= promised'
          BY <5>1, <5>3, <5>4, <2>1 DEF ReadyAt, Active
        <5> QED
          BY <5>5 DEF WithinPromise, Delay
      <4> QED
        BY <4>2, <4>3
    <3> QED
      BY <3>1, <3>2
  <2> QED
    BY <2>2, <2>3
<1> QED
  BY <1>4, <1>5, <1>6

LEMMA RoomStep ==
  TypeOK /\ StepInv /\ CountInv /\ PromiseInv /\ RoomInv /\ [Next]_vars => RoomInv'
<1> DEFINE Counted == Cardinality(CountedSince(now))
<1> SUFFICES ASSUME TypeOK, StepInv, CountInv, PromiseInv, RoomInv, [Next]_vars,
                    rush' <= 1, promised' # NoPromise
             PROVE  Counted' < MAX_SENDS_PER_WINDOW
  BY DEF RoomInv, NoPromise
<1>1. rush <= 1
  <2>1. rush \in Nat /\ rush' \in Nat
    BY TypeStep DEF TypeOK
  <2> QED
    BY <2>1, RushGrows
<1>2. Counted \in Nat /\ IsFiniteSet(CountedSince(now)) /\ MAX_SENDS_PER_WINDOW \in Nat
  BY CountsAreFinite, QuotaType
<1>3. ASSUME NEW r \in Senders, CountSent(r) PROVE Counted' < MAX_SENDS_PER_WINDOW
  <2>1. Counted' = Counted /\ promised' = promised
    BY <1>3, CountFrame DEF CountSent, Count
  <2> QED
    BY <2>1, <1>1 DEF RoomInv
<1>4. ASSUME NEW r \in Senders, SaveCode(r) PROVE FALSE
  BY <1>4 DEF SaveCode
<1>5. ASSUME \A r \in Senders : ~CountSent(r) /\ ~SaveCode(r)
      PROVE  Counted' < MAX_SENDS_PER_WINDOW
  <2>1. Counted' <= Counted /\ Counted' \in Nat
    BY <1>2, <1>5, SenderFrame, FewerIn
  <2>2. ASSUME NEW r \in Senders, AwaitDelay(r) PROVE Counted < MAX_SENDS_PER_WINDOW
    <3>1. Counted <= sent[r] /\ sent[r] < MAX_SENDS_PER_WINDOW /\ sent[r] \in Nat
      BY <1>1, <2>2 DEF AwaitDelay, PromiseInv, StepInv, TypeOK
    <3> QED
      BY <3>1, <1>2
  <2>3. ASSUME \A r \in Senders : ~AwaitDelay(r) PROVE Counted < MAX_SENDS_PER_WINDOW
    <3>1. promised' = promised
      BY <1>5, <2>3, WaitFrame
    <3> QED
      BY <3>1, <1>1 DEF RoomInv
  <2> QED
    BY <2>1, <2>2, <2>3, <1>2
<1> QED
  BY <1>3, <1>4, <1>5

(* A refusal that goes on still knows its instant; only the one that is    *)
(* answered announces, and only a row settles what was announced.          *)
LEMMA FullFrame ==
  ASSUME TypeOK, StepInv, [Next]_vars, \A r \in Senders : ~CountSent(r) /\ ~SaveCode(r)
  PROVE  /\ crossed' = crossed
         /\ \A r \in Senders : pc'[r] = "full" => pc[r] = "full" /\ at'[r] = at[r]
         /\ reopens' = reopens \/ \E r \in Senders : FindOldest(r)
<1> DEFINE P == /\ crossed' = crossed
                /\ \A r \in Senders : pc'[r] = "full" => pc[r] = "full" /\ at'[r] = at[r]
                /\ reopens' = reopens \/ \E r \in Senders : FindOldest(r)
<1> USE OtpNames, TypeParts DEF Goto, PcType, NumberType, table, request, history
<1> SUFFICES P
  OBVIOUS
<1>1. ASSUME NEW r \in Senders, FindOldest(r) PROVE P
  <2>1. crossed' = crossed /\ pc'[r] = "idle"
    BY <1>1 DEF FindOldest
  <2>2. \A s \in Senders : s # r => pc'[s] = pc[s] /\ at'[s] = at[s]
    BY <1>1 DEF FindOldest
  <2> QED
    BY <1>1, <2>1, <2>2
<1>2. ASSUME NEW r \in Senders, CountSent(r) PROVE P
  BY <1>2
<1>3. ASSUME NEW r \in Senders, AwaitDelay(r) PROVE P
  BY <1>3 DEF AwaitDelay
<1>4. ASSUME NEW r \in Senders, SaveCode(r) PROVE P
  BY <1>4
<1>5. ASSUME NEW r \in Senders, Mail(r) PROVE P
  BY <1>5 DEF Mail
<1>6. ASSUME NEW v \in Validators, ReadCode(v) PROVE P
  BY <1>6 DEF ReadCode, StepInv
<1>7. ASSUME NEW v \in Validators, IncrementAttempts(v) PROVE P
  BY <1>7 DEF IncrementAttempts
<1>8. ASSUME NEW v \in Validators, Consume(v) PROVE P
  BY <1>8 DEF Consume
<1>9. CASE Tick
  BY <1>9 DEF Tick
<1>10. CASE UNCHANGED vars
  BY <1>10 DEF vars
<1> QED
  BY <1>1, <1>2, <1>3, <1>4, <1>5, <1>6, <1>7, <1>8, <1>9, <1>10 DEF Next, OtpRequest, OtpVerify

(* The oldest code that was counted is not among those after it is         *)
(* announced to have left, and all of those were counted.                  *)
LEMMA RoomAnnounced ==
  ASSUME TypeOK, StepInv, NEW r \in Senders, FindOldest(r),
         Cardinality(CountedSince(at[r])) <= MAX_SENDS_PER_WINDOW
  PROVE  Cardinality(CountedAfter(reopens')) < MAX_SENDS_PER_WINDOW
<1> DEFINE found == CountedSince(at[r])
          after == CountedAfter(reopens')
<1>1. /\ at[r] \in Nat /\ ResendWindow \in Nat /\ ResendWindow > 0
      /\ \A c \in Active : at[c] \in Nat
      /\ IsFiniteSet(found) /\ Cardinality(found) \in Nat
      /\ MAX_SENDS_PER_WINDOW \in Nat /\ MAX_SENDS_PER_WINDOW > 0
  <2>1. at[r] \in Nat /\ \A c \in Active : at[c] \in Nat
    BY DEF TypeOK, Active
  <2>2. ResendWindow \in Nat /\ ResendWindow > 0
    BY OtpAssumption
  <2>3. IsFiniteSet(found) /\ Cardinality(found) \in Nat
    BY CountsAreFinite
  <2>4. MAX_SENDS_PER_WINDOW \in Nat /\ MAX_SENDS_PER_WINDOW > 0
    BY OtpAssumption DEF MAX_SENDS_PER_WINDOW
  <2> QED
    BY <2>1, <2>2, <2>3, <2>4
<1>2. CASE found = {} /\ reopens' = at[r] + ResendWindow
  <2>1. after = {}
    BY <1>1, <1>2 DEF CountedAfter, CountedSince
  <2>2. Cardinality(after) = 0
    BY <2>1, FS_EmptySet
  <2> QED
    BY <2>2, <1>1
<1>3. CASE ~(found = {} /\ reopens' = at[r] + ResendWindow)
  <2>1. PICK c \in found : /\ \A d \in found : at[c] <= at[d]
                           /\ reopens' = Larger(Leaves(c), at[r] + 1)
    BY <1>3 DEF FindOldest
  <2>2. /\ c \in Active /\ at[c] + ResendWindow >= at[r]
        /\ reopens' >= at[c] + ResendWindow /\ reopens' \in Nat
    BY <1>1, <2>1 DEF CountedSince, Larger, Leaves
  <2>3. after \subseteq found \ {c}
    BY <1>1, <2>2 DEF CountedAfter, CountedSince
  <2>4. IsFiniteSet(found \ {c}) /\ Cardinality(found \ {c}) = Cardinality(found) - 1
    BY <1>1, <2>1, FS_RemoveElement
  <2>5. Cardinality(after) <= Cardinality(found \ {c}) /\ Cardinality(after) \in Nat
    BY <2>3, <2>4, FewerIn
  <2> QED
    BY <2>4, <2>5, <1>1
<1> QED
  BY <1>2, <1>3

LEMMA ReopenStep ==
  TypeOK /\ StepInv /\ CountInv /\ ReopenInv /\ [Next]_vars => ReopenInv'
<1> DEFINE Few(r) == Cardinality(CountedSince(at[r])) <= MAX_SENDS_PER_WINDOW
          Open == Cardinality(CountedAfter(reopens)) < MAX_SENDS_PER_WINDOW
          P == /\ \A r \in Senders : pc'[r] = "full" => Few(r)'
               /\ reopens' # NoPromise => Open'
<1> SUFFICES ASSUME TypeOK, StepInv, CountInv, ReopenInv, [Next]_vars, rush' <= 1, ~crossed'
             PROVE  P
  BY DEF ReopenInv, NoPromise
<1>0. TypeOK'
  BY TypeStep
<1>1. rush <= 1
  <2>1. rush \in Nat /\ rush' \in Nat
    BY <1>0 DEF TypeOK
  <2> QED
    BY <2>1, RushGrows
<1>2. /\ MAX_SENDS_PER_WINDOW \in Nat
      /\ \A t : IsFiniteSet(CountedSince(t)) /\ Cardinality(CountedSince(t)) \in Nat
      /\ \A t : IsFiniteSet(CountedAfter(t)) /\ Cardinality(CountedAfter(t)) \in Nat
  <2>1. \A t : CountedAfter(t) \subseteq Senders
    BY DEF CountedAfter, Active, TypeOK
  <2> QED
    BY <2>1, CountsAreFinite, QuotaType, FinitePart
<1>3. ASSUME Active' \subseteq Active, \A c \in saved : at'[c] = at[c]
      PROVE  /\ \A r \in Senders : at'[r] = at[r] =>
                  /\ Cardinality(CountedSince(at[r])') \in Nat
                  /\ Cardinality(CountedSince(at[r])') <= Cardinality(CountedSince(at[r]))
             /\ reopens' = reopens =>
                  /\ Cardinality(CountedAfter(reopens)') \in Nat
                  /\ Cardinality(CountedAfter(reopens)') <= Cardinality(CountedAfter(reopens))
             /\ Cardinality(CountedAfter(reopens)') \in Nat
             /\ Cardinality(CountedAfter(reopens)') <= Cardinality(CountedAfter(reopens'))
  <2>1. \A c \in Active' : c \in Active /\ at'[c] = at[c]
    BY <1>3 DEF Active
  <2>2. \A r \in Senders : at'[r] = at[r] => CountedSince(at[r])' \subseteq CountedSince(at[r])
    BY <2>1 DEF CountedSince
  <2>3. CountedAfter(reopens)' \subseteq CountedAfter(reopens')
    BY <2>1 DEF CountedAfter
  <2>4. \A r \in Senders : at'[r] = at[r] =>
          /\ Cardinality(CountedSince(at[r])') \in Nat
          /\ Cardinality(CountedSince(at[r])') <= Cardinality(CountedSince(at[r]))
    BY <2>2, <1>2, FewerIn
  <2>5. /\ Cardinality(CountedAfter(reopens)') \in Nat
        /\ Cardinality(CountedAfter(reopens)') <= Cardinality(CountedAfter(reopens'))
    BY <2>3, <1>2, FewerIn
  <2> QED
    BY <2>4, <2>5
<1>4. ASSUME NEW r \in Senders, CountSent(r) PROVE P
  <2>1. /\ Active' \subseteq Active /\ \A c \in saved : at'[c] = at[c]
        /\ CountedSince(now)' = CountedSince(now)
    BY <1>4, CountFrame
  <2>2. reopens' = reopens /\ crossed' = crossed /\ now' = now
    BY <1>4 DEF CountSent, Count, table
  <2>3. ASSUME NEW s \in Senders, pc'[s] = "full" PROVE Few(s)'
    <3>1. CASE s = r
      <4>1. at'[r] = now
        BY <1>4 DEF CountSent, Count, TypeOK
      <4>2. CountedSince(at[r])' = CountedSince(now)
        BY <4>1, <2>1, <2>2 DEF CountedSince
      <4>3. /\ Cardinality(CountedSince(now)) + Cardinality(Sending) < MAX_SENDS_PER_WINDOW + 1
            /\ Cardinality(Sending) \in Nat
        BY <1>1, CountsAreFinite DEF CountInv, Larger, TypeOK
      <4> QED
        BY <3>1, <4>2, <4>3, <1>2
    <3>2. CASE s # r
      <4>1. pc[s] = "full" /\ at'[s] = at[s]
        BY <1>4, <2>3, <3>2 DEF CountSent, Count, Goto, TypeOK
      <4>2. Few(s)
        BY <4>1, <1>1, <2>2 DEF ReopenInv
      <4> QED
        BY <4>1, <4>2, <2>1, <1>2, <1>3
    <3> QED
      BY <3>1, <3>2
  <2>4. ASSUME reopens' # NoPromise PROVE Open'
    BY <2>4, <2>1, <2>2, <1>1, <1>2, <1>3 DEF ReopenInv
  <2> QED
    BY <2>3, <2>4
<1>5. ASSUME NEW r \in Senders, SaveCode(r) PROVE P
  <2>1. reopens' = NoPromise
    BY <1>5 DEF SaveCode
  <2>2. ASSUME NEW s \in Senders, pc'[s] = "full" PROVE FALSE
    BY <1>5, <2>2 DEF SaveCode, Goto, TypeOK
  <2> QED
    BY <2>1, <2>2
<1>6. ASSUME \A r \in Senders : ~CountSent(r) /\ ~SaveCode(r) PROVE P
  <2>1. Active' \subseteq Active /\ \A c \in saved : at'[c] = at[c]
    BY <1>6, SenderFrame
  <2>2. /\ crossed' = crossed
        /\ \A r \in Senders : pc'[r] = "full" => pc[r] = "full" /\ at'[r] = at[r]
        /\ reopens' = reopens \/ \E r \in Senders : FindOldest(r)
    BY <1>6, FullFrame
  <2>3. ASSUME NEW s \in Senders, pc'[s] = "full" PROVE Few(s)'
    <3>1. pc[s] = "full" /\ at'[s] = at[s]
      BY <2>2, <2>3
    <3>2. Few(s)
      BY <3>1, <1>1, <2>2 DEF ReopenInv
    <3> QED
      BY <3>1, <3>2, <2>1, <1>2, <1>3
  <2>4. ASSUME reopens' # NoPromise PROVE Open'
    <3>1. CASE reopens' = reopens
      BY <2>4, <3>1, <2>1, <2>2, <1>1, <1>2, <1>3 DEF ReopenInv
    <3>2. CASE \E r \in Senders : FindOldest(r)
      <4>1. PICK r \in Senders : FindOldest(r)
        BY <3>2
      <4>2. Few(r)
        BY <4>1, <1>1, <2>2 DEF FindOldest, ReopenInv
      <4>3. Cardinality(CountedAfter(reopens')) < MAX_SENDS_PER_WINDOW
        BY <4>1, <4>2, RoomAnnounced
      <4> QED
        BY <4>3, <2>1, <1>2, <1>3
    <3> QED
      BY <3>1, <3>2, <2>2
  <2> QED
    BY <2>3, <2>4
<1> QED
  BY <1>4, <1>5, <1>6

LEMMA WaitStep ==
  ASSUME Inv, [Next]_vars, NEW r \in Senders, pc[r] = "wait", pc'[r] = "idle"
  PROVE  rush > 1 \/ at[r] < promised
<1> USE OtpNames DEF Inv
<1>1. AwaitDelay(r)
  <2> DEFINE P == AwaitDelay(r) \/ pc'[r] = "wait" \/ pc'[r] \in {"mail", "done", "save"}
  <2> SUFFICES P
    OBVIOUS
  <2> USE DEF Goto, TypeOK, StepInv, table, request, history
  <2>1. ASSUME NEW s \in Senders, CountSent(s) \/ FindOldest(s) \/ SaveCode(s) \/ Mail(s)
        PROVE  P
    BY <2>1 DEF CountSent, Count, FindOldest, SaveCode, Mail
  <2>2. ASSUME NEW s \in Senders, AwaitDelay(s) PROVE P
    BY <2>2 DEF AwaitDelay
  <2>3. ASSUME NEW v \in Validators, ReadCode(v) \/ IncrementAttempts(v) \/ Consume(v) PROVE P
    BY <2>3 DEF ReadCode, IncrementAttempts, Consume
  <2>4. CASE Tick \/ UNCHANGED vars
    BY <2>4 DEF Tick, vars
  <2> QED
    BY <2>1, <2>2, <2>3, <2>4 DEF Next, OtpRequest, OtpVerify
<1>2. rush \in Nat /\ promised \in Nat /\ at[r] \in 0 .. MaxTime /\ sent[r] \in Nat
  BY DEF TypeOK
<1> SUFFICES ASSUME rush <= 1 PROVE at[r] < promised
  BY <1>2
<1>3. CASE promised = NoPromise
  BY <1>2, <1>3, BoundTypes DEF NoPromise
<1>4. CASE promised # NoPromise
  <2>1. PICK c \in Active : ReadyAt(r, c) > at[r]
    BY <1>1 DEF AwaitDelay, Goto, TypeOK
  <2>2. at[c] + Delay(sent[r]) <= promised
    BY <1>4 DEF PromiseInv, WithinPromise
  <2>3. at[c] \in Nat /\ Delay(sent[r]) \in Nat
    BY <1>2, DelayFacts DEF TypeOK, Active
  <2> QED
    BY <2>1, <2>2, <2>3, <1>2 DEF ReadyAt
<1> QED
  BY <1>3, <1>4

(* Who is refused for the quota has been neither promised a resend nor,    *)
(* by now, room.                                                           *)
LEMMA FullStep ==
  ASSUME Inv, [Next]_vars, NEW r \in Senders, pc[r] = "idle", pc'[r] = "full"
  PROVE  /\ rush > 1 \/ now < promised
         /\ rush > 1 \/ crossed \/ now <= reopens
<1> USE OtpNames DEF Inv
<1>1. CountSent(r)
  <2> DEFINE P == CountSent(r) \/ pc'[r] # "full"
  <2> SUFFICES P
    OBVIOUS
  <2> USE DEF Goto, TypeOK, StepInv, table, request, history
  <2>1. ASSUME NEW s \in Senders, FindOldest(s) \/ AwaitDelay(s) \/ SaveCode(s) \/ Mail(s)
        PROVE  P
    BY <2>1 DEF FindOldest, AwaitDelay, SaveCode, Mail
  <2>2. ASSUME NEW s \in Senders, CountSent(s) PROVE P
    BY <2>2 DEF CountSent, Count
  <2>3. ASSUME NEW v \in Validators, ReadCode(v) \/ IncrementAttempts(v) \/ Consume(v) PROVE P
    BY <2>3 DEF ReadCode, IncrementAttempts, Consume
  <2>4. CASE Tick \/ UNCHANGED vars
    BY <2>4 DEF Tick, vars
  <2> QED
    BY <2>1, <2>2, <2>3, <2>4 DEF Next, OtpRequest, OtpVerify
<1>2. /\ rush \in Nat /\ promised \in Nat /\ reopens \in Nat /\ now \in 0 .. MaxTime
      /\ \A c \in Active : at[c] \in Nat
      /\ {MaxTime, ResendWindow} \subseteq Nat /\ ResendWindow > 0
      /\ MAX_SENDS_PER_WINDOW \in Nat
  BY BoundTypes, OtpAssumption, QuotaType DEF TypeOK, Active
<1> SUFFICES ASSUME rush <= 1 PROVE now < promised /\ (crossed \/ now <= reopens)
  BY <1>2
<1>3. /\ IsFiniteSet(CountedSince(now)) /\ Cardinality(CountedSince(now)) \in Nat
      /\ ~(Cardinality(CountedSince(now)) < MAX_SENDS_PER_WINDOW)
  <2>1. IsFiniteSet(CountedSince(now)) /\ Cardinality(CountedSince(now)) \in Nat
    BY CountsAreFinite
  <2>2. pc'[r] = IF Cardinality(CountedSince(now)) >= MAX_SENDS_PER_WINDOW THEN "full"
                ELSE IF Cardinality(CountedSince(now)) = 0 THEN "save" ELSE "wait"
    BY <1>1 DEF CountSent, Count, Goto, TypeOK
  <2> QED
    BY <1>2, <2>1, <2>2
<1>4. now < promised
  <2>1. promised = NoPromise
    BY <1>3 DEF RoomInv
  <2> QED
    BY <2>1, <1>2 DEF NoPromise
<1>5. ASSUME ~crossed, now > reopens PROVE FALSE
  <2>1. reopens # NoPromise
    BY <1>2, <1>5 DEF NoPromise
  <2>2. Cardinality(CountedAfter(reopens)) < MAX_SENDS_PER_WINDOW
    BY <1>5, <2>1 DEF ReopenInv
  <2>3. CountedSince(now) \subseteq CountedAfter(reopens)
    BY <1>2, <1>5 DEF CountedSince, CountedAfter
  <2>4. CountedAfter(reopens) \subseteq Senders
    BY DEF CountedAfter, Active, TypeOK
  <2>5. IsFiniteSet(CountedAfter(reopens)) /\ Cardinality(CountedAfter(reopens)) \in Nat
    BY <2>4, FinitePart
  <2>6. Cardinality(CountedSince(now)) <= Cardinality(CountedAfter(reopens))
    BY <2>3, <2>5, FewerIn
  <2> QED
    BY <1>2, <1>3, <2>2, <2>5, <2>6
<1> QED
  BY <1>2, <1>4, <1>5

LEMMA InitInv == Init => Inv
<1> SUFFICES ASSUME Init PROVE Inv
  OBVIOUS
<1> USE OtpNames, BoundTypes DEF Init
<1>1. TypeOK
  <2>1. PcType /\ TableType
    BY DEF PcType, TableType
  <2>2. crossed \in BOOLEAN
    OBVIOUS
  <2>3. /\ {now, promised, reopens, rush, crowd} \subseteq Nat /\ now \in 0 .. MaxTime
        /\ at \in [Senders -> 0 .. MaxTime]
    OBVIOUS
  <2>4. NumberType
    BY <2>2, <2>3 DEF NumberType
  <2> QED
    BY <2>1, <2>4, TypeParts
<1>2. StepInv
  BY DEF StepInv
<1>3. /\ Sending = {} /\ Checking = {} /\ Active = {} /\ CountedSince(now) = {}
      /\ \A c : Guessing(c) = {} /\ Consuming(c) = {}
  BY DEF Sending, Checking, Active, CountedSince, Guessing, Consuming
<1>4. Cardinality({}) = 0
  BY FS_EmptySet
<1>5. CountInv /\ GuessInv /\ OpenInv
  <2>1. MaxAttempts \in Nat \ {0} /\ MAX_SENDS_PER_WINDOW \in Nat
    BY OtpAssumption, QuotaType
  <2>2. CountInv
    BY <1>3, <1>4, <2>1 DEF CountInv, Larger
  <2>3. ASSUME NEW c \in Senders
        PROVE  Cardinality(Guessing(c)) = 0 /\ Cardinality(Consuming(c)) = 0
    BY <1>3, <1>4
  <2>4. GuessInv
    BY <2>1, <2>3 DEF GuessInv, Larger
  <2>5. OpenInv
    BY <2>3 DEF OpenInv, Larger
  <2> QED
    BY <2>2, <2>4, <2>5
<1>6. PromiseInv
  BY <1>3, <1>4 DEF PromiseInv
<1>7. RoomInv /\ ReopenInv
  BY DEF RoomInv, ReopenInv
<1> QED
  BY <1>1, <1>2, <1>5, <1>6, <1>7 DEF Inv

(* A request holds its place from its count to its row, and a validation   *)
(* from its check to its count: the invariant holds in every reachable     *)
(* state.                                                                  *)
THEOREM OtpInvariance == Spec => []Inv
<1>1. Inv /\ [Next]_vars => Inv'
  BY TypeStep, StepStep, CountStep, GuessStep, OpenStep, PromiseStep, RoomStep, ReopenStep DEF Inv
<1> QED
  BY InitInv, <1>1, PTL DEF Spec

(* RequestCustomerOtp counts and stores in two statements: a window never  *)
(* has more codes than the quota and the requests that overlapped, less    *)
(* one.                                                                    *)
THEOREM QuotaHolds == Spec => []InboxQuota
<1>1. Inv => InboxQuota
  <2> SUFFICES ASSUME Inv PROVE InboxQuota
    OBVIOUS
  <2>1. /\ Cardinality(CountedSince(now)) \in Nat /\ Cardinality(Sending) \in Nat
        /\ Larger(rush, 1) \in Nat /\ MAX_SENDS_PER_WINDOW \in Nat
    BY CountsAreFinite, LargerFacts, QuotaType DEF Inv, TypeOK
  <2> QED
    BY <2>1 DEF Inv, CountInv, InboxQuota
<1> QED
  BY OtpInvariance, <1>1, PTL

(* ValidateCustomerOtp checks the attempts and counts them in two          *)
(* statements: nobody has more wrong guesses at a code than the limit and  *)
(* the validations that overlapped, less one.                              *)
THEOREM GuessesAreBounded == Spec => []GuessBudget
<1>1. Inv => GuessBudget
  <2> SUFFICES ASSUME Inv, NEW c \in Senders PROVE tried[c] <= MaxAttempts + Larger(crowd, 1) - 1
    BY DEF GuessBudget
  <2>1. /\ tried[c] \in Nat /\ Cardinality(Guessing(c)) \in Nat
        /\ Larger(crowd, 1) \in Nat /\ MaxAttempts \in Nat
    BY CountsAreFinite, LargerFacts, QuotaType DEF Inv, TypeOK
  <2> QED
    BY <2>1 DEF Inv, GuessInv
<1> QED
  BY OtpInvariance, <1>1, PTL

(* The code is consumed after it was found active: it opens as many        *)
(* sessions as validations overlapped, and one if none did.                *)
THEOREM CodesAreSpent == Spec => []SingleUse
<1>1. Inv => SingleUse
  <2> SUFFICES ASSUME Inv, NEW c \in Senders PROVE opened[c] <= Larger(crowd, 1)
    BY DEF SingleUse
  <2>1. opened[c] \in Nat /\ Cardinality(Consuming(c)) \in Nat /\ Larger(crowd, 1) \in Nat
    BY CountsAreFinite, LargerFacts DEF Inv, TypeOK
  <2> QED
    BY <2>1 DEF Inv, OpenInv
<1> QED
  BY OtpInvariance, <1>1, PTL

(* The wait that a refusal for the delay announces is over when it says:   *)
(* the customer who comes back then is sent away neither for the delay nor *)
(* for the quota, as long as requests do not overlap, for any delays that  *)
(* grow.                                                                   *)
THEOREM WaitsAreOver == Spec => WaitEnds
<1>1. Inv /\ [Next]_vars =>
        [\A r \in Senders :
           /\ pc[r] = "wait" /\ pc'[r] = "idle" => rush > 1 \/ at[r] < promised
           /\ pc[r] = "idle" /\ pc'[r] = "full" => rush > 1 \/ now < promised]_vars
  BY WaitStep, FullStep
<1> QED
  BY OtpInvariance, <1>1, PTL DEF Spec, WaitEnds

(* A refusal for the quota announces when the oldest code leaves the       *)
(* window: later than that instant the quota refuses nobody until another  *)
(* code is sent, as long as requests do not overlap.                       *)
THEOREM QuotaComesBack == Spec => QuotaReopens
<1>1. Inv /\ [Next]_vars =>
        [\A r \in Senders :
           pc[r] = "idle" /\ pc'[r] = "full" => rush > 1 \/ crossed \/ now <= reopens]_vars
  BY FullStep
<1> QED
  BY OtpInvariance, <1>1, PTL DEF Spec, QuotaReopens
=============================================================================
