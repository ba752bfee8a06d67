-------------------------- MODULE DiagnosticsProofs --------------------------
(***************************************************************************)
(* What holds of the diagnostics engine for any number of builders and     *)
(* reports, any capacity of the argument arrays and any set of built-in    *)
(* diagnostics; then of what is printed below the line of a diagnostic,    *)
(* for any line, any tab stop and any number of ranges and fix-it hints;   *)
(* and, at the end, of the text of a diagnostic, for any descriptions and  *)
(* any arguments that are good for them.                                   *)
(***************************************************************************)
EXTENDS Diagnostics, Snippets, Formatting, SharedLemmas, TLAPS, SequenceTheorems, FiniteSetTheorems

-----------------------------------------------------------------------------
(* Helpers on sequences.                                                   *)

LEMMA FunctionIsSeq ==
  ASSUME NEW S, NEW n \in Nat, NEW f \in [1 .. n -> S]
  PROVE  f \in Seq(S) /\ Len(f) = n
<1>1. f \in Seq(S)
  BY SeqDef
<1>2. DOMAIN f = 1 .. n /\ DOMAIN f = 1 .. Len(f) /\ Len(f) \in Nat
  BY <1>1, LenProperties
<1> QED
  BY <1>1, <1>2

Desc == [level : Levels, message : Text]

LEMMA LabelledSeq ==
  ASSUME NEW s \in Seq(Text), NEW l \in Levels
  PROVE  [i \in DOMAIN s |-> DiagDesc(l, s[i])] \in Seq(Desc)
<1>1. Len(s) \in Nat /\ DOMAIN s = 1 .. Len(s) /\ \A i \in DOMAIN s : s[i] \in Text
  BY LenProperties, ElementOfSeq
<1>2. [i \in DOMAIN s |-> DiagDesc(l, s[i])] \in [1 .. Len(s) -> Desc]
  BY <1>1 DEF DiagDesc, Desc
<1> QED
  BY <1>1, <1>2, FunctionIsSeq

LEMMA ReplaySeq ==
  ASSUME Buffered \in [Levels -> Seq(Text)]
  PROVE  Replay \in Seq(Desc)
<1>1. Buffered["Error"] \in Seq(Text) /\ Buffered["Note"] \in Seq(Text)
  BY DEF Levels
<1>2. "Error" \in Levels /\ "Note" \in Levels
  BY DEF Levels
<1> DEFINE E == [i \in DOMAIN Buffered["Error"] |-> DiagDesc("Error", Buffered["Error"][i])]
           N == [i \in DOMAIN Buffered["Note"] |-> DiagDesc("Note", Buffered["Note"][i])]
<1>3. E \in Seq(Desc)
  BY <1>1, <1>2, LabelledSeq
<1>4. N \in Seq(Desc)
  BY <1>1, <1>2, LabelledSeq
<1>5. Replay = E \o N
  BY DEF Replay
<1> HIDE DEF E, N
<1>6. E \o N \in Seq(Desc)
  BY <1>3, <1>4
<1> QED
  BY <1>5, <1>6

LEMMA DescriptionText ==
  ASSUME NEW id PROVE getDescription(id) \in Text
<1>1. CASE id \in BuiltinIDs
  <2>1. <<id>> \in Seq(Word)
    BY <1>1 DEF Word
  <2> QED
    BY <1>1, <2>1 DEF getDescription, Text
<1>2. CASE id \notin BuiltinIDs
  BY <1>2, EmptySeq DEF getDescription, Text
<1> QED
  BY <1>1, <1>2

LEMMA FormatText ==
  ASSUME NEW id, DiagArguments \in [1 .. MaxArguments -> Nat \X Nat],
         MaxArguments \in Nat, NEW n \in 0 .. MaxArguments
  PROVE  /\ SubSeq(DiagArguments, 1, n) \in Text
         /\ FormatDiagnostic(id, SubSeq(DiagArguments, 1, n)) \in Text
<1>1. DiagArguments \in Seq(Word)
  BY DEF Word
<1>2. Len(DiagArguments) = MaxArguments
  BY <1>1
<1>3. SubSeq(DiagArguments, 1, n) \in Seq(Word)
  BY <1>1, <1>2
<1> QED
  BY <1>3, DescriptionText DEF FormatDiagnostic, Text

LEMMA CustomID ==
  ASSUME TypeOK, NEW level \in Levels, NEW message \in Text,
         RegisterCustomDiag(level, message)
  PROVE  /\ getCustomDiagID(level, message) \in DOMAIN DiagInfo'
         /\ DiagInfo' \in Seq(Desc)
         /\ DOMAIN DiagIDs' \subseteq Desc
         /\ \A d \in DOMAIN DiagIDs' : DiagIDs'[d] \in DOMAIN DiagInfo'
<1> DEFINE id == getCustomDiagID(level, message)
           d  == DiagDesc(level, message)
<1>0. /\ DiagInfo \in Seq(Desc)
      /\ d \in Desc
      /\ DOMAIN DiagIDs \subseteq Desc
      /\ \A x \in DOMAIN DiagIDs : DiagIDs[x] \in DOMAIN DiagInfo
      /\ DOMAIN DiagInfo = 1 .. Len(DiagInfo) /\ Len(DiagInfo) \in Nat
  BY DEF TypeOK, DiagDesc, Desc
<1>r. /\ DiagInfo' = IF id > Len(DiagInfo) THEN Append(DiagInfo, d) ELSE DiagInfo
      /\ DiagIDs'  = IF id > Len(DiagInfo)
                       THEN [x \in DOMAIN DiagIDs \cup {d} |->
                               IF x = d THEN id ELSE DiagIDs[x]]
                       ELSE DiagIDs
  BY DEF RegisterCustomDiag
<1>i. id = IF d \in DOMAIN DiagIDs THEN DiagIDs[d] ELSE Len(DiagInfo) + 1
  BY DEF getCustomDiagID
<1> HIDE DEF id, d
<1>1. CASE id > Len(DiagInfo)
  <2>1. id = Len(DiagInfo) + 1
    BY <1>0, <1>i, <1>1
  <2>2. /\ DiagInfo' \in Seq(Desc)
        /\ DOMAIN DiagInfo' = 1 .. Len(DiagInfo) + 1
    BY <1>0, <1>r, <1>1
  <2> QED
    BY <1>0, <1>r, <1>1, <2>1, <2>2 DEF id
<1>2. CASE ~(id > Len(DiagInfo))
  <2>1. id \in DOMAIN DiagInfo
    BY <1>0, <1>i, <1>2
  <2> QED
    BY <1>0, <1>r, <1>2, <2>1 DEF id
<1> QED
  BY <1>1, <1>2

-----------------------------------------------------------------------------
(* Type correctness.                                                       *)

USE BoundsAssumption, IDsAssumption

LEMMA TypeInit == Init => TypeOK
<1> SUFFICES ASSUME Init PROVE TypeOK
  OBVIOUS
<1>1. Buffered \in [Levels -> Seq(Text)]
  BY EmptySeq DEF Init
<1>2. DOMAIN DiagIDs = {}
  BY DEF Init
<1>3. builder \in [Builders -> Builder]
  BY DEF Init, Builder, States
<1>4. DiagArguments \in [1 .. MaxArguments -> Nat \X Nat]
  BY DEF Init
<1> QED
  BY <1>1, <1>2, <1>3, <1>4, EmptySeq DEF Init, TypeOK

(* What changes when a client is handed a diagnostic.                      *)
LEMMA HandleType ==
  ASSUME TypeOK, NEW id \in BuiltinIDs \cup Nat, NEW level \in Levels, NEW text \in Text,
         handleDiagnostic(id, level, text)
  PROVE  /\ emitted' \in Seq(Emission)
         /\ Len(emitted') = Len(emitted) + 1
         /\ emitted'[Len(emitted) + 1] = [id |-> id, level |-> level, text |-> text]
         /\ \A i \in 1 .. Len(emitted) : emitted'[i] = emitted[i]
         /\ Buffered' \in [Levels -> Seq(Text)]
<1> DEFINE e == [id |-> id, level |-> level, text |-> text]
<1>1. e \in Emission
  BY DEF Emission
<1>2. emitted' = Append(emitted, e) /\ emitted \in Seq(Emission)
  BY DEF handleDiagnostic, TypeOK
<1> HIDE DEF e
<1>3. /\ emitted' \in Seq(Emission)
      /\ Len(emitted') = Len(emitted) + 1
      /\ emitted'[Len(emitted) + 1] = e
      /\ \A i \in 1 .. Len(emitted) : emitted'[i] = emitted[i]
  BY <1>1, <1>2
<1>4. Buffered' \in [Levels -> Seq(Text)]
  <2>1. Buffered[level] \in Seq(Text)
    BY DEF TypeOK
  <2>2. Append(Buffered[level], text) \in Seq(Text)
    BY <2>1
  <2> QED
    BY <2>2 DEF handleDiagnostic, TypeOK
<1> QED
  BY <1>3, <1>4 DEF e

(* What the destructor of an active builder hands to the client.           *)
LEMMA EmitType ==
  ASSUME TypeOK, NEW n \in 0 .. MaxArguments, CurDiagID # NoID,
         EmitCurrentDiagnostic(n)
  PROVE  /\ emitted' \in Seq(Emission)
         /\ Len(emitted') = Len(emitted) + 1
         /\ emitted'[Len(emitted) + 1].text =
              getDescription(CurDiagID) \o SubSeq(DiagArguments, 1, n)
         /\ \A i \in 1 .. Len(emitted) : emitted'[i] = emitted[i]
         /\ Buffered' \in [Levels -> Seq(Text)]
         /\ CurDiagID' = NoID
<1> DEFINE text == FormatDiagnostic(CurDiagID, SubSeq(DiagArguments, 1, n))
           level == getDiagnosticLevel(CurDiagID)
<1>1. CurDiagID \in BuiltinIDs /\ level \in Levels
  BY DEF TypeOK, getDiagnosticLevel, BuiltinIDs, Levels
<1>2. text \in Text
  BY FormatText DEF TypeOK
<1>3. handleDiagnostic(CurDiagID, level, text) /\ CurDiagID' = NoID
  BY DEF EmitCurrentDiagnostic
<1>4. text = getDescription(CurDiagID) \o SubSeq(DiagArguments, 1, n)
  BY DEF FormatDiagnostic
<1> HIDE DEF text, level
<1>5. /\ emitted' \in Seq(Emission)
      /\ Len(emitted') = Len(emitted) + 1
      /\ emitted'[Len(emitted) + 1] = [id |-> CurDiagID, level |-> level, text |-> text]
      /\ \A i \in 1 .. Len(emitted) : emitted'[i] = emitted[i]
      /\ Buffered' \in [Levels -> Seq(Text)]
  BY <1>1, <1>2, <1>3, HandleType
<1> QED
  BY <1>3, <1>4, <1>5

-----------------------------------------------------------------------------
(* The inductive invariant.  Besides the properties themselves it says     *)
(* that no builder is active while the buffer is replayed, and what the    *)
(* shared argument array holds: the arguments of the report in flight, as  *)
(* many of them as its active builder has counted.                         *)

FlushIdle == flushing # -1 => CurDiagID = NoID

ArgumentsInv ==
  \A b \in Active :
    reports[Len(reports)] =
      getDescription(CurDiagID) \o SubSeq(DiagArguments, 1, builder[b].NumArgs)

IInv == /\ TypeOK /\ OneInFlight /\ EmittedOnce
        /\ FlushIdle /\ ArgumentsInv /\ SaysWhatWasReported

LEMMA Counts ==
  ASSUME IInv
  PROVE  /\ Len(emitted) \in Nat /\ DOMAIN emitted = 1 .. Len(emitted)
         /\ Len(reports) \in Nat /\ DOMAIN reports = 1 .. Len(reports)
         /\ CurDiagID # NoID => Len(reports) = Len(emitted) + 1
         /\ CurDiagID = NoID => Len(reports) = Len(emitted)
         /\ CurDiagID # NoID => CurDiagID \in BuiltinIDs
BY LenProperties DEF IInv, TypeOK, EmittedOnce

LEMMA ReportStep ==
  ASSUME IInv, NEW b \in Builders, NEW id \in BuiltinIDs, Report(b, id)
  PROVE  IInv'
<1> USE DEF IInv
<1>0. id # NoID /\ CurDiagID = NoID /\ CurDiagID' = id /\ Active = {}
  BY DEF Report, OneInFlight
<1>1. /\ builder' = [builder EXCEPT ![b] = [state |-> "active", NumArgs |-> 0]]
      /\ builder \in [Builders -> Builder]
      /\ [state |-> "active", NumArgs |-> 0] \in Builder
  BY DEF Report, TypeOK, Builder, States
<1>2. builder' \in [Builders -> Builder] /\ Active' = {b} /\ builder'[b].NumArgs = 0
  BY <1>0, <1>1 DEF Active
<1>3. /\ reports \in Seq(Text)
      /\ reports' = Append(reports, getDescription(id))
      /\ getDescription(id) \in Text
  BY DescriptionText DEF Report, TypeOK
<1>4. /\ reports' \in Seq(Text) /\ Len(reports') = Len(reports) + 1
      /\ reports'[Len(reports) + 1] = getDescription(id)
      /\ \A i \in 1 .. Len(reports) : reports'[i] = reports[i]
  BY <1>3
<1>5. TypeOK'
  BY <1>0, <1>2, <1>4 DEF TypeOK, Report, unchangedIDs, Replay
<1>6. OneInFlight' /\ FlushIdle'
  BY <1>0, <1>2 DEF OneInFlight, Report, FlushIdle
<1>7. EmittedOnce'
  BY <1>0, <1>4, Counts DEF EmittedOnce, Report
<1>8. ArgumentsInv'
  <2>1. SubSeq(DiagArguments', 1, 0) = << >>
    BY SubSeqEmpty
  <2>2. getDescription(id) \o << >> = getDescription(id)
    BY <1>3, ConcatEmptySeq DEF Text
  <2>3. getDescription(CurDiagID)' = getDescription(id)
    BY <1>0 DEF getDescription
  <2>4. reports'[Len(reports')] = getDescription(id)
    BY <1>4
  <2> QED
    BY <1>2, <2>1, <2>2, <2>3, <2>4 DEF ArgumentsInv
<1>9. SaysWhatWasReported'
  BY <1>0, <1>4, Counts DEF SaysWhatWasReported, Report
<1> QED
  BY <1>5, <1>6, <1>7, <1>8, <1>9

LEMMA AddStep ==
  ASSUME IInv, NEW b \in Builders, AddTaggedVal(b)
  PROVE  IInv'
<1> USE DEF IInv
<1> DEFINE n == builder[b].NumArgs + 1
           r == Len(reports)
           arg == <<r, Len(reports[r])>>
<1>0. /\ builder \in [Builders -> Builder] /\ builder[b] \in Builder
      /\ builder[b].state = "active" /\ n \in 1 .. MaxArguments
      /\ CurDiagID # NoID /\ CurDiagID' = CurDiagID /\ Active = {b}
  <2>1. /\ builder[b].state = "active" /\ n <= MaxArguments
        /\ CurDiagID' = CurDiagID
    BY DEF AddTaggedVal
  <2>2. builder \in [Builders -> Builder] /\ builder[b] \in Builder
    BY DEF TypeOK
  <2>3. n \in 1 .. MaxArguments
    BY <2>1, <2>2 DEF Builder
  <2>4. CurDiagID # NoID /\ Active = {b}
    BY <2>1 DEF OneInFlight, Active
  <2> QED
    BY <2>1, <2>2, <2>3, <2>4
<1>1. /\ r \in DOMAIN reports /\ reports[r] \in Text /\ reports \in Seq(Text)
      /\ r = Len(emitted) + 1 /\ r \in Nat
  BY <1>0, Counts, ElementOfSeq DEF TypeOK
<1>2. arg \in Nat \X Nat /\ arg \in Word
  BY <1>1, LenProperties DEF Text, Word
<1>3. /\ DiagArguments' = [DiagArguments EXCEPT ![n] = arg]
      /\ builder' = [builder EXCEPT ![b].NumArgs = n]
      /\ reports' = [reports EXCEPT ![r] = Append(reports[r], arg)]
      /\ UNCHANGED <<Client, Buffered, flushing, emitted>>
      /\ UNCHANGED <<DiagInfo, DiagIDs>>
  BY DEF AddTaggedVal, unchangedIDs
<1>a. DiagArguments \in [1 .. MaxArguments -> Nat \X Nat]
  BY DEF TypeOK
<1> HIDE DEF n, r, arg
<1>4. /\ builder' \in [Builders -> Builder] /\ builder'[b].NumArgs = n
      /\ Active' = {b}
  BY <1>0, <1>3 DEF Builder, Active
<1>5. DiagArguments' \in [1 .. MaxArguments -> Nat \X Nat]
  BY <1>0, <1>2, <1>3, <1>a
<1>6. /\ Append(reports[r], arg) \in Text
      /\ Append(reports[r], arg) = reports[r] \o <<arg>>
  <2>1. reports[r] \in Seq(Word) /\ arg \in Word
    BY <1>1, <1>2 DEF Text
  <2> DEFINE s == reports[r]
  <2> HIDE DEF s
  <2>2. s \in Seq(Word)
    BY <2>1 DEF s
  <2>3. Append(s, arg) \in Seq(Word) /\ Append(s, arg) = s \o <<arg>>
    BY <2>1, <2>2, AppendProperties, AppendIsConcat
  <2> QED
    BY <2>3 DEF s, Text
<1>7. /\ reports' \in Seq(Text) /\ Len(reports') = Len(reports)
      /\ reports'[r] = Append(reports[r], arg)
      /\ \A i \in 1 .. Len(reports) : i # r => reports'[i] = reports[i]
  BY <1>1, <1>3, <1>6, ExceptSeq DEF r
<1>8. TypeOK'
  BY <1>0, <1>3, <1>4, <1>5, <1>7 DEF TypeOK
<1>9. OneInFlight' /\ FlushIdle' /\ EmittedOnce'
  BY <1>0, <1>3, <1>4, <1>7 DEF OneInFlight, FlushIdle, EmittedOnce
<1>10. ArgumentsInv'
  <2> DEFINE old == SubSeq(DiagArguments, 1, n - 1)
             new == SubSeq(DiagArguments', 1, n)
  <2>1. reports[r] = getDescription(CurDiagID) \o old
    <3>1. reports[r] = getDescription(CurDiagID)
                         \o SubSeq(DiagArguments, 1, builder[b].NumArgs)
      BY <1>0 DEF ArgumentsInv, r
    <3>2. builder[b].NumArgs = n - 1
      BY <1>0 DEF n, Builder
    <3> QED
      BY <3>1, <3>2
  <2>2. new = old \o <<arg>>
    <3>1. DiagArguments \in Seq(Word) /\ Len(DiagArguments) = MaxArguments
      BY <1>a, FunctionIsSeq DEF Word
    <3>2. DiagArguments' \in Seq(Word) /\ Len(DiagArguments') = MaxArguments
      BY <1>5, FunctionIsSeq DEF Word
    <3>3. new = SubSeq(DiagArguments', 1, n - 1) \o <<DiagArguments'[n]>>
      BY <1>0, <3>2, SubSeqRecursiveSecond
    <3>4. DiagArguments'[n] = arg
      BY <1>0, <1>3, <1>a
    <3>5. SubSeq(DiagArguments', 1, n - 1) = old
      <4>1. \A i \in 1 .. n - 1 : /\ DiagArguments[i] \in Word
                                  /\ DiagArguments'[i] = DiagArguments[i]
        BY <1>0, <1>3, <1>a DEF Word
      <4>2. n - 1 \in Int /\ 1 \in Int
        BY <1>0
      <4> QED
        BY <4>1, <4>2, SubSeqProperties, SeqEqual
    <3> QED
      BY <3>3, <3>4, <3>5
  <2>3. getDescription(CurDiagID) \in Seq(Word) /\ old \in Seq(Word) /\ <<arg>> \in Seq(Word)
    <3>1. n - 1 \in 0 .. MaxArguments /\ MaxArguments \in Nat
      BY <1>0
    <3>2. old \in Text /\ getDescription(CurDiagID) \in Text
      BY <3>1, <1>a, FormatText, DescriptionText
    <3>3. <<arg>> \in Seq(Word)
      BY <1>2
    <3> QED
      BY <3>2, <3>3 DEF Text
  <2>4. reports'[r] = getDescription(CurDiagID) \o new
    <3> HIDE DEF old, new
    <3>1. (getDescription(CurDiagID) \o old) \o <<arg>>
            = getDescription(CurDiagID) \o (old \o <<arg>>)
      BY <2>3, ConcatAssociative
    <3> QED
      BY <1>6, <1>7, <2>1, <2>2, <3>1
  <2>5. getDescription(CurDiagID)' = getDescription(CurDiagID)
    BY <1>0 DEF getDescription
  <2>6. Len(reports') = r
    BY <1>7 DEF r
  <2> QED
    BY <1>4, <2>4, <2>5, <2>6 DEF ArgumentsInv
<1>11. SaysWhatWasReported'
  BY <1>1, <1>3, <1>7, Counts DEF SaysWhatWasReported, r
<1> QED
  BY <1>8, <1>9, <1>10, <1>11

LEMMA CopyStep ==
  ASSUME IInv, NEW b \in Builders, NEW c \in Builders, CopyBuilder(b, c)
  PROVE  IInv'
<1> USE DEF IInv
<1>1. /\ builder \in [Builders -> Builder] /\ b # c
      /\ builder' = [builder EXCEPT ![b].state = "cleared", ![c] = builder[b]]
      /\ UNCHANGED <<CurDiagID, DiagArguments, Client, Buffered, flushing, reports, emitted>>
      /\ UNCHANGED <<DiagInfo, DiagIDs>>
      /\ builder[c].state = "none"
  BY DEF CopyBuilder, TypeOK, unchangedIDs
<1>2. /\ builder' \in [Builders -> Builder]
      /\ builder'[c] = builder[b] /\ builder'[b].state = "cleared"
      /\ \A x \in Builders \ {b, c} : builder'[x] = builder[x]
  BY <1>1 DEF Builder, States
<1>3. TypeOK'
  BY <1>1, <1>2 DEF TypeOK
<1>4. /\ b \in Active => Active' = (Active \ {b}) \cup {c}
      /\ b \notin Active => Active' = Active
  BY <1>1, <1>2 DEF Active
<1>5. OneInFlight' /\ FlushIdle' /\ EmittedOnce' /\ SaysWhatWasReported'
  BY <1>1, <1>4 DEF OneInFlight, FlushIdle, EmittedOnce, SaysWhatWasReported, Active
<1>6. ArgumentsInv'
  <2>1. getDescription(CurDiagID)' = getDescription(CurDiagID)
    BY <1>1 DEF getDescription
  <2>2. \A x \in Active' : \E y \in Active : builder'[x].NumArgs = builder[y].NumArgs
    BY <1>1, <1>2, <1>4 DEF Active
  <2> QED
    BY <1>1, <2>1, <2>2 DEF ArgumentsInv
<1> QED
  BY <1>3, <1>5, <1>6

LEMMA DestroyStep ==
  ASSUME IInv, NEW b \in Builders, DestroyBuilder(b)
  PROVE  IInv'
<1> USE DEF IInv
<1>1. /\ builder \in [Builders -> Builder]
      /\ builder' = [builder EXCEPT ![b].state = "none"]
      /\ UNCHANGED <<DiagArguments, Client, flushing, reports, DiagInfo, DiagIDs>>
  BY DEF DestroyBuilder, TypeOK, unchangedIDs
<1>2. builder' \in [Builders -> Builder] /\ Active' = Active \ {b}
      /\ \A x \in Active' : builder'[x] = builder[x]
  BY <1>1 DEF Builder, States, Active
<1>3. CASE builder[b].state = "active" /\ EmitCurrentDiagnostic(builder[b].NumArgs)
  <2> DEFINE n == builder[b].NumArgs
  <2>1. /\ b \in Active /\ CurDiagID # NoID /\ Active = {b} /\ n \in 0 .. MaxArguments
        /\ CurDiagID \in BuiltinIDs
    BY <1>1, <1>3, Counts DEF Active, OneInFlight, Builder
  <2>2. /\ emitted' \in Seq(Emission)
        /\ Len(emitted') = Len(emitted) + 1
        /\ emitted'[Len(emitted) + 1].text =
             getDescription(CurDiagID) \o SubSeq(DiagArguments, 1, n)
        /\ \A i \in 1 .. Len(emitted) : emitted'[i] = emitted[i]
        /\ Buffered' \in [Levels -> Seq(Text)]
        /\ CurDiagID' = NoID
    BY <1>3, <2>1, EmitType
  <2>3. TypeOK'
    BY <1>1, <1>2, <2>2 DEF TypeOK
  <2>4. OneInFlight' /\ FlushIdle' /\ ArgumentsInv'
    BY <1>1, <1>2, <2>1, <2>2 DEF OneInFlight, FlushIdle, ArgumentsInv
  <2>5. EmittedOnce'
    BY <1>1, <2>1, <2>2, Counts DEF EmittedOnce
  <2>6. emitted'[Len(emitted) + 1].text = reports[Len(emitted) + 1]
    BY <2>1, <2>2, Counts DEF ArgumentsInv
  <2>7. SaysWhatWasReported'
    <3>1. DOMAIN emitted' = 1 .. Len(emitted) + 1 /\ DOMAIN emitted = 1 .. Len(emitted)
          /\ Len(emitted) \in Nat
      BY <2>2, Counts, LenProperties
    <3>2. reports' = reports
      BY <1>1
    <3>3. ASSUME NEW i \in 1 .. Len(emitted), emitted'[i].id \in BuiltinIDs
          PROVE  emitted'[i].text = reports[i]
      BY <2>2, <3>1, <3>3 DEF SaysWhatWasReported
    <3>4. \A i \in 1 .. Len(emitted) + 1 : i \in 1 .. Len(emitted) \/ i = Len(emitted) + 1
      BY <3>1
    <3> QED
      BY <2>6, <3>1, <3>2, <3>3, <3>4 DEF SaysWhatWasReported
  <2> QED
    BY <2>3, <2>4, <2>5, <2>7
<1>4. CASE builder[b].state = "cleared" /\ UNCHANGED <<CurDiagID, Buffered, emitted>>
  <2>1. Active' = Active
    BY <1>2, <1>4 DEF Active
  <2>2. TypeOK' /\ OneInFlight' /\ FlushIdle' /\ EmittedOnce' /\ SaysWhatWasReported'
    BY <1>1, <1>2, <1>4, <2>1
    DEF TypeOK, OneInFlight, FlushIdle, EmittedOnce, SaysWhatWasReported
  <2>3. getDescription(CurDiagID)' = getDescription(CurDiagID)
    BY <1>4 DEF getDescription
  <2>4. ArgumentsInv'
    BY <1>1, <1>2, <2>1, <2>3 DEF ArgumentsInv
  <2> QED
    BY <2>2, <2>4
<1> QED
  BY <1>3, <1>4 DEF DestroyBuilder

(* Steps that touch neither the diagnostic in flight nor what was said.    *)
LEMMA QuietStep ==
  ASSUME IInv, CurDiagID = NoID,
         UNCHANGED <<CurDiagID, DiagArguments, builder, Buffered, reports, emitted,
                     DiagInfo, DiagIDs>>,
         Client' \in {"buffer", "printer"}, flushing' \in Nat \cup {-1}
  PROVE  IInv'
<1> USE DEF IInv
<1>1. Active = {} /\ Active' = {}
  BY DEF OneInFlight, Active
<1> QED
  BY <1>1 DEF TypeOK, OneInFlight, EmittedOnce, FlushIdle, ArgumentsInv, SaysWhatWasReported

LEMMA FlushOneStep ==
  ASSUME IInv, FlushOne
  PROVE  IInv'
<1> USE DEF IInv
<1> DEFINE d == Replay[flushing + 1]
           id == getCustomDiagID(d.level, d.message)
           e == [id |-> id, level |-> DiagInfo'[id].level,
                 text |-> FormatDiagnostic(id, << >>)]
<1>1. d \in Desc /\ d.level \in Levels /\ d.message \in Text /\ flushing + 1 \in Nat
  <2>1. Replay \in Seq(Desc) /\ Len(Replay) \in Nat
    BY ReplaySeq, LenProperties DEF TypeOK
  <2>2. flushing + 1 \in 1 .. Len(Replay)
    BY <2>1 DEF FlushOne
  <2>3. d \in Desc
    BY <2>1, <2>2, ElementOfSeq
  <2> QED
    BY <2>2, <2>3 DEF Desc
<1>2. /\ RegisterCustomDiag(d.level, d.message)
      /\ emitted' = Append(emitted, e)
      /\ reports' = Append(reports, d.message)
      /\ flushing' = flushing + 1
      /\ UNCHANGED <<CurDiagID, DiagArguments, builder, Client, Buffered>>
      /\ flushing # -1
  BY DEF FlushOne
<1> HIDE DEF d
<1>3. /\ id \in DOMAIN DiagInfo'
      /\ DiagInfo' \in Seq(Desc)
      /\ DOMAIN DiagIDs' \subseteq Desc
      /\ \A x \in DOMAIN DiagIDs' : DiagIDs'[x] \in DOMAIN DiagInfo'
  BY <1>1, <1>2, CustomID
<1>4. id \in Nat /\ id \notin BuiltinIDs
  <2>1. id \in Nat
    BY <1>3, LenProperties
  <2> QED
    BY <2>1
<1>5. e \in Emission
  <2>1. DiagInfo'[id] \in Desc
    BY <1>3, ElementOfSeq, LenProperties
  <2>2. getDescription(id) \in Text /\ getDescription(id) \o << >> = getDescription(id)
    BY DescriptionText, ConcatEmptySeq DEF Text
  <2> QED
    BY <1>4, <2>1, <2>2 DEF Emission, Desc, FormatDiagnostic
<1>6. e.id = id
  OBVIOUS
<1> HIDE DEF e, id
<1>7. /\ emitted \in Seq(Emission) /\ emitted' \in Seq(Emission)
      /\ Len(emitted') = Len(emitted) + 1
      /\ emitted'[Len(emitted) + 1] = e
      /\ \A i \in 1 .. Len(emitted) : emitted'[i] = emitted[i]
  BY <1>2, <1>5 DEF TypeOK
<1>8. /\ reports' \in Seq(Text) /\ Len(reports') = Len(reports) + 1
      /\ \A i \in 1 .. Len(reports) : reports'[i] = reports[i]
  BY <1>1, <1>2 DEF TypeOK
<1>9. CurDiagID = NoID /\ Active = {} /\ Active' = {}
  BY <1>2 DEF FlushIdle, OneInFlight, Active
<1>10. TypeOK'
  BY <1>1, <1>2, <1>3, <1>7, <1>8 DEF TypeOK, Desc
<1>11. OneInFlight' /\ FlushIdle' /\ EmittedOnce' /\ ArgumentsInv'
  BY <1>2, <1>7, <1>8, <1>9, Counts
  DEF OneInFlight, FlushIdle, EmittedOnce, ArgumentsInv
<1>12. SaysWhatWasReported'
  <2>1. /\ DOMAIN emitted' = 1 .. Len(emitted) + 1 /\ DOMAIN emitted = 1 .. Len(emitted)
        /\ Len(emitted) \in Nat /\ Len(reports) = Len(emitted)
    BY <1>7, <1>9, Counts, LenProperties
  <2>2. ASSUME NEW i \in 1 .. Len(emitted), emitted'[i].id \in BuiltinIDs
        PROVE  emitted'[i].text = reports'[i]
    BY <1>7, <1>8, <2>1, <2>2 DEF SaysWhatWasReported
  <2>3. \A i \in 1 .. Len(emitted) + 1 : i \in 1 .. Len(emitted) \/ i = Len(emitted) + 1
    BY <2>1
  <2> QED
    BY <1>4, <1>6, <1>7, <2>1, <2>2, <2>3 DEF SaysWhatWasReported
<1> QED
  BY <1>10, <1>11, <1>12

LEMMA Invariance == IInv /\ [Next]_vars => IInv'
<1> SUFFICES ASSUME IInv, [Next]_vars PROVE IInv'
  OBVIOUS
<1>1. ASSUME NEW b \in Builders, NEW id \in BuiltinIDs, Report(b, id) PROVE IInv'
  BY <1>1, ReportStep
<1>2. ASSUME NEW b \in Builders, AddTaggedVal(b) PROVE IInv'
  BY <1>2, AddStep
<1>3. ASSUME NEW b \in Builders, NEW c \in Builders, CopyBuilder(b, c) PROVE IInv'
  BY <1>3, CopyStep
<1>4. ASSUME NEW b \in Builders, DestroyBuilder(b) PROVE IInv'
  BY <1>4, DestroyStep
<1>5. ASSUME NEW c \in {"buffer", "printer"}, setClient(c) PROVE IInv'
  BY <1>5, QuietStep DEF setClient, unchangedIDs
<1>6. CASE FlushBegin
  BY <1>6, QuietStep DEF FlushBegin, unchangedIDs, IInv, TypeOK
<1>7. CASE FlushOne
  BY <1>7, FlushOneStep
<1>8. CASE FlushEnd
  <2>1. Len(Replay) \in Nat
    BY ReplaySeq, LenProperties DEF IInv, TypeOK
  <2> QED
    BY <1>8, <2>1, QuietStep DEF FlushEnd, unchangedIDs, IInv, TypeOK, FlushIdle
<1>9. CASE UNCHANGED vars
  BY <1>9 DEF vars, IInv, TypeOK, OneInFlight, EmittedOnce, FlushIdle, ArgumentsInv,
              SaysWhatWasReported, Active, getDescription
<1> QED
  BY <1>1, <1>2, <1>3, <1>4, <1>5, <1>6, <1>7, <1>8, <1>9 DEF Next

LEMMA Initially == Init => IInv
<1> SUFFICES ASSUME Init PROVE IInv
  OBVIOUS
<1>1. Active = {}
  BY DEF Init, Active
<1> QED
  BY <1>1, TypeInit DEF Init, IInv, OneInFlight, EmittedOnce, FlushIdle, ArgumentsInv,
                        SaysWhatWasReported

-----------------------------------------------------------------------------
(* The engine's own state is well formed in every reachable state.         *)
THEOREM TypeCorrect == Spec => []TypeOK
<1>1. IInv => TypeOK
  BY DEF IInv
<1> QED
  BY <1>1, Initially, Invariance, PTL DEF Spec

(* However builders are copied and destroyed, exactly one of them may add  *)
(* to the diagnostic in flight, and none once it has been emitted.         *)
THEOREM InFlightCorrect == Spec => []OneInFlight
<1>1. IInv => OneInFlight
  BY DEF IInv
<1> QED
  BY <1>1, Initially, Invariance, PTL DEF Spec

(* No report is dropped and none is emitted twice.                         *)
THEOREM EmissionCorrect == Spec => []EmittedOnce
<1>1. IInv => EmittedOnce
  BY DEF IInv
<1> QED
  BY <1>1, Initially, Invariance, PTL DEF Spec

(* A diagnostic reaches its client with all its arguments and no others,   *)
(* although all diagnostics share one argument array.                      *)
THEOREM ArgumentsCorrect == Spec => []SaysWhatWasReported
<1>1. IInv => SaysWhatWasReported
  BY DEF IInv
<1> QED
  BY <1>1, Initially, Invariance, PTL DEF Spec

-----------------------------------------------------------------------------
(* The lines below a text diagnostic. First, sums of widths.              *)

Sums(T, w) ==
  /\ T \in [1 .. Len(w) + 1 -> Nat] /\ T[1] = 0
  /\ \A k \in 1 .. Len(w) : T[k + 1] = T[k] + w[k]

IsTotals(T, w) ==
  T = [k \in 1 .. Len(w) + 1 |-> IF k = 1 THEN 0 ELSE T[k - 1] + w[k - 1]]

LEMMA TotalsIs ==
  ASSUME NEW w
  PROVE  Totals(w) = CHOOSE T : IsTotals(T, w)
BY DEF Totals, IsTotals

LEMMA SumsExist ==
  ASSUME NEW w \in Seq(Nat)
  PROVE  \E T : Sums(T, w)
<1> DEFINE Good(n, T) == /\ T \in [1 .. n + 1 -> Nat] /\ T[1] = 0
                         /\ \A k \in 1 .. n : T[k + 1] = T[k] + w[k]
           Bad == {n \in 0 .. Len(w) : ~ \E T : Good(n, T)}
<1>1. Len(w) \in Nat /\ \A k \in 1 .. Len(w) : w[k] \in Nat
  BY LenProperties, ElementOfSeq
<1>2. ASSUME Bad # {} PROVE FALSE
  <2>1. PICK n \in Bad : \A m \in Bad : n <= m
    <3>1. Bad \in SUBSET Nat
      BY <1>1
    <3> HIDE DEF Bad
    <3> QED
      BY <1>2, <3>1, LeastElement
  <2>2. n \in 0 .. Len(w) /\ ~ \E T : Good(n, T)
    BY <2>1
  <2>3. CASE n = 0
    <3>1. Good(0, [k \in 1 .. 1 |-> 0])
      BY DEF Good
    <3> QED
      BY <2>2, <2>3, <3>1
  <2>4. CASE n # 0
    <3>1. n - 1 \in 0 .. Len(w) /\ ~ n <= n - 1
      BY <1>1, <2>2, <2>4
    <3>b. n - 1 \notin Bad
      <4> HIDE DEF Bad
      <4> QED
        BY <2>1, <3>1
    <3>2. PICK T : Good(n - 1, T)
      BY <3>1, <3>b
    <3>3. T \in [1 .. n -> Nat] /\ T[1] = 0 /\ \A k \in 1 .. n - 1 : T[k + 1] = T[k] + w[k]
      BY <1>1, <2>2, <3>2
    <3>4. PICK U : U = [k \in 1 .. n + 1 |-> IF k <= n THEN T[k] ELSE T[n] + w[n]]
      OBVIOUS
    <3>5. n \in 1 .. n /\ T[n] + w[n] \in Nat
      BY <1>1, <2>2, <2>4, <3>3
    <3>6. U \in [1 .. n + 1 -> Nat] /\ U[1] = 0
      BY <1>1, <2>2, <2>4, <3>3, <3>4, <3>5
    <3>7. ASSUME NEW k \in 1 .. n PROVE U[k + 1] = U[k] + w[k]
      <4>1. CASE k = n
        BY <1>1, <2>2, <3>4, <4>1
      <4>2. CASE k < n
        BY <1>1, <2>2, <3>3, <3>4, <4>2
      <4> QED
        BY <2>2, <4>1, <4>2
    <3> QED
      BY <2>2, <3>6, <3>7
  <2> QED
    BY <2>3, <2>4
<1>3. \E T : Good(Len(w), T)
  <2>1. Len(w) \in 0 .. Len(w)
    BY <1>1
  <2>2. Len(w) \notin Bad
    BY <1>2
  <2> QED
    BY <2>1, <2>2
<1> QED
  BY <1>3 DEF Sums

LEMMA SumsFollow ==
  ASSUME NEW w \in Seq(Nat), NEW T, IsTotals(T, w)
  PROVE  Sums(T, w)
<1>1. Len(w) \in Nat /\ \A k \in 1 .. Len(w) : w[k] \in Nat
  BY LenProperties, ElementOfSeq
<1>2. T[1] = 0 /\ \A k \in 1 .. Len(w) : T[k + 1] = T[k] + w[k]
  BY <1>1 DEF IsTotals
<1> DEFINE Bad == {k \in 1 .. Len(w) + 1 : T[k] \notin Nat}
<1>3. ASSUME Bad # {} PROVE FALSE
  <2>1. PICK k \in Bad : \A m \in Bad : k <= m
    <3>1. Bad \in SUBSET Nat
      BY <1>1
    <3> HIDE DEF Bad
    <3> QED
      BY <1>3, <3>1, LeastElement
  <2>2. k # 1 /\ k - 1 \in 1 .. Len(w) /\ T[k - 1] \in Nat
    BY <1>1, <1>2, <2>1
  <2>3. T[k] = T[k - 1] + w[k - 1]
    BY <1>1, <1>2, <2>2, <2>1
  <2> QED
    BY <1>1, <2>1, <2>2, <2>3
<1>4. T \in [1 .. Len(w) + 1 -> Nat]
  BY <1>3 DEF IsTotals
<1> QED
  BY <1>2, <1>4 DEF Sums

LEMMA TotalsAre ==
  ASSUME NEW w \in Seq(Nat)
  PROVE  Sums(Totals(w), w)
<1>1. PICK T : Sums(T, w)
  BY SumsExist
<1>2. Len(w) \in Nat
  BY LenProperties
<1>3. \A k \in 1 .. Len(w) + 1 : T[k] = IF k = 1 THEN 0 ELSE T[k - 1] + w[k - 1]
  <2> SUFFICES ASSUME NEW k \in 1 .. Len(w) + 1, k # 1 PROVE T[k] = T[k - 1] + w[k - 1]
    BY <1>1 DEF Sums
  <2>1. k - 1 \in 1 .. Len(w) /\ k - 1 + 1 = k
    BY <1>2
  <2> QED
    BY <1>1, <2>1 DEF Sums
<1>4. IsTotals(T, w)
  BY <1>1, <1>3 DEF IsTotals, Sums
<1>5. IsTotals(Totals(w), w)
  BY <1>4, TotalsIs
<1> QED
  BY <1>5, SumsFollow

(* They grow, and every number below the last lies in one of the widths.   *)
LEMMA SumsGrow ==
  ASSUME NEW w \in Seq(Nat \ {0}), NEW T, Sums(T, w)
  PROVE  \A j, k \in 1 .. Len(w) + 1 : j < k => T[j] < T[k]
<1>1. Len(w) \in Nat /\ \A k \in 1 .. Len(w) : w[k] \in Nat \ {0}
  BY LenProperties, ElementOfSeq
<1> SUFFICES ASSUME NEW j \in 1 .. Len(w) + 1
             PROVE  \A k \in 1 .. Len(w) + 1 : j < k => T[j] < T[k]
  OBVIOUS
<1> DEFINE Bad == {k \in 1 .. Len(w) + 1 : j < k /\ ~ T[j] < T[k]}
<1>2. ASSUME Bad # {} PROVE FALSE
  <2>1. PICK k \in Bad : \A m \in Bad : k <= m
    <3>1. Bad \in SUBSET Nat
      BY <1>1
    <3> HIDE DEF Bad
    <3> QED
      BY <1>2, <3>1, LeastElement
  <2>2. k - 1 \in 1 .. Len(w) /\ k - 1 + 1 = k /\ j <= k - 1 /\ k \in 1 .. Len(w) + 1
    BY <1>1, <2>1
  <2>3. T[k] = T[k - 1] + w[k - 1] /\ T[k - 1] \in Nat /\ T[j] \in Nat
    <3>1. k - 1 \in 1 .. Len(w) + 1
      BY <1>1, <2>2
    <3>2. T[k - 1 + 1] = T[k - 1] + w[k - 1]
      BY <2>2 DEF Sums
    <3> QED
      BY <2>2, <3>1, <3>2 DEF Sums
  <2>4. T[j] <= T[k - 1]
    BY <1>1, <2>1, <2>2, <2>3
  <2> QED
    BY <1>1, <2>1, <2>2, <2>3, <2>4
<1> QED
  BY <1>2

LEMMA SumsCover ==
  ASSUME NEW w \in Seq(Nat \ {0}), NEW T, Sums(T, w), NEW c \in Nat, c < T[Len(w) + 1]
  PROVE  \E k \in 1 .. Len(w) : T[k] <= c /\ c < T[k + 1]
<1>1. Len(w) \in Nat
  BY LenProperties
<1> DEFINE S == {k \in 1 .. Len(w) + 1 : T[k] <= c}
<1>2. 1 \in S
  BY <1>1 DEF Sums
<1>3. PICK k \in S : \A m \in S : k >= m
  <2>1. S \in SUBSET (1 .. Len(w) + 1) /\ S # {} /\ Len(w) + 1 \in Nat
    BY <1>1, <1>2
  <2> HIDE DEF S
  <2> QED
    BY <2>1, GreatestElement
<1>4. T[k] \in Nat /\ T[Len(w) + 1] \in Nat
  BY <1>1, <1>3 DEF Sums
<1>5. k \in 1 .. Len(w)
  BY <1>1, <1>3, <1>4
<1>6. k + 1 \in 1 .. Len(w) + 1 /\ k + 1 \notin S
  BY <1>1, <1>3, <1>5
<1>7. T[k + 1] \in Nat
  BY <1>6 DEF Sums
<1> QED
  BY <1>3, <1>5, <1>6, <1>7

-----------------------------------------------------------------------------
(* Where characters begin, in bytes and in columns.                        *)

LEMMA BytesAre ==
  ASSUME NEW l \in Seq(Characters)
  PROVE  /\ Len(l) \in Nat /\ DOMAIN l = 1 .. Len(l)
         /\ \A k \in 1 .. Len(l) : Bytes(l[k]) \in Nat \ {0}
         /\ \A k \in 1 .. Len(l) + 1 : Start(l, k) \in Nat
         /\ Start(l, 1) = 0
         /\ \A k \in 1 .. Len(l) : Start(l, k + 1) = Start(l, k) + Bytes(l[k])
         /\ \A j, k \in 1 .. Len(l) + 1 : j < k => Start(l, j) < Start(l, k)
<1>1. Len(l) \in Nat /\ DOMAIN l = 1 .. Len(l) /\ \A k \in 1 .. Len(l) : l[k] \in Characters
  BY LenProperties, ElementOfSeq
<1>2. PICK w : w = [j \in DOMAIN l |-> Bytes(l[j])]
  OBVIOUS
<1>3. \A k \in 1 .. Len(l) : Bytes(l[k]) \in Nat \ {0}
  BY DEF Bytes
<1>4. w \in [1 .. Len(l) -> Nat \ {0}]
  BY <1>1, <1>2, <1>3
<1>5. w \in Seq(Nat \ {0}) /\ Len(w) = Len(l)
  BY <1>1, <1>4, LenProperties
<1>6. w \in Seq(Nat)
  BY <1>5, SeqOfMore
<1>7. PICK T : T = Totals(w)
  OBVIOUS
<1>8. Sums(T, w)
  BY <1>6, <1>7, TotalsAre
<1>9. \A k : Start(l, k) = T[k]
  BY <1>2, <1>7 DEF Start
<1>10. \A j, k \in 1 .. Len(l) + 1 : j < k => T[j] < T[k]
  BY <1>5, <1>8, SumsGrow
<1>11. \A k \in 1 .. Len(l) : T[k + 1] = T[k] + Bytes(l[k])
  BY <1>1, <1>2, <1>5, <1>8 DEF Sums
<1>12. T[1] = 0 /\ \A k \in 1 .. Len(l) + 1 : T[k] \in Nat
  BY <1>5, <1>8 DEF Sums
<1> QED
  BY <1>1, <1>3, <1>9, <1>10, <1>11, <1>12

LEMMA MaxIs ==
  ASSUME NEW S \in SUBSET Int, NEW x \in S, \A y \in S : y <= x
  PROVE  Max(S) = x
<1>1. \A z \in S : (\A y \in S : z >= y) => z = x
  <2> SUFFICES ASSUME NEW z \in S, \A y \in S : z >= y PROVE z = x
    OBVIOUS
  <2>1. z >= x /\ z <= x /\ z \in Int /\ x \in Int
    OBVIOUS
  <2> QED
    BY <2>1
<1>2. \A y \in S : x >= y
  OBVIOUS
<1> QED
  BY <1>1, <1>2 DEF Max

LEMMA MinIs ==
  ASSUME NEW S \in SUBSET Int, NEW x \in S, \A y \in S : x <= y
  PROVE  Min(S) = x
<1>1. \A z \in S : (\A y \in S : z <= y) => z = x
  <2> SUFFICES ASSUME NEW z \in S, \A y \in S : z <= y PROVE z = x
    OBVIOUS
  <2>1. z <= x /\ x <= z /\ z \in Int /\ x \in Int
    OBVIOUS
  <2> QED
    BY <2>1
<1> QED
  BY <1>1 DEF Min

LEMMA WidthIs ==
  ASSUME NEW l \in Seq(Characters), NEW k \in 1 .. Len(l)
  PROVE  printableWidth(l, k) \in Nat \ {0}
<1>1. CASE l[k] = "tab"
  <2>1. PICK tabs : tabs = {j \in 1 .. k - 1 : l[j] = "tab"}
    OBVIOUS
  <2>2. Len(l) \in Nat /\ k \in Nat \ {0}
    BY BytesAre
  <2>3. bytesSincePreviousTabOrLineBegin(l, k) \in Nat
    <3>1. CASE tabs = {}
      <4>1. bytesSincePreviousTabOrLineBegin(l, k) = Start(l, k) - 0
        BY <2>1, <3>1 DEF bytesSincePreviousTabOrLineBegin
      <4> QED
        BY <2>2, <4>1, BytesAre
    <3>2. CASE tabs # {}
      <4>1. PICK m \in tabs : m = Max(tabs)
        <5>1. tabs \in SUBSET (1 .. k - 1) /\ k - 1 \in Nat
          BY <2>1, <2>2
        <5> QED
          BY <3>2, <5>1, MaxIsGreatest
      <4>2. m \in 1 .. k - 1 /\ m + 1 \in 1 .. k /\ k \in 1 .. Len(l) + 1
        BY <2>1, <2>2, <4>1
      <4>3. bytesSincePreviousTabOrLineBegin(l, k) = Start(l, k) - Start(l, m + 1)
        BY <2>1, <3>2, <4>1 DEF bytesSincePreviousTabOrLineBegin
      <4>4. Start(l, k) \in Nat /\ Start(l, m + 1) \in Nat /\ Start(l, m + 1) <= Start(l, k)
        BY <2>2, <4>2, BytesAre
      <4> QED
        BY <4>3, <4>4
    <3> QED
      BY <3>1, <3>2
  <2>4. PICK b \in Nat : b = bytesSincePreviousTabOrLineBegin(l, k)
    BY <2>3
  <2>5. TabStop \in Nat \ {0}
    BY NumbersAssumption
  <2>6. b % TabStop \in 0 .. TabStop - 1
    BY <2>5
  <2>7. printableWidth(l, k) = TabStop - (b % TabStop)
    BY <1>1, <2>4 DEF printableWidth
  <2> QED
    BY <2>5, <2>6, <2>7
<1>2. CASE l[k] # "tab"
  BY <1>2 DEF printableWidth
<1> QED
  BY <1>1, <1>2

Widths(l) == [j \in DOMAIN l |-> printableWidth(l, j)]

LEMMA WidthsAre ==
  ASSUME NEW l \in Seq(Characters)
  PROVE  /\ Widths(l) \in Seq(Nat \ {0}) /\ Widths(l) \in Seq(Nat)
         /\ Len(Widths(l)) = Len(l)
         /\ \A k \in 1 .. Len(l) : Widths(l)[k] = printableWidth(l, k)
         /\ Sums(Totals(Widths(l)), Widths(l))
         /\ \A k : Column(l, k) = Totals(Widths(l))[k]
<1>1. DOMAIN l = 1 .. Len(l) /\ Len(l) \in Nat
  BY BytesAre
<1>2. Widths(l) \in [1 .. Len(l) -> Nat \ {0}]
  BY <1>1, WidthIs DEF Widths
<1>3. Widths(l) \in Seq(Nat \ {0}) /\ Len(Widths(l)) = Len(l)
  BY <1>1, <1>2, LenProperties
<1>4. Widths(l) \in Seq(Nat)
  BY <1>3, SeqOfMore
<1> QED
  BY <1>1, <1>3, <1>4, TotalsAre DEF Widths, Column

LEMMA ColumnsAre ==
  ASSUME NEW l \in Seq(Characters)
  PROVE  /\ \A k \in 1 .. Len(l) + 1 : Column(l, k) \in Nat
         /\ Column(l, 1) = 0
         /\ \A k \in 1 .. Len(l) : Column(l, k + 1) = Column(l, k) + printableWidth(l, k)
         /\ \A j, k \in 1 .. Len(l) + 1 : j < k => Column(l, j) < Column(l, k)
<1>1. PICK w : w = Widths(l)
  OBVIOUS
<1>2. PICK T : T = Totals(w)
  OBVIOUS
<1>3. /\ w \in Seq(Nat \ {0}) /\ Len(w) = Len(l) /\ Sums(T, w)
      /\ \A k : Column(l, k) = T[k]
      /\ \A k \in 1 .. Len(l) : w[k] = printableWidth(l, k)
  BY <1>1, <1>2, WidthsAre
<1>4. \A j, k \in 1 .. Len(l) + 1 : j < k => T[j] < T[k]
  BY <1>3, SumsGrow
<1>5. /\ \A k \in 1 .. Len(l) + 1 : T[k] \in Nat
      /\ T[1] = 0 /\ \A k \in 1 .. Len(l) : T[k + 1] = T[k] + w[k]
  BY <1>3 DEF Sums
<1>6. \A j, k \in 1 .. Len(l) + 1 : j < k => Column(l, j) < Column(l, k)
  BY <1>3, <1>4
<1>7. \A k \in 1 .. Len(l) : Column(l, k + 1) = Column(l, k) + printableWidth(l, k)
  <2> SUFFICES ASSUME NEW k \in 1 .. Len(l)
               PROVE  Column(l, k + 1) = Column(l, k) + printableWidth(l, k)
    OBVIOUS
  <2>1. Column(l, k + 1) = T[k + 1] /\ Column(l, k) = T[k] /\ w[k] = printableWidth(l, k)
    BY <1>3
  <2> QED
    BY <1>5, <2>1
<1>8. \A k \in 1 .. Len(l) + 1 : Column(l, k) \in Nat
  <2> SUFFICES ASSUME NEW k \in 1 .. Len(l) + 1 PROVE Column(l, k) \in Nat
    OBVIOUS
  <2>1. Column(l, k) = T[k]
    BY <1>3
  <2> QED
    BY <1>5, <2>1
<1>9. Column(l, 1) = 0
  <2>1. Column(l, 1) = T[1]
    BY <1>3
  <2> QED
    BY <1>5, <2>1
<1> QED
  BY <1>6, <1>7, <1>8, <1>9

LEMMA StartsAre ==
  ASSUME NEW l \in Seq(Characters)
  PROVE  /\ Size(l) = Start(l, Len(l) + 1) /\ Size(l) \in Nat
         /\ \A j, k \in 1 .. Len(l) + 1 : Start(l, j) = Start(l, k) => j = k
         /\ \A j, k \in 1 .. Len(l) + 1 : Start(l, j) < Start(l, k) => j < k
         /\ \A k \in 1 .. Len(l) + 1 : Start(l, k) \in 0 .. Size(l) /\ Start(l, k) \in Starts(l)
         /\ \A b \in Starts(l) : \E k \in 1 .. Len(l) + 1 : b = Start(l, k)
<1>1. Len(l) \in Nat /\ Len(l) + 1 \in 1 .. Len(l) + 1
  BY BytesAre
<1>2. Size(l) = Start(l, Len(l) + 1) /\ Size(l) \in Nat
  BY <1>1, BytesAre DEF Size
<1>3. /\ \A k \in 1 .. Len(l) + 1 : Start(l, k) \in Nat
      /\ \A j, k \in 1 .. Len(l) + 1 : j < k => Start(l, j) < Start(l, k)
  BY BytesAre
<1>4. ASSUME NEW j \in 1 .. Len(l) + 1, NEW k \in 1 .. Len(l) + 1
      PROVE  /\ Start(l, j) = Start(l, k) => j = k
             /\ Start(l, j) < Start(l, k) => j < k
  <2>1. j < k \/ j = k \/ k < j
    BY <1>1
  <2>2. Start(l, j) \in Nat /\ Start(l, k) \in Nat
    BY <1>3
  <2>3. CASE j < k
    BY <1>3, <2>2, <2>3
  <2>4. CASE k < j
    <3>1. Start(l, k) < Start(l, j)
      BY <1>3, <2>4
    <3> QED
      BY <2>2, <3>1
  <2> QED
    BY <2>1, <2>2, <2>3, <2>4
<1>5. ASSUME NEW k \in 1 .. Len(l) + 1 PROVE Start(l, k) \in 0 .. Size(l)
  <2>1. k < Len(l) + 1 \/ k = Len(l) + 1
    BY <1>1
  <2>2. Start(l, k) \in Nat /\ (k < Len(l) + 1 => Start(l, k) < Size(l))
    BY <1>1, <1>2, <1>3
  <2> QED
    BY <1>2, <2>1, <2>2
<1> QED
  BY <1>2, <1>4, <1>5 DEF Starts

(* The column of a character is found from its first byte.                 *)
LEMMA ColumnOfStart ==
  ASSUME NEW l \in Seq(Characters), NEW k \in 1 .. Len(l) + 1
  PROVE  byteToContainingColumn(l, Start(l, k)) = Column(l, k)
<1>1. PICK b \in Nat : b = Start(l, k)
  BY BytesAre
<1>2. b \in 0 .. Size(l) /\ b \in Starts(l) /\ Size(l) \in Nat
  BY <1>1, StartsAre
<1>3. (CHOOSE j \in 1 .. Len(l) + 1 : Start(l, j) = b) = k
  <2>1. \A j \in 1 .. Len(l) + 1 : Start(l, j) = b => j = k
    BY <1>1, StartsAre
  <2> QED
    BY <1>1, <2>1
<1>4. byteToColumn(l)[b] = Column(l, k)
  BY <1>2, <1>3 DEF byteToColumn
<1>5. Column(l, k) \in Nat
  BY ColumnsAre
<1>6. PICK S : S = {n \in 0 .. b : byteToColumn(l)[n] # -1}
  OBVIOUS
<1>7. b \in S /\ S \in SUBSET Int /\ \A n \in S : n <= b
  BY <1>4, <1>5, <1>6
<1>8. Max(S) = b
  BY <1>7, MaxIs
<1> QED
  BY <1>1, <1>4, <1>6, <1>8 DEF byteToContainingColumn

LEMMA OwnerIs ==
  ASSUME NEW l \in Seq(Characters), NEW k \in 1 .. Len(l), NEW b \in Nat,
         Start(l, k) <= b, b < Start(l, k + 1)
  PROVE  Owner(l, b) = k
<1>1. Len(l) \in Nat /\ DOMAIN l = 1 .. Len(l)
  BY BytesAre
<1>2. ASSUME NEW j \in 1 .. Len(l), Start(l, j) <= b, b < Start(l, j + 1) PROVE j = k
  <2>1. j + 1 \in 1 .. Len(l) + 1 /\ k + 1 \in 1 .. Len(l) + 1
        /\ j \in 1 .. Len(l) + 1 /\ k \in 1 .. Len(l) + 1
    BY <1>1
  <2>2. /\ Start(l, j) \in Nat /\ Start(l, k) \in Nat
        /\ Start(l, j + 1) \in Nat /\ Start(l, k + 1) \in Nat
    BY <2>1, BytesAre
  <2>3. Start(l, j) < Start(l, k + 1) /\ Start(l, k) < Start(l, j + 1)
    BY <1>2, <2>2
  <2>4. j < k + 1 /\ k < j + 1
    BY <2>1, <2>3, StartsAre
  <2> QED
    BY <1>1, <2>4
<1> QED
  BY <1>1, <1>2 DEF Owner

LEMMA OwnerOfStart ==
  ASSUME NEW l \in Seq(Characters), NEW k \in 1 .. Len(l)
  PROVE  /\ Owner(l, Start(l, k)) = k
         /\ Start(l, k + 1) - 1 \in Nat /\ Owner(l, Start(l, k + 1) - 1) = k
<1>1. Len(l) \in Nat /\ k + 1 \in 1 .. Len(l) + 1 /\ k \in 1 .. Len(l) + 1
  BY BytesAre
<1>2. Start(l, k) \in Nat /\ Start(l, k + 1) \in Nat /\ Start(l, k) < Start(l, k + 1)
  BY <1>1, BytesAre
<1> QED
  BY <1>2, OwnerIs

-----------------------------------------------------------------------------
(* The line as it is printed.                                              *)

Rows(w) == [k \in 1 .. Len(w) |-> [c \in 1 .. w[k] |-> k]]

(* p shows the first n of the rows.                                        *)
Shows(p, T, n) ==
  /\ p \in Seq(Nat) /\ Len(p) = T[n + 1]
  /\ \A k \in 1 .. n : \A c \in 1 .. Len(p) : T[k] < c /\ c <= T[k + 1] => p[c] = k

LEMMA RowsAre ==
  ASSUME NEW w \in Seq(Nat \ {0})
  PROVE  Shows(FlattenSeq(Rows(w)), Totals(w), Len(w))
<1>1. /\ Len(w) \in Nat /\ \A k \in 1 .. Len(w) : w[k] \in Nat \ {0}
      /\ w \in Seq(Nat)
  BY LenProperties, ElementOfSeq, SeqOfMore
<1>2. PICK T : T = Totals(w)
  OBVIOUS
<1>3. Sums(T, w)
  BY <1>1, <1>2, TotalsAre
<1>4. /\ T[1] = 0 /\ \A k \in 1 .. Len(w) + 1 : T[k] \in Nat
      /\ \A k \in 1 .. Len(w) : T[k + 1] = T[k] + w[k]
      /\ \A j, k \in 1 .. Len(w) + 1 : j < k => T[j] < T[k]
  BY <1>3, SumsGrow DEF Sums
<1>5. PICK ss : ss = Rows(w)
  OBVIOUS
<1>6. \A k \in 1 .. Len(w) : ss[k] \in Seq(Nat) /\ Len(ss[k]) = w[k]
                             /\ \A c \in 1 .. w[k] : ss[k][c] = k
  <2> SUFFICES ASSUME NEW k \in 1 .. Len(w)
               PROVE  ss[k] \in Seq(Nat) /\ Len(ss[k]) = w[k] /\ \A c \in 1 .. w[k] : ss[k][c] = k
    OBVIOUS
  <2>1. ss[k] = [c \in 1 .. w[k] |-> k] /\ w[k] \in Nat /\ k \in Nat
    BY <1>1, <1>5 DEF Rows
  <2>2. ss[k] \in [1 .. w[k] -> Nat]
    BY <2>1
  <2>3. ss[k] \in Seq(Nat) /\ Len(ss[k]) = w[k]
    BY <2>1, <2>2, LenProperties
  <2> QED
    BY <2>1, <2>3
<1>7. ss \in Seq(Seq(Nat)) /\ Len(ss) = Len(w)
  <2>1. ss \in [1 .. Len(w) -> Seq(Nat)]
    BY <1>5, <1>6 DEF Rows
  <2> QED
    BY <1>1, <2>1, LenProperties
<1>8. CASE Len(w) = 0
  <2>1. ss = << >>
    BY <1>7, <1>8, EmptySeq
  <2>2. FlattenSeq(ss) = << >>
    BY <2>1, FlattenEmpty
  <2> QED
    BY <1>2, <1>4, <1>5, <1>8, <2>2 DEF Shows
<1>9. CASE Len(w) # 0
  <2>1. PICK f : IsFlat(f, ss) /\ FlattenSeq(ss) = f[Len(ss)]
    BY <1>7, <1>9, FlattenBy
  <2>2. \A i \in 1 .. Len(w) : f[i] = IF i = 1 THEN ss[i] ELSE f[i - 1] \o ss[i]
    BY <1>7, <2>1 DEF IsFlat
  <2> DEFINE Bad == {i \in 1 .. Len(w) : ~ Shows(f[i], T, i)}
  <2>3. ASSUME Bad # {} PROVE FALSE
    <3>1. PICK i \in Bad : \A j \in Bad : i <= j
      <4>1. Bad \in SUBSET Nat
        BY <1>1
      <4> HIDE DEF Bad
      <4> QED
        BY <2>3, <4>1, LeastElement
    <3>2. i \in 1 .. Len(w) /\ ~ Shows(f[i], T, i) /\ i \in Nat
      BY <1>1, <3>1
    <3>3. T[i + 1] = T[i] + w[i] /\ T[i] \in Nat /\ w[i] \in Nat
      BY <1>1, <1>4, <3>2
    <3>4. CASE i = 1
      <4>1. f[1] = ss[1]
        BY <2>2, <3>2, <3>4
      <4>2. Shows(ss[1], T, 1)
        BY <1>4, <1>6, <3>2, <3>3, <3>4 DEF Shows
      <4> QED
        BY <3>2, <3>4, <4>1, <4>2
    <3>5. CASE i # 1
      <4>1. i - 1 \in 1 .. Len(w) /\ ~ i <= i - 1 /\ i - 1 + 1 = i
        BY <1>1, <3>2, <3>5
      <4>2. Shows(f[i - 1], T, i - 1)
        <5>1. i - 1 \notin Bad
          <6> HIDE DEF Bad
          <6> QED
            BY <3>1, <4>1
        <5> QED
          BY <4>1, <5>1
      <4>3. PICK s \in Seq(Nat) : s = f[i - 1]
        BY <4>2 DEF Shows
      <4>4. PICK t \in Seq(Nat) : t = ss[i]
        BY <1>6, <3>2
      <4>5. f[i] = s \o t
        BY <2>2, <3>2, <3>5, <4>3, <4>4
      <4>6. Len(s) = T[i] /\ Len(t) = w[i] /\ \A c \in 1 .. w[i] : t[c] = i
        BY <1>6, <3>2, <4>1, <4>2, <4>3, <4>4 DEF Shows
      <4>7. s \o t \in Seq(Nat) /\ Len(s \o t) = T[i + 1]
        <5>1. s \o t \in Seq(Nat) /\ Len(s \o t) = Len(s) + Len(t)
          BY ConcatProperties
        <5> QED
          BY <3>3, <4>6, <5>1
      <4>8. ASSUME NEW k \in 1 .. i, NEW c \in 1 .. T[i + 1], T[k] < c, c <= T[k + 1]
            PROVE  (s \o t)[c] = k
        <5>1. (s \o t)[c] = IF c <= Len(s) THEN s[c] ELSE t[c - Len(s)]
          BY <4>7, ConcatProperties
        <5>2. k \in 1 .. Len(w) /\ k + 1 \in 1 .. Len(w) + 1 /\ k \in Nat
          BY <1>1, <3>2
        <5>3. T[k] \in Nat /\ T[k + 1] \in Nat /\ c \in Nat
          BY <1>4, <5>2, <4>8, <3>3
        <5>4. CASE k = i
          <6>1. ~ c <= Len(s) /\ c - Len(s) \in 1 .. w[i]
            BY <3>3, <4>6, <4>8, <5>3, <5>4
          <6> QED
            BY <4>6, <5>1, <5>4, <6>1
        <5>5. CASE k # i
          <6>1. k \in 1 .. i - 1 /\ (k + 1 < i \/ k + 1 = i) /\ i \in 1 .. Len(w) + 1
            BY <1>1, <3>2, <5>2, <5>5
          <6>2. T[k + 1] <= T[i]
            <7>1. \A j \in 1 .. Len(w) + 1 : j < i => T[j] < T[i]
              BY <1>4, <6>1
            <7>2. k + 1 < i => T[k + 1] < T[i]
              BY <5>2, <7>1
            <7>3. k + 1 = i => T[k + 1] = T[i]
              OBVIOUS
            <7> QED
              BY <3>3, <5>3, <6>1, <7>2, <7>3
          <6>3. c <= Len(s) /\ c \in 1 .. Len(s)
            BY <3>3, <4>6, <4>8, <5>3, <6>2
          <6>4. s[c] = k
            BY <4>2, <4>3, <4>8, <6>1, <6>3 DEF Shows
          <6> QED
            BY <5>1, <6>3, <6>4
        <5> QED
          BY <5>4, <5>5
      <4>9. Shows(s \o t, T, i)
        BY <4>7, <4>8 DEF Shows
      <4> QED
        BY <3>2, <4>5, <4>9
    <3> QED
      BY <3>4, <3>5
  <2>4. Len(w) \in 1 .. Len(w) /\ Len(w) \notin Bad
    BY <1>1, <1>9, <2>3
  <2>5. Shows(f[Len(w)], T, Len(w))
    BY <2>4
  <2> QED
    BY <1>2, <1>5, <1>7, <2>1, <2>5
<1> QED
  BY <1>8, <1>9

(* The line of the characters, as emitSnippet makes it.                    *)
Printed(l) == FlattenSeq([k \in DOMAIN l |-> [c \in 1 .. printableWidth(l, k) |-> k]])

LEMMA PrintedIs ==
  ASSUME NEW l \in Seq(Characters)
  PROVE  /\ Printed(l) \in Seq(Nat) /\ Len(Printed(l)) = Column(l, Len(l) + 1)
         /\ \A k \in 1 .. Len(l) : \A c \in 1 .. Len(Printed(l)) :
              Printed(l)[c] = k <=> Column(l, k) < c /\ c <= Column(l, k + 1)
         /\ \A c \in 1 .. Len(Printed(l)) : Printed(l)[c] \in 1 .. Len(l)
<1>1. PICK w : w = Widths(l)
  OBVIOUS
<1>2. PICK T : T = Totals(w)
  OBVIOUS
<1>3. /\ w \in Seq(Nat \ {0}) /\ Len(w) = Len(l) /\ Sums(T, w)
      /\ \A k : Column(l, k) = T[k]
      /\ \A k \in 1 .. Len(l) : w[k] = printableWidth(l, k)
  BY <1>1, <1>2, WidthsAre
<1>4. Len(l) \in Nat /\ DOMAIN l = 1 .. Len(l)
  BY BytesAre
<1>5. [k \in DOMAIN l |-> [c \in 1 .. printableWidth(l, k) |-> k]] = Rows(w)
  <2>1. \A k \in 1 .. Len(l) : [c \in 1 .. printableWidth(l, k) |-> k] = [c \in 1 .. w[k] |-> k]
    BY <1>3
  <2>2. [k \in DOMAIN l |-> [c \in 1 .. printableWidth(l, k) |-> k]]
          = [k \in 1 .. Len(l) |-> [c \in 1 .. w[k] |-> k]]
    BY <1>4, <2>1
  <2>3. Rows(w) = [k \in 1 .. Len(l) |-> [c \in 1 .. w[k] |-> k]]
    BY <1>3 DEF Rows
  <2> QED
    BY <2>2, <2>3
<1>6. PICK p : p = Printed(l)
  OBVIOUS
<1>7. Shows(p, T, Len(l))
  BY <1>2, <1>3, <1>5, <1>6, RowsAre DEF Printed
<1>8. p \in Seq(Nat) /\ Len(p) = T[Len(l) + 1] /\ Len(p) \in Nat
  BY <1>7, LenProperties DEF Shows
<1>9. ASSUME NEW c \in 1 .. Len(p)
      PROVE  \E k \in 1 .. Len(l) : T[k] < c /\ c <= T[k + 1] /\ p[c] = k
  <2>1. c - 1 \in Nat /\ c - 1 < T[Len(w) + 1] /\ c \in Nat
    BY <1>3, <1>8
  <2>2. PICK k \in 1 .. Len(w) : T[k] <= c - 1 /\ c - 1 < T[k + 1]
    BY <1>3, <2>1, SumsCover
  <2>3. T[k] \in Nat /\ T[k + 1] \in Nat
    <3>1. k \in 1 .. Len(w) + 1 /\ k + 1 \in 1 .. Len(w) + 1
      BY <1>3, <1>4, <2>2
    <3> QED
      BY <1>3, <3>1 DEF Sums
  <2>4. T[k] < c /\ c <= T[k + 1]
    BY <2>1, <2>2, <2>3
  <2>5. p[c] = k
    BY <1>3, <1>7, <2>2, <2>4 DEF Shows
  <2> QED
    BY <1>3, <2>2, <2>4, <2>5
<1>10. ASSUME NEW k \in 1 .. Len(l), NEW c \in 1 .. Len(p)
       PROVE  p[c] = k <=> T[k] < c /\ c <= T[k + 1]
  <2>1. T[k] < c /\ c <= T[k + 1] => p[c] = k
    BY <1>7 DEF Shows
  <2>2. PICK j \in 1 .. Len(l) : T[j] < c /\ c <= T[j + 1] /\ p[c] = j
    BY <1>9
  <2> QED
    BY <2>1, <2>2
<1>11. \A k \in 1 .. Len(l) : \A c \in 1 .. Len(p) :
         p[c] = k <=> Column(l, k) < c /\ c <= Column(l, k + 1)
  BY <1>3, <1>10
<1>12. \A c \in 1 .. Len(p) : p[c] \in 1 .. Len(l)
  BY <1>9
<1>13. Len(p) = Column(l, Len(l) + 1)
  BY <1>3, <1>8
<1> QED
  BY <1>6, <1>8, <1>11, <1>12, <1>13

-----------------------------------------------------------------------------
(* What a range covers.                                                    *)

(* It is highlighted from character i to character j.                      *)
Covers(l, r, i, j) ==
  /\ i \in 1 .. Len(l) /\ j \in 1 .. Len(l) /\ i <= j
  /\ Highlighted(l, r) = i .. j
  /\ SkipBlanksFrom(l, IF r.begin = EarlierLine THEN 0 ELSE r.begin) = Start(l, i)
  /\ SkipBlanksBefore(l, IF r.end = LaterLine THEN Size(l)
                         ELSE Min({r.end + r.tokenLength, Size(l)})) = Start(l, j + 1)

(* From b to e there is a character that is not blank.                     *)
LEMMA FirstSeen ==
  ASSUME NEW l \in Seq(Characters), NEW b \in Nat, b <= Size(l),
         NEW i \in 1 .. Len(l), ~ IsBlank(l[i]), b <= Start(l, i),
         \A k \in 1 .. Len(l) : ~ IsBlank(l[k]) /\ b <= Start(l, k) => i <= k
  PROVE  SkipBlanksFrom(l, b) = Start(l, i)
<1>1. Len(l) \in Nat /\ DOMAIN l = 1 .. Len(l)
  BY BytesAre
<1>2. PICK S : S = {n \in Starts(l) : n >= b /\ (n = Size(l) \/ ~BlankAt(l, n))}
  OBVIOUS
<1>3. \A n \in Starts(l) : n \in Nat
  <2> SUFFICES ASSUME NEW n \in Starts(l) PROVE n \in Nat
    OBVIOUS
  <2>1. PICK k \in 1 .. Len(l) + 1 : n = Start(l, k)
    BY StartsAre
  <2> QED
    BY <2>1, BytesAre
<1>4. i \in 1 .. Len(l) + 1 /\ Start(l, i) \in Starts(l) /\ ~ BlankAt(l, Start(l, i))
  BY <1>1, StartsAre, OwnerOfStart DEF BlankAt
<1>5. Start(l, i) \in S
  BY <1>2, <1>3, <1>4
<1>6. ASSUME NEW n \in S PROVE Start(l, i) <= n
  <2>1. PICK k \in 1 .. Len(l) + 1 : n = Start(l, k)
    BY <1>2, StartsAre
  <2>2. n \in Nat /\ Start(l, i) \in Nat /\ b <= n
    BY <1>2, <1>3, <1>4
  <2>3. CASE k = Len(l) + 1
    BY <1>4, <2>1, <2>2, <2>3, StartsAre
  <2>4. CASE k # Len(l) + 1
    <3>1. k \in 1 .. Len(l)
      BY <1>1, <2>4
    <3>2. Owner(l, n) = k
      BY <2>1, <3>1, OwnerOfStart
    <3>3. n # Size(l)
      BY <1>1, <2>1, <2>4, <3>1, StartsAre
    <3>4. ~ IsBlank(l[k])
      BY <1>2, <3>2, <3>3 DEF BlankAt
    <3>5. i <= k
      BY <2>1, <2>2, <3>1, <3>4
    <3>6. i = k \/ i < k
      BY <1>1, <3>1, <3>5
    <3> QED
      BY <1>4, <2>1, <2>2, <3>6, BytesAre
  <2> QED
    BY <2>3, <2>4
<1>7. S \in SUBSET Int
  BY <1>2, <1>3
<1> QED
  BY <1>2, <1>5, <1>6, <1>7, MinIs DEF SkipBlanksFrom

LEMMA LastSeen ==
  ASSUME NEW l \in Seq(Characters), NEW e \in Starts(l),
         NEW j \in 1 .. Len(l), ~ IsBlank(l[j]), Start(l, j) < e,
         \A k \in 1 .. Len(l) : ~ IsBlank(l[k]) /\ Start(l, k) < e => k <= j
  PROVE  SkipBlanksBefore(l, e) = Start(l, j + 1)
<1>1. Len(l) \in Nat /\ DOMAIN l = 1 .. Len(l) /\ j + 1 \in 1 .. Len(l) + 1 /\ j \in 1 .. Len(l) + 1
  BY BytesAre
<1>2. PICK S : S = {n \in Starts(l) : n <= e /\ (n <= 1 \/ ~BlankAt(l, n - 1))}
  OBVIOUS
<1>3. \A n \in Starts(l) : n \in Nat
  <2> SUFFICES ASSUME NEW n \in Starts(l) PROVE n \in Nat
    OBVIOUS
  <2>1. PICK k \in 1 .. Len(l) + 1 : n = Start(l, k)
    BY StartsAre
  <2> QED
    BY <2>1, BytesAre
<1>4. Start(l, j + 1) \in Starts(l) /\ ~ BlankAt(l, Start(l, j + 1) - 1)
  BY <1>1, StartsAre, OwnerOfStart DEF BlankAt
<1>5. Start(l, j + 1) <= e
  <2>1. PICK k \in 1 .. Len(l) + 1 : e = Start(l, k)
    BY StartsAre
  <2>2. j < k
    BY <1>1, <2>1, StartsAre
  <2>3. j + 1 < k \/ j + 1 = k
    BY <1>1, <2>2
  <2>4. Start(l, j + 1) \in Nat /\ e \in Nat
    BY <1>1, <2>1, BytesAre
  <2>5. j + 1 < k => Start(l, j + 1) < e
    BY <1>1, <2>1, BytesAre
  <2> QED
    BY <2>1, <2>3, <2>4, <2>5
<1>6. Start(l, j + 1) \in S
  BY <1>2, <1>4, <1>5
<1>7. ASSUME NEW n \in S PROVE n <= Start(l, j + 1)
  <2>1. PICK k \in 1 .. Len(l) + 1 : n = Start(l, k)
    BY <1>2, StartsAre
  <2>2. n \in Nat /\ Start(l, j + 1) \in Nat /\ Start(l, j) \in Nat /\ n <= e /\ e \in Nat
        /\ Start(l, j) < Start(l, j + 1)
    <3>1. n \in Nat /\ n <= e /\ e \in Nat
      BY <1>2, <1>3
    <3>2. Start(l, j + 1) \in Nat /\ Start(l, j) \in Nat
      BY <1>1, BytesAre
    <3>3. j < j + 1
      BY <1>1
    <3>4. Start(l, j) < Start(l, j + 1)
      BY <1>1, <3>3, BytesAre
    <3> QED
      BY <3>1, <3>2, <3>4
  <2>3. CASE n <= 1
    BY <2>2, <2>3
  <2>4. CASE ~ n <= 1
    <3>1. k # 1
      BY <2>1, <2>4, BytesAre
    <3>2. PICK m \in 1 .. Len(l) : k = m + 1
      <4>1. k - 1 \in 1 .. Len(l) /\ k = k - 1 + 1
        BY <1>1, <3>1
      <4> QED
        BY <4>1
    <3>3. Owner(l, n - 1) = m
      BY <2>1, <3>2, OwnerOfStart
    <3>4. ~ IsBlank(l[m])
      BY <1>2, <2>4, <3>3 DEF BlankAt
    <3>5. m \in 1 .. Len(l) + 1 /\ m < m + 1 /\ m + 1 \in 1 .. Len(l) + 1
      BY <1>1
    <3>6. Start(l, m) < n /\ Start(l, m) \in Nat
      BY <2>1, <3>2, <3>5, BytesAre
    <3>7. Start(l, m) < e
      BY <2>2, <3>6
    <3>8. m <= j
      BY <3>4, <3>7
    <3>9. m + 1 < j + 1 \/ m + 1 = j + 1
      BY <1>1, <3>8
    <3>10. m + 1 < j + 1 => Start(l, m + 1) < Start(l, j + 1)
      BY <1>1, <3>5, BytesAre
    <3> QED
      BY <2>1, <2>2, <3>2, <3>9, <3>10
  <2> QED
    BY <2>3, <2>4
<1>8. S \in SUBSET Int
  BY <1>2, <1>3
<1> QED
  BY <1>2, <1>6, <1>7, <1>8, MaxIs DEF SkipBlanksBefore

(* A range that is about the line ends at e, with a token in it.           *)
LEMMA EndOfRange ==
  ASSUME NEW l \in Seq(Characters), NEW r \in Ranges(l), r.begin # LaterLine,
         NEW e, e = IF r.end = LaterLine THEN Size(l) ELSE Min({r.end + r.tokenLength, Size(l)})
  PROVE  /\ e \in Starts(l)
         /\ r.begin = EarlierLine \/ r.begin \in TokenStarts(l)
         /\ \A k \in 1 .. Len(l) :
              Start(l, k) < e <=>
                Start(l, k) < IF r.end = LaterLine THEN Size(l) ELSE r.end + r.tokenLength
         /\ \E t \in TokenStarts(l) :
              /\ t < e
              /\ (IF r.begin = EarlierLine THEN 0 ELSE r.begin) <= t
<1>1. /\ Size(l) \in Nat /\ Size(l) \in Starts(l) /\ Len(l) \in Nat
      /\ \A k \in 1 .. Len(l) : Start(l, k) \in Nat /\ Start(l, k) < Size(l)
  <2>1. Len(l) \in Nat /\ Len(l) + 1 \in 1 .. Len(l) + 1
    BY BytesAre
  <2>2. Size(l) = Start(l, Len(l) + 1) /\ Size(l) \in Nat /\ Size(l) \in Starts(l)
    BY <2>1, StartsAre
  <2>3. \A k \in 1 .. Len(l) : k \in 1 .. Len(l) + 1 /\ k < Len(l) + 1
    BY <2>1
  <2> QED
    BY <2>1, <2>2, <2>3, BytesAre
<1>2. ASSUME NEW t \in TokenStarts(l) PROVE t \in Nat /\ t < Size(l)
  <2>1. PICK k \in 1 .. Len(l) : t = Start(l, k)
    BY BytesAre DEF TokenStarts
  <2> QED
    BY <1>1, <2>1
<1>3. CASE r.end = LaterLine
  <2>1. e = Size(l)
    BY <1>3
  <2>2. r.begin \in TokenStarts(l) \/ (r.begin = EarlierLine /\ TokenStarts(l) # {})
    <3>1. \A q \in TokenStarts(l) \cup {EarlierLine} : q # LaterLine
      BY <1>2 DEF EarlierLine, LaterLine
    <3>2. r \notin {NoRange}
      BY DEF NoRange
    <3>3. ASSUME r \in [begin : TokenStarts(l) \cup {EarlierLine}, end : TokenStarts(l),
                        tokenLength : 1 .. Size(l) + 1]
          PROVE  FALSE
      <4>1. r.end \in TokenStarts(l)
        BY <3>3
      <4> QED
        BY <1>3, <3>1, <4>1
    <3>4. PICK b \in TokenStarts(l) \cup {n \in {EarlierLine} : TokenStarts(l) # {}} :
            r = [begin |-> b, end |-> LaterLine, tokenLength |-> 1]
      BY <3>2, <3>3 DEF Ranges
    <3> QED
      BY <3>4
  <2>3. CASE r.begin \in TokenStarts(l)
    <3>1. r.begin # EarlierLine
      BY <1>2, <2>3 DEF EarlierLine
    <3> QED
      BY <1>1, <1>2, <1>3, <2>1, <2>3, <3>1
  <2>4. CASE r.begin = EarlierLine /\ TokenStarts(l) # {}
    BY <1>1, <1>2, <1>3, <2>1, <2>4
  <2> QED
    BY <2>2, <2>3, <2>4
<1>4. CASE r.end # LaterLine
  <2>1. /\ r.begin \in TokenStarts(l) \cup {EarlierLine} /\ r.end \in TokenStarts(l)
        /\ r.tokenLength \in 1 .. Size(l) + 1 /\ r.begin <= r.end
        /\ \/ r.end + r.tokenLength > Size(l)
           \/ r.end + r.tokenLength \in Starts(l)
    <3>1. r \notin {NoRange}
      BY DEF NoRange
    <3>2. \A b : r # [begin |-> b, end |-> LaterLine, tokenLength |-> 1]
      BY <1>4
    <3> QED
      BY <3>1, <3>2 DEF Ranges
  <2>2. PICK t \in TokenStarts(l) : t = r.end
    BY <2>1
  <2>3. PICK n \in Nat \ {0} : n = r.tokenLength
    BY <1>1, <2>1
  <2>4. t \in Nat /\ t < Size(l)
    BY <1>2
  <2>5. e = Min({t + n, Size(l)})
    BY <1>4, <2>2, <2>3
  <2>6. e = IF t + n > Size(l) THEN Size(l) ELSE t + n
    <3>a. PICK S : S = {t + n, Size(l)}
      OBVIOUS
    <3>b. S \in SUBSET Int /\ t + n \in S /\ Size(l) \in S
      BY <1>1, <2>4, <3>a
    <3>1. CASE t + n > Size(l)
      <4>1. Min({t + n, Size(l)}) = Size(l)
        <5>1. \A y \in S : Size(l) <= y
          BY <1>1, <2>4, <3>a, <3>1
        <5> QED
          BY <3>a, <3>b, <5>1, MinIs
      <4> QED
        BY <2>5, <3>1, <4>1
    <3>2. CASE ~ t + n > Size(l)
      <4>1. Min({t + n, Size(l)}) = t + n
        <5>1. \A y \in S : t + n <= y
          BY <1>1, <2>4, <3>a, <3>2
        <5> QED
          BY <3>a, <3>b, <5>1, MinIs
      <4> QED
        BY <2>5, <3>2, <4>1
    <3> QED
      BY <3>1, <3>2
  <2>7. e \in Starts(l) /\ t < e
    BY <1>1, <2>1, <2>2, <2>3, <2>4, <2>6
  <2>8. \A k \in 1 .. Len(l) : Start(l, k) < e <=> Start(l, k) < t + n
    BY <1>1, <2>4, <2>6
  <2>9. (IF r.begin = EarlierLine THEN 0 ELSE r.begin) <= t
    BY <2>1, <2>2, <2>4
  <2> QED
    BY <1>4, <2>1, <2>2, <2>3, <2>7, <2>8, <2>9
<1> QED
  BY <1>3, <1>4

LEMMA RangeCovers ==
  ASSUME NEW l \in Seq(Characters), NEW r \in Ranges(l), r.begin # LaterLine
  PROVE  \E i, j \in 1 .. Len(l) : Covers(l, r, i, j)
<1>1. PICK e : e = IF r.end = LaterLine THEN Size(l) ELSE Min({r.end + r.tokenLength, Size(l)})
  OBVIOUS
<1>2. PICK b : b = IF r.begin = EarlierLine THEN 0 ELSE r.begin
  OBVIOUS
<1>3. PICK x : x = IF r.end = LaterLine THEN Size(l) ELSE r.end + r.tokenLength
  OBVIOUS
<1>4. /\ e \in Starts(l) /\ (r.begin = EarlierLine \/ r.begin \in TokenStarts(l))
      /\ \A k \in 1 .. Len(l) : Start(l, k) < e <=> Start(l, k) < x
      /\ \E t \in TokenStarts(l) : t < e /\ b <= t
  BY <1>1, <1>2, <1>3, EndOfRange
<1>5. /\ Len(l) \in Nat /\ DOMAIN l = 1 .. Len(l) /\ Size(l) \in Nat
      /\ \A k \in 1 .. Len(l) + 1 : Start(l, k) \in Nat /\ Start(l, k) <= Size(l)
  BY BytesAre, StartsAre
<1>6. \A t \in TokenStarts(l) : \E k \in 1 .. Len(l) : t = Start(l, k) /\ ~ IsBlank(l[k])
  BY <1>5 DEF TokenStarts
<1>7. b \in Nat /\ b <= Size(l)
  <2>1. CASE r.begin = EarlierLine
    BY <1>2, <1>5, <2>1
  <2>2. CASE r.begin # EarlierLine
    <3>1. PICK k \in 1 .. Len(l) : b = Start(l, k)
      BY <1>2, <1>4, <1>6, <2>2
    <3>2. k \in 1 .. Len(l) + 1
      BY <1>5
    <3> QED
      BY <1>5, <3>1, <3>2
  <2> QED
    BY <2>1, <2>2
<1>8. PICK seen : seen = {k \in DOMAIN l : ~IsBlank(l[k]) /\ b <= Start(l, k) /\ Start(l, k) < x}
  OBVIOUS
<1>9. seen = {k \in 1 .. Len(l) : ~IsBlank(l[k]) /\ b <= Start(l, k) /\ Start(l, k) < e}
  BY <1>4, <1>5, <1>8
<1>10. seen # {}
  <2>1. PICK t \in TokenStarts(l) : t < e /\ b <= t
    BY <1>4
  <2> QED
    BY <1>6, <1>9, <2>1
<1>11. PICK i \in seen : i = Min(seen) /\ \A y \in seen : i <= y
  <2>1. seen \in SUBSET Nat
    BY <1>5, <1>9
  <2> QED
    BY <1>10, <2>1, MinIsLeast
<1>12. PICK j \in seen : j = Max(seen) /\ \A y \in seen : j >= y
  <2>1. seen \in SUBSET (1 .. Len(l))
    BY <1>9
  <2> QED
    BY <1>5, <1>10, <2>1, MaxIsGreatest
<1>13. i \in 1 .. Len(l) /\ j \in 1 .. Len(l) /\ i <= j
  BY <1>9, <1>11
<1>14. Highlighted(l, r) = i .. j
  BY <1>2, <1>3, <1>8, <1>10, <1>11, <1>12 DEF Highlighted
<1>15. e \in Nat
  <2>1. PICK k \in 1 .. Len(l) + 1 : e = Start(l, k)
    BY <1>4, StartsAre
  <2> QED
    BY <1>5, <2>1
<1>16. \A k \in 1 .. Len(l) : k \in 1 .. Len(l) + 1 /\ Start(l, k) \in Nat
  BY <1>5
<1>17. SkipBlanksFrom(l, b) = Start(l, i)
  <2>1. ASSUME NEW k \in 1 .. Len(l), ~ IsBlank(l[k]), b <= Start(l, k) PROVE i <= k
    <3>1. CASE Start(l, k) < e
      BY <1>9, <1>11, <2>1, <3>1
    <3>2. CASE ~ Start(l, k) < e
      <4>1. Start(l, i) < Start(l, k)
        BY <1>9, <1>13, <1>15, <1>16, <3>2
      <4> QED
        BY <1>5, <1>13, <1>16, <4>1, StartsAre
    <3> QED
      BY <3>1, <3>2
  <2>2. ~ IsBlank(l[i]) /\ b <= Start(l, i)
    BY <1>9
  <2> QED
    BY <1>7, <1>13, <2>1, <2>2, FirstSeen
<1>18. SkipBlanksBefore(l, e) = Start(l, j + 1)
  <2>1. ASSUME NEW k \in 1 .. Len(l), ~ IsBlank(l[k]), Start(l, k) < e PROVE k <= j
    <3>1. CASE b <= Start(l, k)
      BY <1>9, <1>12, <2>1, <3>1
    <3>2. CASE ~ b <= Start(l, k)
      <4>1. Start(l, k) < Start(l, j)
        BY <1>7, <1>9, <1>13, <1>16, <3>2
      <4>2. k < j
        BY <1>13, <1>16, <4>1, StartsAre
      <4> QED
        BY <1>13, <4>2
    <3> QED
      BY <3>1, <3>2
  <2>2. ~ IsBlank(l[j]) /\ Start(l, j) < e
    BY <1>9
  <2> QED
    BY <1>4, <1>13, <2>1, <2>2, LastSeen
<1> QED
  BY <1>1, <1>2, <1>13, <1>14, <1>17, <1>18 DEF Covers

-----------------------------------------------------------------------------
(* The caret line.                                                         *)

Fills(t, S, s, n, blank) ==
  /\ t \in Seq(S)
  /\ Len(s) < n => Len(t) = n
  /\ ~ Len(s) < n => Len(t) = Len(s)
  /\ \A c \in 1 .. Len(t) : c <= Len(s) => t[c] = s[c]
  /\ \A c \in 1 .. Len(t) : ~ c <= Len(s) => t[c] = blank

LEMMA FilledIs ==
  ASSUME NEW S, NEW s \in Seq(S), NEW n \in Nat, NEW blank \in S
  PROVE  Fills(Filled(s, n, blank), S, s, n, blank)
<1>1. Len(s) \in Nat /\ \A c \in 1 .. Len(s) : s[c] \in S
  BY LenProperties, ElementOfSeq
<1>2. PICK m \in Nat : m = IF Len(s) < n THEN n ELSE Len(s)
  BY <1>1
<1>3. Max({Len(s), n}) = m
  <2>1. PICK T : T = {Len(s), n}
    OBVIOUS
  <2>2. T \in SUBSET Int /\ m \in T /\ \A y \in T : y <= m
    BY <1>1, <1>2, <2>1
  <2> QED
    BY <2>1, <2>2, MaxIs
<1>a. PICK t : t = Filled(s, n, blank)
  OBVIOUS
<1>4. t = [c \in 1 .. m |-> IF c <= Len(s) THEN s[c] ELSE blank]
  BY <1>3, <1>a DEF Filled
<1>5. \A c \in 1 .. m : c <= Len(s) => c \in 1 .. Len(s)
  BY <1>1
<1>6. t \in [1 .. m -> S]
  BY <1>1, <1>4, <1>5
<1>7. t \in Seq(S) /\ Len(t) = m
  BY <1>6, LenProperties
<1> QED
  BY <1>a, <1>2, <1>4, <1>7 DEF Fills

LEMMA ColumnOrder ==
  ASSUME NEW l \in Seq(Characters), NEW j \in 1 .. Len(l) + 1, NEW k \in 1 .. Len(l) + 1, j <= k
  PROVE  /\ Column(l, j) \in Nat /\ Column(l, k) \in Nat /\ Column(l, j) <= Column(l, k)
<1>1. Len(l) \in Nat
  BY BytesAre
<1>2. Column(l, j) \in Nat /\ Column(l, k) \in Nat
  BY ColumnsAre
<1>3. j < k \/ j = k
  BY <1>1
<1>4. j < k => Column(l, j) < Column(l, k)
  BY ColumnsAre
<1> QED
  BY <1>2, <1>3, <1>4

LEMMA CoveredColumns ==
  ASSUME NEW l \in Seq(Characters), NEW i \in 1 .. Len(l), NEW j \in 1 .. Len(l),
         NEW c \in 1 .. Len(Printed(l))
  PROVE  Printed(l)[c] \in i .. j <=> Column(l, i) < c /\ c <= Column(l, j + 1)
<1>1. Len(l) \in Nat
  BY BytesAre
<1>2. PICK k \in 1 .. Len(l) : k = Printed(l)[c]
  BY PrintedIs
<1>3. Column(l, k) < c /\ c <= Column(l, k + 1)
  BY <1>2, PrintedIs
<1>4. /\ i \in 1 .. Len(l) + 1 /\ k \in 1 .. Len(l) + 1
      /\ k + 1 \in 1 .. Len(l) + 1 /\ j + 1 \in 1 .. Len(l) + 1
  BY <1>1
<1>5. PICK ci \in Nat : ci = Column(l, i)
  BY <1>4, ColumnsAre
<1>6. PICK ck \in Nat : ck = Column(l, k)
  BY <1>4, ColumnsAre
<1>7. PICK cn \in Nat : cn = Column(l, k + 1)
  BY <1>4, ColumnsAre
<1>8. PICK cj \in Nat : cj = Column(l, j + 1)
  BY <1>4, ColumnsAre
<1>9. /\ i <= k => ci <= ck
      /\ ~ i <= k => cn <= ci
      /\ k <= j => cn <= cj
      /\ ~ k <= j => cj <= ck
  <2>1. /\ ~ i <= k => k + 1 <= i
        /\ k <= j => k + 1 <= j + 1
        /\ ~ k <= j => j + 1 <= k
    BY <1>1
  <2>2. i <= k => ci <= ck
    BY <1>4, <1>5, <1>6, ColumnOrder
  <2>3. ~ i <= k => cn <= ci
    BY <1>4, <1>5, <1>7, <2>1, ColumnOrder
  <2>4. k <= j => cn <= cj
    BY <1>4, <1>7, <1>8, <2>1, ColumnOrder
  <2>5. ~ k <= j => cj <= ck
    BY <1>4, <1>6, <1>8, <2>1, ColumnOrder
  <2> QED
    BY <2>2, <2>3, <2>4, <2>5
<1>10. ck < c /\ c <= cn /\ c \in Nat
  <2>1. Len(Printed(l)) \in Nat
    BY PrintedIs, LenProperties
  <2> QED
    BY <1>3, <1>6, <1>7, <2>1
<1>11. k \in i .. j <=> ci < c /\ c <= cj
  BY <1>9, <1>10
<1> QED
  BY <1>2, <1>5, <1>8, <1>11

LEMMA MarksDiffer == Space # "~" /\ Space # "^" /\ "~" # "^"
BY Zenon DEF Space

(* What is highlighted by the first n of the ranges.                       *)
Lit(l, ranges, n) ==
  {c \in 1 .. Len(Printed(l)) : \E i \in 1 .. n : Printed(l)[c] \in Highlighted(l, ranges[i])}

Marked(l, lit, s) ==
  /\ s \in Seq({Space, "~"})
  /\ \A c \in 1 .. Len(s) : s[c] = "~" <=> c \in lit
  /\ lit \subseteq 1 .. Len(s)

LEMMA NothingMarked ==
  ASSUME NEW l \in Seq(Characters), NEW ranges, NEW n \in Nat
  PROVE  Marked(l, Lit(l, ranges, 0), Filled(<< >>, n, Space))
<1>1. PICK S : S = {Space, "~"}
  OBVIOUS
<1>2. << >> \in Seq(S)
  OBVIOUS
<1>3. PICK e \in Seq(S) : e = << >> /\ Len(e) = 0
  <2>1. PICK e \in Seq(S) : e = << >>
    BY <1>2
  <2> QED
    BY <2>1, EmptySeq
<1>b. PICK blank \in S : blank = Space
  BY <1>1
<1>4. PICK s : s = Filled(e, n, blank)
  OBVIOUS
<1>5. /\ s \in Seq(S)
      /\ Len(e) < n => Len(s) = n
      /\ ~ Len(e) < n => Len(s) = Len(e)
      /\ \A c \in 1 .. Len(s) : ~ c <= Len(e) => s[c] = blank
  <2>1. Fills(s, S, e, n, blank)
    BY <1>4, FilledIs
  <2> QED
    BY <2>1 DEF Fills
<1>6. Len(s) = n /\ \A c \in 1 .. n : s[c] = Space
  BY <1>b, <1>3, <1>5
<1>7. Lit(l, ranges, 0) = {}
  BY DEF Lit
<1>8. \A c \in 1 .. n : s[c] # "~"
  BY <1>6, MarksDiffer
<1> QED
  BY <1>1, <1>b, <1>3, <1>4, <1>5, <1>6, <1>7, <1>8 DEF Marked

LEMMA OneMoreMarked ==
  ASSUME NEW l \in Seq(Characters), NEW ranges, NEW n \in Nat \ {0}, ranges[n] \in Ranges(l),
         NEW s, Marked(l, Lit(l, ranges, n - 1), s)
  PROVE  Marked(l, Lit(l, ranges, n), highlightRange(l, ranges[n], s))
<1>1. PICK r : r = ranges[n]
  OBVIOUS
<1>2. Lit(l, ranges, n) = Lit(l, ranges, n - 1)
        \cup {c \in 1 .. Len(Printed(l)) : Printed(l)[c] \in Highlighted(l, r)}
  <2>1. \A i : i \in 1 .. n <=> i \in 1 .. n - 1 \/ i = n
    OBVIOUS
  <2> QED
    BY <1>1, <2>1 DEF Lit
<1>3. CASE r.begin = LaterLine
  <2>1. Highlighted(l, r) = {}
    BY <1>3 DEF Highlighted
  <2>2. highlightRange(l, r, s) = s
    BY <1>3 DEF highlightRange
  <2>3. Lit(l, ranges, n) = Lit(l, ranges, n - 1)
    BY <1>2, <2>1
  <2> QED
    BY <1>1, <2>2, <2>3
<1>4. CASE r.begin # LaterLine
  <2>1. PICK i \in 1 .. Len(l), j \in 1 .. Len(l) : Covers(l, r, i, j)
    BY <1>1, <1>4, RangeCovers
  <2>2. Len(l) \in Nat /\ i \in 1 .. Len(l) + 1 /\ j + 1 \in 1 .. Len(l) + 1
        /\ Len(l) + 1 \in 1 .. Len(l) + 1 /\ i <= j + 1 /\ j + 1 <= Len(l) + 1
    <3>1. Len(l) \in Nat
      BY BytesAre
    <3> QED
      BY <2>1, <3>1 DEF Covers
  <2>3. PICK from \in Nat : from = Column(l, i)
    BY <2>2, ColumnsAre
  <2>4. PICK to \in Nat : to = Column(l, j + 1)
    BY <2>2, ColumnsAre
  <2>5. Len(Printed(l)) \in Nat /\ to <= Len(Printed(l))
    <3>1. PICK e \in 1 .. Len(l) + 1 : e = j + 1
      BY <2>2
    <3>2. PICK z \in 1 .. Len(l) + 1 : z = Len(l) + 1
      BY <2>2
    <3>3. e <= z
      BY <2>2, <3>1, <3>2
    <3>4. Column(l, e) <= Column(l, z) /\ Column(l, z) \in Nat
      BY <3>3, ColumnOrder
    <3>5. Len(Printed(l)) = Column(l, z)
      BY <3>2, PrintedIs
    <3> QED
      BY <2>4, <3>1, <3>4, <3>5
  <2>6. PICK t : t = Filled(s, to, Space)
    OBVIOUS
  <2>7. highlightRange(l, r, s) =
          [c \in DOMAIN t |-> IF from < c /\ c <= to THEN "~" ELSE t[c]]
    <3>1. byteToContainingColumn(l, Start(l, i)) = from
      BY <2>2, <2>3, ColumnOfStart
    <3>2. byteToContainingColumn(l, Start(l, j + 1)) = to
      BY <2>2, <2>4, ColumnOfStart
    <3>3. SkipBlanksFrom(l, IF r.begin = EarlierLine THEN 0 ELSE r.begin) = Start(l, i)
      BY <2>1 DEF Covers
    <3>4. SkipBlanksBefore(l, IF r.end = LaterLine THEN Size(l)
                              ELSE Min({r.end + r.tokenLength, Size(l)})) = Start(l, j + 1)
      BY <2>1 DEF Covers
    <3> QED
      BY <1>4, <2>6, <3>1, <3>2, <3>3, <3>4, Zenon DEF highlightRange
  <2>8. PICK S : S = {Space, "~"}
    OBVIOUS
  <2>9. s \in Seq(S) /\ Space \in S /\ Len(s) \in Nat
    BY <2>8, LenProperties DEF Marked
  <2>10. /\ t \in Seq(S)
         /\ Len(s) < to => Len(t) = to
         /\ ~ Len(s) < to => Len(t) = Len(s)
         /\ \A c \in 1 .. Len(t) : c <= Len(s) => t[c] = s[c]
         /\ \A c \in 1 .. Len(t) : ~ c <= Len(s) => t[c] = Space
    <3>1. Fills(t, S, s, to, Space)
      BY <2>6, <2>9, FilledIs
    <3> QED
      BY <3>1 DEF Fills
  <2>11. /\ DOMAIN t = 1 .. Len(t) /\ Len(t) \in Nat /\ \A c \in 1 .. Len(t) : t[c] \in S
    BY <2>10, LenProperties, ElementOfSeq
  <2>12. PICK u : u = highlightRange(l, r, s)
    OBVIOUS
  <2>13. /\ u = [c \in 1 .. Len(t) |-> IF from < c /\ c <= to THEN "~" ELSE t[c]]
    BY <2>7, <2>11, <2>12
  <2>14. u \in [1 .. Len(t) -> S]
    BY <2>8, <2>11, <2>13
  <2>15. u \in Seq(S) /\ Len(u) = Len(t)
    BY <2>11, <2>14, LenProperties
  <2>16. PICK old : old = Lit(l, ranges, n - 1)
    OBVIOUS
  <2>17. \A c : c \in Lit(l, ranges, n) <=> c \in old \/ (c \in Nat /\ from < c /\ c <= to)
    <3>1. \A c \in 1 .. Len(Printed(l)) : Printed(l)[c] \in Highlighted(l, r) <=> from < c /\ c <= to
      BY <2>1, <2>3, <2>4, CoveredColumns DEF Covers
    <3>2. \A c \in Nat : from < c /\ c <= to => c \in 1 .. Len(Printed(l))
      BY <2>5
    <3> QED
      BY <1>2, <2>5, <2>16, <3>1, <3>2
  <2>18. old \subseteq 1 .. Len(s) /\ \A c \in 1 .. Len(s) : s[c] = "~" <=> c \in old
    BY <2>16 DEF Marked
  <2>19. ASSUME NEW c \in 1 .. Len(u) PROVE u[c] = "~" <=> c \in Lit(l, ranges, n)
    <3>1. c \in Nat /\ c \in 1 .. Len(t)
      BY <2>11, <2>15
    <3>2. CASE from < c /\ c <= to
      BY <2>13, <2>17, <3>1, <3>2
    <3>3. CASE ~(from < c /\ c <= to)
      <4>1. u[c] = t[c]
        BY <2>13, <3>1, <3>3
      <4>2. t[c] = "~" <=> c \in old
        <5>1. CASE c <= Len(s)
          <6>1. c \in 1 .. Len(s) /\ t[c] = s[c]
            BY <2>4, <2>9, <2>10, <3>1, <5>1
          <6> QED
            BY <2>18, <6>1
        <5>2. CASE ~ c <= Len(s)
          <6>1. c \notin 1 .. Len(s) /\ t[c] = Space
            BY <2>4, <2>9, <2>10, <3>1, <5>2
          <6>2. c \notin old /\ t[c] # "~"
            BY <2>18, <6>1, MarksDiffer
          <6> QED
            BY <6>2
        <5> QED
          BY <5>1, <5>2
      <4> QED
        BY <2>17, <3>3, <4>1, <4>2
    <3> QED
      BY <3>2, <3>3
  <2>20. Lit(l, ranges, n) \subseteq 1 .. Len(u)
    <3>1. Len(t) \in Nat /\ Len(s) <= Len(t) /\ to <= Len(t)
      BY <2>4, <2>9, <2>10, <2>11
    <3>2. \A c \in old : c \in 1 .. Len(t)
      BY <2>9, <2>18, <3>1
    <3>3. \A c \in Nat : from < c /\ c <= to => c \in 1 .. Len(t)
      BY <3>1
    <3> QED
      BY <2>15, <2>17, <3>2, <3>3
  <2> QED
    BY <1>1, <2>8, <2>12, <2>15, <2>19, <2>20 DEF Marked
<1> QED
  BY <1>3, <1>4

IsDrawn(f, l, ranges, base) ==
  f = [i \in 0 .. Len(ranges) |->
         IF i = 0 THEN base ELSE highlightRange(l, ranges[i], f[i - 1])]

LEMMA DrawnExists ==
  ASSUME NEW l, NEW ranges, NEW base, Len(ranges) \in Nat
  PROVE  \E f : IsDrawn(f, l, ranges, base)
<1> DEFINE Good(n, f) == /\ f = [i \in 0 .. n |-> f[i]] /\ f[0] = base
                         /\ \A i \in 1 .. n : f[i] = highlightRange(l, ranges[i], f[i - 1])
           Bad == {n \in 0 .. Len(ranges) : ~ \E f : Good(n, f)}
<1>1. ASSUME Bad # {} PROVE FALSE
  <2>1. PICK n \in Bad : \A m \in Bad : n <= m
    <3>1. Bad \in SUBSET Nat
      OBVIOUS
    <3> HIDE DEF Bad
    <3> QED
      BY <1>1, <3>1, LeastElement
  <2>2. n \in 0 .. Len(ranges) /\ ~ \E f : Good(n, f)
    BY <2>1
  <2>3. CASE n = 0
    <3>1. PICK f : f = [i \in 0 .. 0 |-> base]
      OBVIOUS
    <3>2. f = [i \in 0 .. 0 |-> f[i]] /\ f[0] = base
      BY <3>1
    <3>3. Good(0, f)
      BY <3>2
    <3> QED
      BY <2>2, <2>3, <3>3
  <2>4. CASE n # 0
    <3>1. n - 1 \in 0 .. Len(ranges) /\ ~ n <= n - 1 /\ n \in Nat
      BY <2>2, <2>4
    <3>2. n - 1 \notin Bad
      <4> HIDE DEF Bad
      <4> QED
        BY <2>1, <3>1
    <3>3. PICK f : Good(n - 1, f)
      BY <3>1, <3>2
    <3>4. PICK g : g = [i \in 0 .. n |-> IF i < n THEN f[i] ELSE highlightRange(l, ranges[n], f[n - 1])]
      OBVIOUS
    <3>5. g = [i \in 0 .. n |-> g[i]] /\ g[0] = base
      BY <2>4, <3>1, <3>3, <3>4
    <3>6. ASSUME NEW i \in 1 .. n PROVE g[i] = highlightRange(l, ranges[i], g[i - 1])
      <4>1. i - 1 \in 0 .. n /\ i - 1 < n /\ i \in 0 .. n /\ (i = n \/ i \in 1 .. n - 1)
        BY <3>1
      <4>2. g[i - 1] = f[i - 1]
        BY <3>4, <4>1
      <4>3. CASE i = n
        <5>1. g[i] = highlightRange(l, ranges[n], f[n - 1])
          BY <3>1, <3>4, <4>1, <4>3
        <5> QED
          BY <4>2, <4>3, <5>1
      <4>4. CASE i \in 1 .. n - 1
        <5>1. g[i] = f[i]
          BY <3>1, <3>4, <4>1, <4>4
        <5>2. f[i] = highlightRange(l, ranges[i], f[i - 1])
          BY <3>3, <4>4
        <5> QED
          BY <4>2, <5>1, <5>2
      <4> QED
        BY <4>1, <4>3, <4>4
    <3>7. Good(n, g)
      BY <3>5, <3>6
    <3> QED
      BY <2>2, <3>7
  <2> QED
    BY <2>3, <2>4
<1>2. PICK f : Good(Len(ranges), f)
  <2>1. Len(ranges) \in 0 .. Len(ranges)
    OBVIOUS
  <2>2. Len(ranges) \notin Bad
    BY <1>1
  <2> QED
    BY <2>1, <2>2
<1>3. \A i \in 0 .. Len(ranges) :
        f[i] = IF i = 0 THEN base ELSE highlightRange(l, ranges[i], f[i - 1])
  <2> SUFFICES ASSUME NEW i \in 0 .. Len(ranges)
               PROVE  f[i] = IF i = 0 THEN base ELSE highlightRange(l, ranges[i], f[i - 1])
    OBVIOUS
  <2>1. i = 0 \/ i \in 1 .. Len(ranges)
    OBVIOUS
  <2> QED
    BY <1>2, <2>1
<1>4. f = [i \in 0 .. Len(ranges) |->
             IF i = 0 THEN base ELSE highlightRange(l, ranges[i], f[i - 1])]
  <2>1. f = [i \in 0 .. Len(ranges) |-> f[i]]
    BY <1>2
  <2> QED
    BY <1>3, <2>1
<1> QED
  BY <1>4 DEF IsDrawn

LEMMA DrawnMarked ==
  ASSUME NEW l \in Seq(Characters), NEW ranges \in Seq(Ranges(l)), NEW base,
         Marked(l, Lit(l, ranges, 0), base), NEW f, IsDrawn(f, l, ranges, base)
  PROVE  Marked(l, Lit(l, ranges, Len(ranges)), f[Len(ranges)])
<1>1. Len(ranges) \in Nat /\ \A i \in 1 .. Len(ranges) : ranges[i] \in Ranges(l)
  BY LenProperties, ElementOfSeq
<1> DEFINE Bad == {n \in 0 .. Len(ranges) : ~ Marked(l, Lit(l, ranges, n), f[n])}
<1>2. ASSUME Bad # {} PROVE FALSE
  <2>1. PICK n \in Bad : \A m \in Bad : n <= m
    <3>1. Bad \in SUBSET Nat
      BY <1>1
    <3> HIDE DEF Bad
    <3> QED
      BY <1>2, <3>1, LeastElement
  <2>2. n \in 0 .. Len(ranges) /\ ~ Marked(l, Lit(l, ranges, n), f[n])
    BY <2>1
  <2>3. n # 0
    <3>1. 0 \in 0 .. Len(ranges)
      BY <1>1
    <3>2. f[0] = base
      BY <3>1 DEF IsDrawn
    <3> QED
      BY <2>2, <3>2
  <2>4. n - 1 \in 0 .. Len(ranges) /\ ~ n <= n - 1 /\ n \in Nat \ {0} /\ n \in 1 .. Len(ranges)
    BY <1>1, <2>2, <2>3
  <2>5. n - 1 \notin Bad
    <3> HIDE DEF Bad
    <3> QED
      BY <2>1, <2>4
  <2>6. Marked(l, Lit(l, ranges, n - 1), f[n - 1])
    BY <2>4, <2>5
  <2>7. f[n] = highlightRange(l, ranges[n], f[n - 1])
    BY <2>2, <2>3 DEF IsDrawn
  <2> QED
    BY <1>1, <2>2, <2>4, <2>6, <2>7, OneMoreMarked
<1>3. Len(ranges) \in 0 .. Len(ranges)
  BY <1>1
<1>4. Len(ranges) \notin Bad
  BY <1>2
<1> QED
  BY <1>3, <1>4

(* The caret is put at column n of what was highlighted.                   *)
PointedAt(cl, m, lit) ==
  /\ cl \in Seq({Space, "~", "^"})
  /\ m \in 1 .. Len(cl) /\ cl[m] = "^"
  /\ \A c \in 1 .. Len(cl) : c # m => cl[c] # "^" /\ (cl[c] = "~" <=> c \in lit)
  /\ lit \subseteq 1 .. Len(cl)

Pointed(cl, n, lit) == PointedAt(cl, n + 1, lit)

LEMMA CaretPut ==
  ASSUME NEW l, NEW lit, NEW s, Marked(l, lit, s), NEW n \in Nat
  PROVE  Pointed([Filled(s, n + 1, Space) EXCEPT ![n + 1] = "^"], n, lit)
<1>m. PICK m \in Nat : m = n + 1 /\ 1 <= m
  OBVIOUS
<1>1. PICK S : S = {Space, "~"}
  OBVIOUS
<1>2. PICK t : t = Filled(s, m, Space)
  OBVIOUS
<1>3. s \in Seq(S) /\ Space \in S /\ Len(s) \in Nat
  BY <1>1, LenProperties DEF Marked
<1>4. Fills(t, S, s, m, Space)
  BY <1>2, <1>3, FilledIs
<1>f. /\ t \in Seq(S)
      /\ Len(s) < m => Len(t) = m
      /\ ~ Len(s) < m => Len(t) = Len(s)
      /\ \A c \in 1 .. Len(t) : c <= Len(s) => t[c] = s[c]
      /\ \A c \in 1 .. Len(t) : ~ c <= Len(s) => t[c] = Space
  BY <1>4 DEF Fills
<1>5. /\ t \in Seq(S) /\ Len(t) \in Nat /\ DOMAIN t = 1 .. Len(t) /\ m \in 1 .. Len(t)
      /\ Len(s) <= Len(t) /\ \A c \in 1 .. Len(t) : t[c] \in S
  <2>2. Len(t) \in Nat /\ DOMAIN t = 1 .. Len(t) /\ \A c \in 1 .. Len(t) : t[c] \in S
    BY <1>f, LenProperties, ElementOfSeq
  <2>3. PICK a \in Nat : a = Len(t)
    BY <2>2
  <2>4. PICK b \in Nat : b = Len(s)
    BY <1>3
  <2>5. (b < m => a = m) /\ (~ b < m => a = b)
    BY <1>f, <2>3, <2>4
  <2>6. m \in 1 .. a /\ b <= a
    BY <1>m, <2>5
  <2> QED
    BY <1>f, <2>2, <2>3, <2>4, <2>6
<1>6. PICK u : u = [t EXCEPT ![m] = "^"]
  OBVIOUS
<1>7. PICK M : M = {Space, "~", "^"}
  OBVIOUS
<1>8. /\ u \in [1 .. Len(t) -> M] /\ u[m] = "^"
      /\ \A c \in 1 .. Len(t) : c # m => u[c] = t[c]
  <2>1. \A x \in S : x \in M
    BY <1>1, <1>7
  <2>2. t \in [1 .. Len(t) -> M]
    <3>1. t = [c \in 1 .. Len(t) |-> t[c]]
      BY <1>5, LenProperties
    <3> QED
      BY <1>5, <2>1, <3>1
  <2> QED
    BY <1>5, <1>6, <1>7, <2>2
<1>9. u \in Seq(M) /\ Len(u) = Len(t)
  BY <1>5, <1>8, LenProperties
<1>10. ASSUME NEW c \in 1 .. Len(t) PROVE t[c] # "^" /\ (t[c] = "~" <=> c \in lit)
  <2>1. t[c] # "^"
    BY <1>1, <1>5, MarksDiffer
  <2>0. c \in Nat /\ 1 <= c
    BY <1>5
  <2>2. CASE c <= Len(s)
    <3>1. c \in 1 .. Len(s)
      BY <1>3, <2>0, <2>2
    <3>2. t[c] = s[c]
      BY <1>f, <2>2
    <3>3. s[c] = "~" <=> c \in lit
      BY <3>1 DEF Marked
    <3> QED
      BY <2>1, <3>2, <3>3
  <2>3. CASE ~ c <= Len(s)
    <3>1. c \notin 1 .. Len(s)
      BY <1>3, <2>0, <2>3
    <3>2. t[c] = Space
      BY <1>f, <2>3
    <3>3. c \notin lit
      BY <3>1 DEF Marked
    <3> QED
      BY <2>1, <3>2, <3>3, MarksDiffer
  <2> QED
    BY <2>2, <2>3
<1>11. lit \subseteq 1 .. Len(t)
  <2>1. lit \subseteq 1 .. Len(s)
    BY DEF Marked
  <2>2. 1 .. Len(s) \subseteq 1 .. Len(t)
    BY <1>3, <1>5
  <2> QED
    BY <2>1, <2>2
<1>12. PointedAt(u, m, lit)
  <2>1. \A c \in 1 .. Len(u) : c # m => u[c] # "^" /\ (u[c] = "~" <=> c \in lit)
    BY <1>8, <1>9, <1>10
  <2> QED
    BY <1>5, <1>7, <1>8, <1>9, <1>11, <2>1 DEF PointedAt
<1> QED
  BY <1>2, <1>6, <1>12, <1>m DEF Pointed

(* The blanks at the end are left out.                                     *)
LEMMA StillPointed ==
  ASSUME NEW cl, NEW p \in Nat, NEW lit, PointedAt(cl, p, lit)
  PROVE  PointedAt(SubSeq(cl, 1, Max({c \in DOMAIN cl : cl[c] # Space})), p, lit)
<1>1. PICK M : M = {Space, "~", "^"}
  OBVIOUS
<1>2. /\ cl \in Seq(M) /\ p \in 1 .. Len(cl) /\ cl[p] = "^"
      /\ \A c \in 1 .. Len(cl) : c # p => cl[c] # "^" /\ (cl[c] = "~" <=> c \in lit)
      /\ lit \subseteq 1 .. Len(cl)
  BY <1>1 DEF PointedAt
<1>3. Len(cl) \in Nat /\ DOMAIN cl = 1 .. Len(cl) /\ \A c \in 1 .. Len(cl) : cl[c] \in M
  BY <1>2, LenProperties, ElementOfSeq
<1>4. PICK S : S = {c \in DOMAIN cl : cl[c] # Space}
  OBVIOUS
<1>5. p \in S
  BY <1>2, <1>3, <1>4, MarksDiffer
<1>6. S \in SUBSET (1 .. Len(cl)) /\ S \in SUBSET Int
  BY <1>3, <1>4
<1>7. PICK m \in S : \A c \in S : m >= c
  BY <1>3, <1>5, <1>6, GreatestElement
<1>8. Max(S) = m
  <2>1. \A c \in S : c <= m
    BY <1>6, <1>7
  <2> QED
    BY <1>6, <2>1, MaxIs
<1>9. m \in 1 .. Len(cl) /\ m \in Nat
  BY <1>3, <1>6
<1>10. PICK s : s = SubSeq(cl, 1, m)
  OBVIOUS
<1>11. /\ s \in Seq(M) /\ Len(s) = m
       /\ \A c \in 1 .. m : s[c] = cl[c]
  <2>1. \A c \in 1 .. m : c \in 1 .. Len(cl)
    BY <1>3, <1>9
  <2>2. s \in Seq(M)
    BY <1>2, <1>3, <1>9, <1>10, <2>1, SubSeqProperties
  <2>3. Len(s) = m
    BY <1>2, <1>3, <1>9, <1>10, <2>1, SubSeqProperties
  <2>4. \A c \in 1 .. m : s[c] = cl[c]
    BY <1>2, <1>3, <1>9, <1>10, <2>1, SubSeqProperties
  <2> QED
    BY <2>2, <2>3, <2>4
<1>12. lit \subseteq 1 .. m
  <2> SUFFICES ASSUME NEW c \in lit PROVE c \in 1 .. m
    OBVIOUS
  <2>1. c \in 1 .. Len(cl)
    BY <1>2
  <2>2. c \in S
    <3>1. CASE c = p
      BY <1>5, <3>1
    <3>2. CASE c # p
      <4>1. cl[c] = "~"
        BY <1>2, <2>1, <3>2
      <4> QED
        BY <1>3, <1>4, <2>1, <4>1, MarksDiffer
    <3> QED
      BY <3>1, <3>2
  <2> QED
    BY <1>3, <1>7, <1>9, <2>1, <2>2
<1>13. p \in 1 .. m
  BY <1>2, <1>3, <1>5, <1>7, <1>9
<1>14. \A c \in 1 .. m : c \in 1 .. Len(cl)
  BY <1>3, <1>9
<1>15. PointedAt(s, p, lit)
  <2>1. s[p] = "^"
    BY <1>2, <1>11, <1>13
  <2>2. \A c \in 1 .. Len(s) : c # p => s[c] # "^" /\ (s[c] = "~" <=> c \in lit)
    BY <1>2, <1>11, <1>14
  <2> QED
    BY <1>1, <1>11, <1>12, <1>13, <2>1, <2>2 DEF PointedAt
<1> QED
  BY <1>4, <1>8, <1>10, <1>15

-----------------------------------------------------------------------------
(* What holds in every state.                                              *)

Described(l) ==
  [Loc : Int, Level : {"note", "error"}, Ranges : Seq(Ranges(l)), Hints : Seq(Hints(l)), next : Nat]

AllLit == Lit(line, diagnostic.Ranges, Len(diagnostic.Ranges))
CaretColumn == byteToContainingColumn(line, diagnostic.Loc)

CaretInv ==
  /\ line \in Lines
  /\ diagnostic \in Described(line)
  /\ stage \in {"idle", "suppressed", "ranges", "hints", "snippet", "printed"}
  /\ stage \in {"ranges", "hints", "snippet", "printed"} =>
       diagnostic.Loc \in Locations(line)
  /\ stage = "ranges" => CaretLine = Filled(<< >>, Size(line), Space)
  /\ stage \in {"hints", "snippet", "printed"} => Pointed(CaretLine, CaretColumn, AllLit)
  /\ stage = "printed" => printed = Printed(line)

LEMMA BoundedIsSeq ==
  ASSUME NEW S, NEW n \in Nat, NEW s \in BoundedSeq(S, n)
  PROVE  s \in Seq(S)
<1>1. PICK m \in 0 .. n : s \in [1 .. m -> S]
  BY DEF BoundedSeq, SeqOf
<1> QED
  BY <1>1

(* Where the character is that a diagnostic is for.                        *)
LEMMA LocIs ==
  ASSUME NEW l \in Seq(Characters), NEW b \in Locations(l)
  PROVE  \E k \in 1 .. Len(l) + 1 : /\ b = Start(l, k)
                                    /\ byteToContainingColumn(l, b) = Column(l, k)
                                    /\ b = Size(l) <=> k = Len(l) + 1
<1>1. Len(l) \in Nat /\ DOMAIN l = 1 .. Len(l) /\ Len(l) + 1 \in 1 .. Len(l) + 1
  BY BytesAre
<1>2. PICK k \in 1 .. Len(l) + 1 : b = Start(l, k)
  <2>1. CASE b = Size(l)
    BY <1>1, <2>1 DEF Size
  <2>2. CASE b \in TokenStarts(l)
    <3>1. PICK k \in 1 .. Len(l) : b = Start(l, k)
      BY <1>1, <2>2 DEF TokenStarts
    <3>2. k \in 1 .. Len(l) + 1
      BY <1>1
    <3> QED
      BY <3>1, <3>2
  <2>3. CASE b \in TokenEnds(l)
    <3>1. PICK j \in 1 .. Len(l) : b = Start(l, j + 1)
      BY <1>1, <2>3 DEF TokenEnds
    <3>2. j + 1 \in 1 .. Len(l) + 1
      BY <1>1
    <3> QED
      BY <3>1, <3>2
  <2> QED
    BY <2>1, <2>2, <2>3 DEF Locations
<1>3. byteToContainingColumn(l, b) = Column(l, k)
  BY <1>2, ColumnOfStart
<1>4. b = Size(l) <=> k = Len(l) + 1
  <2>1. Size(l) = Start(l, Len(l) + 1)
    BY DEF Size
  <2> QED
    BY <1>1, <1>2, <2>1, StartsAre
<1> QED
  BY <1>2, <1>3, <1>4

LEMMA CaretStarts ==
  ASSUME SnippetInit
  PROVE  CaretInv
<1>1. diagnostic \in Described(line)
  <2>1. << >> \in Seq(Ranges(line)) /\ << >> \in Seq(Hints(line))
    OBVIOUS
  <2> QED
    BY <2>1 DEF SnippetInit, NoDiagnostic, Described
<1> QED
  BY <1>1 DEF SnippetInit, CaretInv

LEMMA CaretEmit ==
  ASSUME CaretInv, emitDiagnostic
  PROVE  CaretInv'
<1>1. line' = line /\ line \in Lines
  BY DEF CaretInv, emitDiagnostic
<1>2. MaxParts \in Nat
  BY NumbersAssumption
<1>3. PICK loc \in Locations(line), level \in {"note", "error"},
           ranges \in BoundedSeq(Ranges(line), MaxParts), hints \in BoundedSeq(Hints(line), MaxParts) :
        /\ diagnostic' = [Loc |-> loc, Level |-> level, Ranges |-> ranges, Hints |-> hints, next |-> 1]
        /\ \/ stage' = "suppressed"
           \/ stage' = "ranges" /\ CaretLine' = Filled(<< >>, Size(line), Space)
  BY DEF emitDiagnostic
<1>4. ranges \in Seq(Ranges(line)) /\ hints \in Seq(Hints(line))
  BY <1>2, BoundedIsSeq
<1>5. loc \in Int
  <2>1. line \in Seq(Characters)
    BY <1>1, LinesAssumption
  <2>2. PICK k \in 1 .. Len(line) + 1 : loc = Start(line, k)
    BY <2>1, LocIs
  <2> QED
    BY <2>1, <2>2, BytesAre
<1>6. diagnostic' \in Described(line') /\ diagnostic'.Loc = loc
  BY <1>1, <1>3, <1>4, <1>5 DEF Described
<1> QED
  BY <1>1, <1>3, <1>6 DEF CaretInv

LEMMA CaretDraw ==
  ASSUME CaretInv, DrawCaretLine
  PROVE  CaretInv'
<1>1. /\ line' = line /\ diagnostic' = diagnostic /\ stage = "ranges" /\ stage' = "hints"
      /\ diagnostic \in Described(line)
      /\ CaretLine = Filled(<< >>, Size(line), Space)
      /\ diagnostic.Loc \in Locations(line)
  BY DEF CaretInv, DrawCaretLine
<1>2. line \in Seq(Characters)
  BY LinesAssumption DEF CaretInv
<1>3. PICK ranges : ranges = diagnostic.Ranges
  OBVIOUS
<1>4. ranges \in Seq(Ranges(line)) /\ Len(ranges) \in Nat
  BY <1>1, <1>3, LenProperties DEF Described
<1>5. PICK f : f = CHOOSE d : IsDrawn(d, line, ranges, CaretLine)
  OBVIOUS
<1>6. IsDrawn(f, line, ranges, CaretLine)
  BY <1>4, <1>5, DrawnExists
<1>7. CaretLine' = [Filled(f[Len(ranges)], CaretColumn + 1, Space) EXCEPT ![CaretColumn + 1] = "^"]
  BY <1>3, <1>5 DEF DrawCaretLine, IsDrawn, CaretColumn
<1>8. Marked(line, Lit(line, ranges, 0), CaretLine)
  BY <1>1, <1>2, StartsAre, NothingMarked
<1>9. Marked(line, Lit(line, ranges, Len(ranges)), f[Len(ranges)])
  BY <1>2, <1>4, <1>6, <1>8, DrawnMarked
<1>10. CaretColumn \in Nat
  <2>1. PICK k \in 1 .. Len(line) + 1 : CaretColumn = Column(line, k)
    BY <1>1, <1>2, LocIs DEF CaretColumn
  <2> QED
    BY <1>2, <2>1, ColumnsAre
<1>11. Pointed(CaretLine', CaretColumn, AllLit)
  BY <1>3, <1>7, <1>9, <1>10, CaretPut DEF AllLit
<1>12. CaretColumn' = CaretColumn /\ AllLit' = AllLit
  BY <1>1 DEF CaretColumn, AllLit
<1> QED
  BY <1>1, <1>11, <1>12 DEF CaretInv

LEMMA CaretHint ==
  ASSUME CaretInv, insertHint
  PROVE  CaretInv'
<1>1. /\ line' = line /\ stage = "hints" /\ stage' \in {"hints", "snippet"}
      /\ CaretLine' = CaretLine
      /\ diagnostic' = diagnostic \/ diagnostic' = [diagnostic EXCEPT !.next = @ + 1]
      /\ diagnostic \in Described(line)
  BY DEF CaretInv, insertHint
<1>2. /\ diagnostic' \in Described(line)
      /\ diagnostic'.Loc = diagnostic.Loc /\ diagnostic'.Ranges = diagnostic.Ranges
  BY <1>1 DEF Described
<1>3. CaretColumn' = CaretColumn /\ AllLit' = AllLit
  BY <1>1, <1>2 DEF CaretColumn, AllLit
<1> QED
  BY <1>1, <1>2, <1>3 DEF CaretInv

LEMMA CaretPrint ==
  ASSUME CaretInv, emitSnippet
  PROVE  CaretInv'
<1>1. /\ line' = line /\ stage \in {"hints", "snippet"} /\ stage' = "printed"
      /\ diagnostic' = diagnostic /\ printed' = Printed(line)
      /\ CaretLine' = SubSeq(CaretLine, 1, Max({c \in DOMAIN CaretLine : CaretLine[c] # Space}))
  BY DEF emitSnippet, Printed
<1>2. /\ PointedAt(CaretLine, CaretColumn + 1, AllLit)
      /\ diagnostic.Loc \in Locations(line)
      /\ line \in Seq(Characters)
  BY <1>1, LinesAssumption DEF CaretInv, Pointed
<1>3. PICK p \in Nat : p = CaretColumn + 1
  <2>1. PICK k \in 1 .. Len(line) + 1 : CaretColumn = Column(line, k)
    BY <1>2, LocIs DEF CaretColumn
  <2> QED
    BY <1>2, <2>1, ColumnsAre
<1>4. PointedAt(CaretLine', p, AllLit)
  BY <1>1, <1>2, <1>3, StillPointed
<1>5. CaretColumn' = CaretColumn /\ AllLit' = AllLit
  BY <1>1 DEF CaretColumn, AllLit
<1>6. Pointed(CaretLine', CaretColumn', AllLit')
  BY <1>3, <1>4, <1>5 DEF Pointed
<1> QED
  BY <1>1, <1>6 DEF CaretInv

LEMMA CaretEnd ==
  ASSUME CaretInv, endDiagnostic
  PROVE  CaretInv'
<1>1. diagnostic' \in Described(line)
  <2>1. << >> \in Seq(Ranges(line)) /\ << >> \in Seq(Hints(line))
    OBVIOUS
  <2> QED
    BY <2>1 DEF endDiagnostic, NoDiagnostic, Described
<1> QED
  BY <1>1 DEF endDiagnostic, CaretInv

LEMMA CaretKept ==
  CaretInv /\ [SnippetNext]_snippetVars => CaretInv'
<1> SUFFICES ASSUME CaretInv, [SnippetNext]_snippetVars PROVE CaretInv'
  OBVIOUS
<1>1. CASE UNCHANGED snippetVars
  BY <1>1 DEF snippetVars, CaretInv, CaretColumn, AllLit
<1>2. CASE emitDiagnostic
  BY <1>2, CaretEmit
<1>3. CASE DrawCaretLine
  BY <1>3, CaretDraw
<1>4. CASE insertHint
  BY <1>4, CaretHint
<1>5. CASE emitSnippet
  BY <1>5, CaretPrint
<1>6. CASE endDiagnostic
  BY <1>6, CaretEnd
<1> QED
  BY <1>1, <1>2, <1>3, <1>4, <1>5, <1>6 DEF SnippetNext

LEMMA MarksFollow ==
  ASSUME CaretInv
  PROVE  MarksUnderText
<1> SUFFICES ASSUME stage = "printed" PROVE MarksUnderText
  BY DEF MarksUnderText
<1>1. /\ PointedAt(CaretLine, CaretColumn + 1, AllLit)
      /\ diagnostic.Loc \in Locations(line)
      /\ line \in Seq(Characters) /\ printed = Printed(line)
      /\ diagnostic \in Described(line)
  BY LinesAssumption DEF CaretInv, Pointed
<1>2. PICK k \in 1 .. Len(line) + 1 : /\ diagnostic.Loc = Start(line, k)
                                      /\ CaretColumn = Column(line, k)
                                      /\ diagnostic.Loc = Size(line) <=> k = Len(line) + 1
  BY <1>1, LocIs DEF CaretColumn
<1>3. /\ Len(line) \in Nat /\ Len(line) + 1 \in 1 .. Len(line) + 1
      /\ \A j \in 1 .. Len(line) + 1 : Column(line, j) \in Nat
  BY <1>1, BytesAre, ColumnsAre
<1>4. PICK n \in Nat : n = Column(line, k)
  BY <1>2, <1>3
<1>5. PICK p \in Nat : p = n + 1
  BY <1>4
<1>6. /\ CaretLine \in Seq({Space, "~", "^"}) /\ p \in 1 .. Len(CaretLine) /\ CaretLine[p] = "^"
      /\ \A c \in 1 .. Len(CaretLine) : c # p => CaretLine[c] # "^" /\ (CaretLine[c] = "~" <=> c \in AllLit)
      /\ AllLit \subseteq 1 .. Len(CaretLine)
  BY <1>1, <1>2, <1>4, <1>5 DEF PointedAt
<1>7. DOMAIN CaretLine = 1 .. Len(CaretLine)
  BY <1>6, LenProperties
<1>8. (CHOOSE c \in DOMAIN CaretLine : CaretLine[c] = "^") = p
  <2>1. \A c \in DOMAIN CaretLine : CaretLine[c] = "^" => c = p
    BY <1>6, <1>7
  <2> QED
    BY <1>6, <1>7, <2>1
<1>9. /\ printed \in Seq(Nat) /\ Len(printed) = Column(line, Len(line) + 1)
      /\ \A j \in 1 .. Len(line) : \A c \in 1 .. Len(printed) :
           printed[c] = j <=> Column(line, j) < c /\ c <= Column(line, j + 1)
  BY <1>1, PrintedIs
<1>10. Len(printed) \in Nat /\ DOMAIN printed = 1 .. Len(printed)
  BY <1>9, LenProperties
<1>11. IF diagnostic.Loc = Size(line) THEN p = Len(printed) + 1
       ELSE /\ printed[p] = Owner(line, diagnostic.Loc)
            /\ p > 1 => printed[p - 1] # printed[p]
  <2>1. CASE k = Len(line) + 1
    BY <1>2, <1>4, <1>5, <1>9, <2>1
  <2>2. CASE k # Len(line) + 1
    <3>1. k \in 1 .. Len(line) /\ k + 1 \in 1 .. Len(line) + 1
      BY <1>3, <2>2
    <3>2. PICK m \in Nat : m = Column(line, k + 1)
      BY <1>3, <3>1
    <3>3. n < m
      <4>1. k < k + 1
        BY <3>1
      <4> QED
        BY <1>1, <1>4, <3>1, <3>2, <4>1, ColumnsAre
    <3>4. m <= Len(printed)
      <4>1. PICK e \in 1 .. Len(line) + 1 : e = k + 1
        BY <3>1
      <4>2. PICK z \in 1 .. Len(line) + 1 : z = Len(line) + 1
        BY <1>3
      <4>3. e <= z
        BY <1>3, <4>1, <4>2
      <4>4. Column(line, e) <= Column(line, z)
        BY <1>1, <4>3, ColumnOrder
      <4> QED
        BY <1>9, <3>2, <4>1, <4>2, <4>4
    <3>5. \A c \in 1 .. Len(printed) : printed[c] = k <=> n < c /\ c <= m
      BY <1>4, <1>9, <3>1, <3>2
    <3>6. p \in 1 .. Len(printed) /\ n < p /\ p <= m
      BY <1>5, <1>10, <3>2, <3>3, <3>4
    <3>7. printed[p] = k
      BY <3>5, <3>6
    <3>8. Owner(line, diagnostic.Loc) = k
      BY <1>1, <1>2, <3>1, OwnerOfStart
    <3>9. p > 1 => printed[p - 1] # k
      <4> SUFFICES ASSUME p > 1 PROVE printed[p - 1] # k
        OBVIOUS
      <4>1. p - 1 = n /\ n \in 1 .. Len(printed)
        BY <1>4, <1>5, <1>10, <3>6
      <4>2. ~ n < n
        BY <1>4
      <4> QED
        BY <3>5, <4>1, <4>2
    <3>10. diagnostic.Loc # Size(line)
      BY <1>2, <2>2
    <3> QED
      BY <3>7, <3>8, <3>9, <3>10
  <2> QED
    BY <2>1, <2>2
<1>12. \A c \in (DOMAIN CaretLine \union DOMAIN printed) \ {p} :
         (c \in DOMAIN CaretLine /\ CaretLine[c] = "~") <=>
           /\ c \in DOMAIN printed
           /\ \E i \in DOMAIN diagnostic.Ranges : printed[c] \in Highlighted(line, diagnostic.Ranges[i])
  <2> SUFFICES ASSUME NEW c \in (DOMAIN CaretLine \union DOMAIN printed) \ {p}
               PROVE  (c \in DOMAIN CaretLine /\ CaretLine[c] = "~") <=>
                        /\ c \in DOMAIN printed
                        /\ \E i \in DOMAIN diagnostic.Ranges :
                             printed[c] \in Highlighted(line, diagnostic.Ranges[i])
    OBVIOUS
  <2>1. DOMAIN diagnostic.Ranges = 1 .. Len(diagnostic.Ranges)
    <3>1. diagnostic.Ranges \in Seq(Ranges(line))
      BY <1>1 DEF Described
    <3> QED
      BY <3>1, LenProperties
  <2>2. c \in AllLit <=>
          /\ c \in DOMAIN printed
          /\ \E i \in DOMAIN diagnostic.Ranges : printed[c] \in Highlighted(line, diagnostic.Ranges[i])
    BY <1>1, <1>10, <2>1 DEF AllLit, Lit
  <2>3. (c \in DOMAIN CaretLine /\ CaretLine[c] = "~") <=> c \in AllLit
    BY <1>6, <1>7
  <2> QED
    BY <2>2, <2>3
<1> QED
  BY <1>8, <1>11, <1>12 DEF MarksUnderText

(* What is printed below the line points at what the locations mean:       *)
(* emitSnippetAndCaret, highlightRange and the column maps.                *)
THEOREM MarksCorrect == SnippetSpec => []MarksUnderText
<1>1. SnippetInit => CaretInv
  BY CaretStarts
<1>2. CaretInv /\ [SnippetNext]_snippetVars => CaretInv'
  BY CaretKept
<1>3. CaretInv => MarksUnderText
  BY MarksFollow
<1> QED
  BY <1>1, <1>2, <1>3, PTL DEF SnippetSpec

-----------------------------------------------------------------------------
(* Hints                                                                   *)

(* The text of each of the first n hints is in one piece behind at[i], not *)
(* before the place it is for, and ends before PrevHintEndCol.             *)
PlacedAt(fl, end, l, hints, n, at) ==
  /\ fl \in Seq(Nat) /\ Len(fl) = end
  /\ \A c \in 1 .. end : fl[c] <= n
  /\ \A i \in 1 .. n : /\ hints[i].at # OtherLine
                       /\ at[i] \in Nat /\ hints[i].length \in Nat
                       /\ byteToContainingColumn(l, hints[i].at) <= at[i]
                       /\ at[i] + hints[i].length <= end
                       /\ \A c \in 1 .. end :
                            fl[c] = i <=> at[i] < c /\ c <= at[i] + hints[i].length

Placed(fl, end, l, hints, n) == \E at : PlacedAt(fl, end, l, hints, n, at)

LEMMA HintIs ==
  ASSUME NEW l \in Seq(Characters), NEW hint \in Hints(l), hint.at # OtherLine
  PROVE  /\ byteToContainingColumn(l, hint.at) \in Nat
         /\ hint.length \in Nat \ {0}
<1>1. MaxText \in Nat
  BY NumbersAssumption
<1>2. hint \in [at : Locations(l), length : 1 .. MaxText]
  BY DEF Hints
<1>3. hint.at \in Locations(l) /\ hint.length \in 1 .. MaxText
  BY <1>2
<1>4. PICK k \in 1 .. Len(l) + 1 : byteToContainingColumn(l, hint.at) = Column(l, k)
  BY <1>3, LocIs
<1> QED
  BY <1>1, <1>3, <1>4, ColumnsAre

(* buildFixItInsertionLine adds a hint that is on this line.               *)
LEMMA OneMorePlaced ==
  ASSUME NEW l \in Seq(Characters), NEW hints, NEW n \in Nat, NEW m, m = n + 1,
         hints[m] \in Hints(l), hints[m].at # OtherLine,
         NEW fl, NEW prev, Placed(fl, prev, l, hints, n),
         NEW col, col = HintColumn(l, hints[m], prev),
         NEW end, end = col + hints[m].length,
         NEW filled, filled = Filled(fl, end, NoLetter)
  PROVE  Placed([c \in DOMAIN filled |-> IF col < c /\ c <= end THEN m ELSE filled[c]],
                end, l, hints, m)
<1>1. PICK at : PlacedAt(fl, prev, l, hints, n, at)
  BY DEF Placed
<1>2. /\ fl \in Seq(Nat) /\ Len(fl) = prev
      /\ \A c \in 1 .. prev : fl[c] <= n
      /\ \A i \in 1 .. n : /\ hints[i].at # OtherLine
                           /\ at[i] \in Nat /\ hints[i].length \in Nat
                           /\ byteToContainingColumn(l, hints[i].at) <= at[i]
                           /\ at[i] + hints[i].length <= prev
                           /\ \A c \in 1 .. prev :
                                fl[c] = i <=> at[i] < c /\ c <= at[i] + hints[i].length
  BY <1>1 DEF PlacedAt
<1>3. prev \in Nat /\ \A c \in 1 .. prev : fl[c] \in Nat
  BY <1>2, LenProperties, ElementOfSeq
<1>4. PICK len \in Nat \ {0} : len = hints[m].length
  BY HintIs
<1>5. PICK own \in Nat : own = byteToContainingColumn(l, hints[m].at)
  BY HintIs
<1>6. col = IF own < prev THEN prev + 1 ELSE own
  BY <1>5 DEF HintColumn
<1>7. col \in Nat /\ prev <= col /\ own <= col
  BY <1>3, <1>5, <1>6
<1>8. end \in Nat /\ col < end /\ prev < end /\ end = col + len
  BY <1>3, <1>4, <1>7
<1>9. PICK zero \in Nat : zero = NoLetter /\ zero = 0
  BY DEF NoLetter
<1>10. Fills(filled, Nat, fl, end, zero)
  BY <1>2, <1>8, <1>9, FilledIs
<1>11. /\ filled \in Seq(Nat) /\ Len(filled) = end
       /\ \A c \in 1 .. end : c <= prev => filled[c] = fl[c]
       /\ \A c \in 1 .. end : ~ c <= prev => filled[c] = 0
  BY <1>2, <1>8, <1>9, <1>10 DEF Fills
<1>12. DOMAIN filled = 1 .. end /\ \A c \in 1 .. end : filled[c] \in Nat
  BY <1>11, LenProperties, ElementOfSeq
<1>13. PICK new : new = [c \in DOMAIN filled |-> IF col < c /\ c <= end THEN m ELSE filled[c]]
  OBVIOUS
<1>14. m \in Nat /\ n < m /\ m # 0
  OBVIOUS
<1>15. /\ \A c \in 1 .. end : c <= prev => new[c] = fl[c]
       /\ \A c \in 1 .. end : ~ c <= prev /\ c <= col => new[c] = 0
       /\ \A c \in 1 .. end : col < c => new[c] = m
  <2>1. \A c \in 1 .. end : c \in Nat /\ c <= end /\ (c <= prev => ~ col < c) /\ (c <= col => ~ col < c)
    BY <1>3, <1>7, <1>8
  <2> QED
    BY <1>11, <1>12, <1>13, <2>1
<1>16. new \in [1 .. end -> Nat]
  BY <1>12, <1>13, <1>14
<1>17. new \in Seq(Nat) /\ Len(new) = end
  BY <1>8, <1>16, LenProperties
<1>18. \A c \in 1 .. end : new[c] <= m
  <2> SUFFICES ASSUME NEW c \in 1 .. end PROVE new[c] <= m
    OBVIOUS
  <2>0. c \in Nat /\ 1 <= c
    OBVIOUS
  <2>1. CASE c <= prev
    <3>1. c \in 1 .. prev
      BY <1>3, <2>0, <2>1
    <3>2. fl[c] <= n /\ fl[c] \in Nat
      BY <1>2, <1>3, <3>1
    <3> QED
      BY <1>14, <1>15, <2>1, <3>2
  <2>2. CASE ~ c <= prev /\ c <= col
    BY <1>14, <1>15, <2>2
  <2>3. CASE col < c
    BY <1>14, <1>15, <2>3
  <2> QED
    BY <1>7, <2>0, <2>1, <2>2, <2>3
<1>19. PICK more : more = [i \in 1 .. m |-> IF i = m THEN col ELSE at[i]]
  OBVIOUS
<1>20. ASSUME NEW i \in 1 .. m
       PROVE  /\ hints[i].at # OtherLine
              /\ more[i] \in Nat /\ hints[i].length \in Nat
              /\ byteToContainingColumn(l, hints[i].at) <= more[i]
              /\ more[i] + hints[i].length <= end
              /\ \A c \in 1 .. end : new[c] = i <=> more[i] < c /\ c <= more[i] + hints[i].length
  <2>1. CASE i = m
    <3>1. more[i] = col
      BY <1>19, <2>1
    <3>2. \A c \in 1 .. end : new[c] = m <=> col < c
      <4> SUFFICES ASSUME NEW c \in 1 .. end, ~ col < c PROVE new[c] # m
        BY <1>15
      <4>0. c \in Nat /\ 1 <= c /\ c <= col
        BY <1>7
      <4>1. CASE c <= prev
        <5>1. c \in 1 .. prev
          BY <1>3, <4>0, <4>1
        <5>2. fl[c] <= n /\ fl[c] \in Nat
          BY <1>2, <1>3, <5>1
        <5> QED
          BY <1>14, <1>15, <4>1, <5>2
      <4>2. CASE ~ c <= prev
        BY <1>14, <1>15, <4>0, <4>2
      <4> QED
        BY <4>1, <4>2
    <3>3. \A c \in 1 .. end : c <= end
      OBVIOUS
    <3> QED
      BY <1>4, <1>5, <1>7, <1>8, <2>1, <3>1, <3>2, <3>3
  <2>2. CASE i # m
    <3>1. i \in 1 .. n
      BY <1>14, <2>2
    <3>2. more[i] = at[i]
      BY <1>19, <2>2
    <3>3. PICK a \in Nat : a = at[i]
      BY <1>2, <3>1
    <3>4. hints[i].at # OtherLine /\ byteToContainingColumn(l, hints[i].at) <= a
      BY <1>2, <3>1, <3>3
    <3>5. PICK b \in Nat : b = a + hints[i].length
      BY <1>2, <3>1
    <3>6. b <= prev /\ \A c \in 1 .. prev : fl[c] = i <=> a < c /\ c <= b
      BY <1>2, <3>1, <3>3, <3>5
    <3>7. i \in Nat /\ i # 0 /\ i # m
      BY <2>2, <3>1
    <3>8. ASSUME NEW c \in 1 .. end PROVE new[c] = i <=> a < c /\ c <= b
      <4>0. c \in Nat /\ 1 <= c
        OBVIOUS
      <4>1. CASE c <= prev
        <5>1. c \in 1 .. prev
          BY <1>3, <4>0, <4>1
        <5> QED
          BY <1>15, <3>6, <4>1, <5>1
      <4>2. CASE ~ c <= prev
        <5>1. ~ c <= b
          BY <1>3, <3>6, <4>0, <4>2
        <5>2. new[c] = 0 \/ new[c] = m
          BY <1>7, <1>15, <4>0, <4>2
        <5> QED
          BY <3>7, <5>1, <5>2
      <4> QED
        BY <4>1, <4>2
    <3> QED
      BY <1>2, <1>3, <1>8, <3>1, <3>2, <3>3, <3>4, <3>5, <3>6, <3>8
  <2> QED
    BY <2>1, <2>2
<1>21. PlacedAt(new, end, l, hints, m, more)
  BY <1>17, <1>18, <1>20 DEF PlacedAt
<1> QED
  BY <1>13, <1>21 DEF Placed

(* What can be seen of a hint that was placed.                             *)
LEMMA HintSeen ==
  ASSUME NEW fl, NEW end, NEW l, NEW hints, NEW n \in Nat, Placed(fl, end, l, hints, n),
         NEW i \in 1 .. n, hints[i].length # 0,
         byteToContainingColumn(l, hints[i].at) \in Nat,
         NEW where, where = {c \in DOMAIN fl : fl[c] = i}
  PROVE  /\ Cardinality(where) = hints[i].length
         /\ Max(where) - Min(where) < hints[i].length
         /\ Min(where) > byteToContainingColumn(l, hints[i].at)
<1>1. PICK at : PlacedAt(fl, end, l, hints, n, at)
  BY DEF Placed
<1>2. fl \in Seq(Nat) /\ Len(fl) = end /\ end \in Nat /\ DOMAIN fl = 1 .. end
  <2>1. fl \in Seq(Nat) /\ Len(fl) = end
    BY <1>1 DEF PlacedAt
  <2> QED
    BY <2>1, LenProperties
<1>3. PICK a \in Nat : a = at[i]
  BY <1>1 DEF PlacedAt
<1>4. PICK len \in Nat \ {0} : len = hints[i].length
  BY <1>1 DEF PlacedAt
<1>5. PICK own \in Nat : own = byteToContainingColumn(l, hints[i].at)
  OBVIOUS
<1>6. /\ own <= a /\ a + len <= end
      /\ \A c \in 1 .. end : fl[c] = i <=> a < c /\ c <= a + len
  BY <1>1, <1>3, <1>4, <1>5 DEF PlacedAt
<1>7. PICK first \in Nat : first = a + 1
  BY <1>3
<1>8. PICK last \in Nat : last = a + len
  BY <1>3, <1>4
<1>9. first <= last /\ last <= end /\ 1 <= first
  BY <1>4, <1>6, <1>7, <1>8
<1>10. where = first .. last
  <2>1. \A c \in 1 .. end : fl[c] = i <=> c \in first .. last
    BY <1>6, <1>7, <1>8
  <2>2. \A c \in first .. last : c \in 1 .. end
    BY <1>2, <1>9
  <2> QED
    BY <1>2, <2>1, <2>2
<1>11. PICK S : S = first .. last
  OBVIOUS
<1>12. S \in SUBSET Int /\ first \in S /\ last \in S /\ \A c \in S : first <= c /\ c <= last
  BY <1>9, <1>11
<1>13. Max(S) = last
  BY <1>12, MaxIs
<1>14. Min(S) = first
  BY <1>12, MinIs
<1>15. Cardinality(S) = last - first + 1
  <2>1. first \in Int /\ last \in Int /\ ~ first > last
    BY <1>9
  <2> QED
    BY <1>11, <2>1, FS_Interval
<1>16. where = S
  BY <1>10, <1>11
<1>17. last - first + 1 = len /\ last - first < len /\ first > own
  BY <1>3, <1>4, <1>5, <1>6, <1>7, <1>8
<1> QED
  BY <1>4, <1>5, <1>13, <1>14, <1>15, <1>16, <1>17

OnOtherLine == \E i \in DOMAIN diagnostic.Hints : diagnostic.Hints[i].at = OtherLine
PlacedNow(n) == Placed(FixItInsertionLine, PrevHintEndCol, line, diagnostic.Hints, n)

HintInv ==
  /\ stage \in {"idle", "suppressed", "ranges"} => FixItInsertionLine = << >> /\ PrevHintEndCol = 0
  /\ stage = "ranges" => diagnostic.next = 1
  /\ stage = "hints" => /\ diagnostic.next \in 1 .. Len(diagnostic.Hints) + 1
                        /\ PlacedNow(diagnostic.next - 1)
  /\ stage = "snippet" => OnOtherLine /\ FixItInsertionLine = << >>
  /\ stage = "printed" => IF OnOtherLine THEN FixItInsertionLine = << >>
                          ELSE PlacedNow(Len(diagnostic.Hints))

LEMMA NothingPlaced ==
  ASSUME NEW l, NEW hints
  PROVE  Placed(<< >>, 0, l, hints, 0)
<1>1. << >> \in Seq(Nat)
  OBVIOUS
<1>2. PICK e \in Seq(Nat) : e = << >>
  BY <1>1
<1>3. Len(e) = 0
  BY <1>2, EmptySeq
<1>4. PlacedAt(e, 0, l, hints, 0, e)
  BY <1>3 DEF PlacedAt
<1> QED
  BY <1>2, <1>4 DEF Placed

LEMMA HintsAre ==
  ASSUME CaretInv
  PROVE  /\ diagnostic \in Described(line)
         /\ line \in Seq(Characters)
         /\ Len(diagnostic.Hints) \in Nat
         /\ DOMAIN diagnostic.Hints = 1 .. Len(diagnostic.Hints)
         /\ \A i \in 1 .. Len(diagnostic.Hints) : diagnostic.Hints[i] \in Hints(line)
<1>1. diagnostic \in Described(line) /\ line \in Seq(Characters)
  BY LinesAssumption DEF CaretInv
<1>2. PICK hints \in Seq(Hints(line)) : hints = diagnostic.Hints
  BY <1>1 DEF Described
<1>3. /\ Len(hints) \in Nat /\ DOMAIN hints = 1 .. Len(hints)
      /\ \A i \in 1 .. Len(hints) : hints[i] \in Hints(line)
  BY <1>2, LenProperties, ElementOfSeq
<1> QED
  BY <1>1, <1>2, <1>3

LEMMA HintStarts ==
  ASSUME SnippetInit
  PROVE  HintInv
BY DEF SnippetInit, HintInv

LEMMA HintEmit ==
  ASSUME HintInv, emitDiagnostic
  PROVE  HintInv'
<1>1. /\ stage = "idle" /\ stage' \in {"suppressed", "ranges"} /\ diagnostic'.next = 1
      /\ FixItInsertionLine' = FixItInsertionLine /\ PrevHintEndCol' = PrevHintEndCol
  BY DEF emitDiagnostic
<1> QED
  BY <1>1 DEF HintInv

LEMMA HintDraw ==
  ASSUME CaretInv, HintInv, DrawCaretLine
  PROVE  HintInv'
<1>1. /\ stage = "ranges" /\ stage' = "hints" /\ diagnostic' = diagnostic /\ line' = line
      /\ FixItInsertionLine' = FixItInsertionLine /\ PrevHintEndCol' = PrevHintEndCol
  BY DEF DrawCaretLine
<1>2. FixItInsertionLine = << >> /\ PrevHintEndCol = 0 /\ diagnostic.next = 1
  BY <1>1 DEF HintInv
<1>3. 1 - 1 = 0
  OBVIOUS
<1>4. PlacedNow(diagnostic.next - 1)
  BY <1>2, <1>3, NothingPlaced DEF PlacedNow
<1>5. PlacedNow(diagnostic.next - 1)'
  BY <1>1, <1>4 DEF PlacedNow
<1>6. diagnostic'.next \in 1 .. Len(diagnostic'.Hints) + 1
  BY <1>1, <1>2, HintsAre
<1> QED
  BY <1>1, <1>5, <1>6 DEF HintInv

LEMMA HintInsert ==
  ASSUME CaretInv, HintInv, insertHint
  PROVE  HintInv'
<1>1. /\ stage = "hints" /\ line' = line /\ diagnostic.next <= Len(diagnostic.Hints)
      /\ diagnostic.next \in 1 .. Len(diagnostic.Hints) + 1 /\ PlacedNow(diagnostic.next - 1)
  BY DEF HintInv, insertHint
<1>2. PICK m : m = diagnostic.next
  OBVIOUS
<1>3. m \in 1 .. Len(diagnostic.Hints) /\ m + 1 \in 1 .. Len(diagnostic.Hints) + 1
  BY <1>1, <1>2, HintsAre
<1>4. PICK n \in Nat : n = m - 1
  BY <1>3, HintsAre
<1>5. PICK hint : hint = diagnostic.Hints[m]
  OBVIOUS
<1>6. CASE hint.at = OtherLine
  <2>1. FixItInsertionLine' = << >> /\ stage' = "snippet" /\ diagnostic' = diagnostic
    BY <1>2, <1>5, <1>6 DEF insertHint
  <2>2. OnOtherLine'
    BY <1>3, <1>5, <1>6, <2>1, HintsAre DEF OnOtherLine
  <2> QED
    BY <2>1, <2>2 DEF HintInv
<1>7. CASE hint.at # OtherLine
  <2>1. PICK col : col = HintColumn(line, hint, PrevHintEndCol)
    OBVIOUS
  <2>2. PICK end : end = col + hint.length
    OBVIOUS
  <2>3. PICK filled : filled = Filled(FixItInsertionLine, end, NoLetter)
    OBVIOUS
  <2>4. /\ FixItInsertionLine' = [c \in DOMAIN filled |-> IF col < c /\ c <= end THEN m ELSE filled[c]]
        /\ PrevHintEndCol' = end /\ stage' = stage
        /\ diagnostic' = [diagnostic EXCEPT !.next = m + 1]
    BY <1>2, <1>5, <1>7, <2>1, <2>2, <2>3 DEF insertHint
  <2>5. diagnostic'.Hints = diagnostic.Hints /\ diagnostic'.next = m + 1
    BY <2>4, HintsAre DEF Described
  <2>6. Placed(FixItInsertionLine, PrevHintEndCol, line, diagnostic.Hints, n)
    BY <1>1, <1>2, <1>4 DEF PlacedNow
  <2>7. diagnostic.Hints[m] \in Hints(line) /\ line \in Seq(Characters) /\ m = n + 1
    BY <1>3, <1>4, HintsAre
  <2>8. Placed([c \in DOMAIN filled |-> IF col < c /\ c <= end THEN m ELSE filled[c]],
               end, line, diagnostic.Hints, m)
    <3>1. /\ diagnostic.Hints[m].at # OtherLine
          /\ col = HintColumn(line, diagnostic.Hints[m], PrevHintEndCol)
          /\ end = col + diagnostic.Hints[m].length
      BY <1>5, <1>7, <2>1, <2>2
    <3>2. PICK hints : hints = diagnostic.Hints
      OBVIOUS
    <3>3. PICK fl : fl = FixItInsertionLine
      OBVIOUS
    <3>4. PICK prev : prev = PrevHintEndCol
      OBVIOUS
    <3>5. /\ hints[m] \in Hints(line) /\ hints[m].at # OtherLine
          /\ Placed(fl, prev, line, hints, n)
          /\ col = HintColumn(line, hints[m], prev) /\ end = col + hints[m].length
          /\ filled = Filled(fl, end, NoLetter)
      BY <2>3, <2>6, <2>7, <3>1, <3>2, <3>3, <3>4
    <3> QED
      BY <2>7, <3>2, <3>5, OneMorePlaced
  <2>9. diagnostic'.next - 1 = m
    BY <1>3, <2>5
  <2>10. PlacedNow(diagnostic.next - 1)'
    <3>1. Placed(FixItInsertionLine', PrevHintEndCol', line, diagnostic.Hints, m)
      BY <2>4, <2>8
    <3>2. Placed(FixItInsertionLine', PrevHintEndCol', line', diagnostic'.Hints, diagnostic'.next - 1)
      BY <1>1, <2>5, <2>9, <3>1
    <3> QED
      BY <3>2 DEF PlacedNow
  <2>11. diagnostic'.next \in 1 .. Len(diagnostic'.Hints) + 1
    BY <1>3, <2>5
  <2> QED
    BY <1>1, <2>4, <2>10, <2>11 DEF HintInv
<1> QED
  BY <1>6, <1>7

LEMMA HintPrint ==
  ASSUME CaretInv, HintInv, emitSnippet
  PROVE  HintInv'
<1>1. /\ \/ stage = "snippet"
         \/ stage = "hints" /\ diagnostic.next > Len(diagnostic.Hints)
      /\ stage' = "printed" /\ line' = line /\ diagnostic' = diagnostic
      /\ FixItInsertionLine' = FixItInsertionLine /\ PrevHintEndCol' = PrevHintEndCol
  BY DEF emitSnippet
<1>2. CASE stage = "snippet"
  <2>1. OnOtherLine' /\ FixItInsertionLine' = << >>
    BY <1>1, <1>2 DEF HintInv, OnOtherLine
  <2> QED
    BY <1>1, <2>1 DEF HintInv
<1>3. CASE stage = "hints" /\ diagnostic.next > Len(diagnostic.Hints)
  <2>1. diagnostic.next \in 1 .. Len(diagnostic.Hints) + 1 /\ PlacedNow(diagnostic.next - 1)
    BY <1>3 DEF HintInv
  <2>2. diagnostic.next - 1 = Len(diagnostic.Hints)
    BY <1>3, <2>1, HintsAre
  <2>3. PlacedNow(Len(diagnostic.Hints))
    BY <2>1, <2>2
  <2>4. ~ OnOtherLine
    <3>1. PICK at : PlacedAt(FixItInsertionLine, PrevHintEndCol, line, diagnostic.Hints,
                             Len(diagnostic.Hints), at)
      BY <2>3 DEF PlacedNow, Placed
    <3> QED
      BY <3>1, HintsAre DEF PlacedAt, OnOtherLine
  <2>5. PlacedNow(Len(diagnostic.Hints))' /\ ~ OnOtherLine'
    BY <1>1, <2>3, <2>4 DEF PlacedNow, OnOtherLine
  <2> QED
    BY <1>1, <2>5 DEF HintInv
<1> QED
  BY <1>1, <1>2, <1>3

LEMMA HintEnd ==
  ASSUME endDiagnostic
  PROVE  HintInv'
BY DEF endDiagnostic, HintInv

LEMMA HintKept ==
  CaretInv /\ HintInv /\ [SnippetNext]_snippetVars => HintInv'
<1> SUFFICES ASSUME CaretInv, HintInv, [SnippetNext]_snippetVars PROVE HintInv'
  OBVIOUS
<1>1. CASE UNCHANGED snippetVars
  BY <1>1 DEF snippetVars, HintInv, OnOtherLine, PlacedNow
<1>2. CASE emitDiagnostic
  BY <1>2, HintEmit
<1>3. CASE DrawCaretLine
  BY <1>3, HintDraw
<1>4. CASE insertHint
  BY <1>4, HintInsert
<1>5. CASE emitSnippet
  BY <1>5, HintPrint
<1>6. CASE endDiagnostic
  BY <1>6, HintEnd
<1> QED
  BY <1>1, <1>2, <1>3, <1>4, <1>5, <1>6 DEF SnippetNext

LEMMA ReadableFollows ==
  ASSUME CaretInv, HintInv
  PROVE  HintsReadable
<1> SUFFICES ASSUME stage = "printed" PROVE HintsReadable
  BY DEF HintsReadable
<1>1. CASE OnOtherLine
  <2>1. FixItInsertionLine = << >>
    BY <1>1 DEF HintInv
  <2> QED
    BY <1>1, <2>1 DEF HintsReadable, OnOtherLine
<1>2. CASE ~ OnOtherLine
  <2>1. Placed(FixItInsertionLine, PrevHintEndCol, line, diagnostic.Hints, Len(diagnostic.Hints))
    BY <1>2 DEF HintInv, PlacedNow
  <2>2. ASSUME NEW i \in DOMAIN diagnostic.Hints
        PROVE  LET where == {c \in DOMAIN FixItInsertionLine : FixItInsertionLine[c] = i}
               IN  /\ Cardinality(where) = diagnostic.Hints[i].length
                   /\ Max(where) - Min(where) < diagnostic.Hints[i].length
                   /\ Min(where) > byteToContainingColumn(line, diagnostic.Hints[i].at)
    <3>1. i \in 1 .. Len(diagnostic.Hints) /\ diagnostic.Hints[i] \in Hints(line)
      BY HintsAre
    <3>2. diagnostic.Hints[i].at # OtherLine
      BY <1>2 DEF OnOtherLine
    <3>3. /\ byteToContainingColumn(line, diagnostic.Hints[i].at) \in Nat
          /\ diagnostic.Hints[i].length \in Nat \ {0}
      BY <3>1, <3>2, HintsAre, HintIs
    <3>4. PICK where : where = {c \in DOMAIN FixItInsertionLine : FixItInsertionLine[c] = i}
      OBVIOUS
    <3>5. /\ Cardinality(where) = diagnostic.Hints[i].length
          /\ Max(where) - Min(where) < diagnostic.Hints[i].length
          /\ Min(where) > byteToContainingColumn(line, diagnostic.Hints[i].at)
      BY <2>1, <3>1, <3>3, <3>4, HintsAre, HintSeen
    <3> QED
      BY <3>4, <3>5
  <2> QED
    BY <1>2, <2>2 DEF HintsReadable, OnOtherLine
<1> QED
  BY <1>1, <1>2

(* Every hint can be read, none is written over another:                   *)
(* buildFixItInsertionLine, for any number of hints in any order.          *)
THEOREM HintsCorrect == SnippetSpec => []HintsReadable
<1>1. SnippetInit => CaretInv /\ HintInv
  BY CaretStarts, HintStarts
<1>2. CaretInv /\ HintInv /\ [SnippetNext]_snippetVars => CaretInv' /\ HintInv'
  BY CaretKept, HintKept
<1>3. CaretInv /\ HintInv => HintsReadable
  BY ReadableFollows
<1> QED
  BY <1>1, <1>2, <1>3, PTL DEF SnippetSpec

-----------------------------------------------------------------------------
(* Formatting. Sets of numbers stand for the formulas of inductions.       *)

LEMMA SetInduction ==
  ASSUME NEW P, 0 \in P, \A n \in Nat : n \in P => n + 1 \in P
  PROVE  \A n \in Nat : n \in P
<1> DEFINE Bad == {n \in Nat : n \notin P}
<1>1. ASSUME Bad # {} PROVE FALSE
  <2>1. PICK n \in Bad : \A m \in Bad : n <= m
    <3>1. Bad \in SUBSET Nat
      OBVIOUS
    <3> HIDE DEF Bad
    <3> QED
      BY <1>1, <3>1, LeastElement
  <2>2. n \in Nat /\ n # 0 /\ n - 1 \in Nat /\ n - 1 + 1 = n /\ ~ n <= n - 1
    OBVIOUS
  <2>3. n - 1 \notin P
    BY <2>2
  <2>4. n - 1 \in Bad
    BY <2>2, <2>3
  <2> HIDE DEF Bad
  <2> QED
    BY <2>1, <2>2, <2>4
<1> QED
  BY <1>1

LEMMA StrongInduction ==
  ASSUME NEW P, \A n \in Nat : (\A m \in Nat : m < n => m \in P) => n \in P
  PROVE  \A n \in Nat : n \in P
<1> DEFINE Bad == {n \in Nat : n \notin P}
<1>1. ASSUME Bad # {} PROVE FALSE
  <2>1. PICK n \in Bad : \A m \in Bad : n <= m
    <3>1. Bad \in SUBSET Nat
      OBVIOUS
    <3> HIDE DEF Bad
    <3> QED
      BY <1>1, <3>1, LeastElement
  <2>2. \A m \in Nat : m < n => m \in P
    <3> SUFFICES ASSUME NEW m \in Nat, m < n, m \notin P PROVE FALSE
      OBVIOUS
    <3>1. m \in Bad
      OBVIOUS
    <3>2. n <= m /\ n \in Nat
      BY <2>1, <3>1
    <3> QED
      BY <3>2
  <2> QED
    BY <2>2
<1> QED
  BY <1>1

-----------------------------------------------------------------------------
(* Functions on numbers defined by recursion: what each is at n, given     *)
(* what it is below.                                                       *)
TreesAt(n, below) ==
  IF n = 0 THEN {<< >>} ELSE Seq({x \in Nodes(below) : \A as \in Arguments : GoodFor(x, as)})
SpellAt(n, below) ==
  IF n = 0 THEN [t \in {<< >>} |-> << >>]
  ELSE [t \in Trees[n] |-> FlattenSeq([i \in DOMAIN t |-> SpellNode(t[i], below)])]
MeaningAt(n, below) ==
  [as \in Arguments |->
     IF n = 0 THEN [t \in {<< >>} |-> << >>]
     ELSE [t \in Trees[n] |-> FlattenSeq([i \in DOMAIN t |-> NodeMeaning(t[i], as, below[as])])]]
Level(w, f, n) ==
  CASE w.of = "Numeral" -> (IF n < 10 THEN <<DigitChars[n + 1]>>
                            ELSE Append(f[n \div 10], DigitChars[(n % 10) + 1]))
    [] w.of = "Repeated" -> (IF n = 0 THEN w.start ELSE w.step[f[n - 1]])
    [] w.of = "Val" -> (IF n = 0 THEN 0 ELSE 10 * f[n - 1] + DigitValue(w.str[w.from + n - 1]))
    [] w.of = "Trees" -> TreesAt(n, f[n - 1])
    [] w.of = "Spell" -> SpellAt(n, f[n - 1])
    [] w.of = "Meaning" -> MeaningAt(n, f[n - 1])
    [] OTHER -> {}

LEMMA DivBelow ==
  ASSUME NEW n \in Nat
  PROVE  n \div 10 \in Nat /\ n % 10 \in 0 .. 9 /\ n = 10 * (n \div 10) + (n % 10)
         /\ (n >= 10 => n \div 10 < n /\ n \div 10 # 0)
OBVIOUS

LEMMA LevelSame ==
  ASSUME NEW w, NEW f, NEW g, NEW n \in Nat, \A m \in Nat : m < n => f[m] = g[m]
  PROVE  Level(w, f, n) = Level(w, g, n)
<1>1. n # 0 => f[n - 1] = g[n - 1]
  <2>1. n # 0 => n - 1 \in Nat /\ n - 1 < n
    OBVIOUS
  <2> QED
    BY <2>1
<1>2. ~ n < 10 => f[n \div 10] = g[n \div 10]
  <2>1. ~ n < 10 => n \div 10 \in Nat /\ n \div 10 < n
    BY DivBelow
  <2> QED
    BY <2>1
<1>3. CASE n # 0
  BY <1>1, <1>2, <1>3, Zenon DEF Level
<1>4. CASE n = 0
  <2>1. n < 10
    BY <1>4
  <2> QED
    BY <1>4, <2>1, Zenon DEF Level, TreesAt, SpellAt, MeaningAt
<1> QED
  BY <1>3, <1>4

Solves(w, f, n) == \A k \in 0 .. n : f[k] = Level(w, f, k)
IsLevels(w, f) == f = [n \in Nat |-> Level(w, f, n)]

LEMMA SolutionsAgree ==
  ASSUME NEW w, NEW f, NEW g, NEW m \in Nat, NEW n \in Nat, Solves(w, f, m), Solves(w, g, n)
  PROVE  \A k \in Nat : k <= m /\ k <= n => f[k] = g[k]
<1> DEFINE P == {k \in Nat : k <= m /\ k <= n => f[k] = g[k]}
<1>1. ASSUME NEW k \in Nat, \A j \in Nat : j < k => j \in P PROVE k \in P
  <2> SUFFICES ASSUME k <= m, k <= n PROVE f[k] = g[k]
    OBVIOUS
  <2>1. \A j \in Nat : j < k => f[j] = g[j]
    <3> SUFFICES ASSUME NEW j \in Nat, j < k PROVE f[j] = g[j]
      OBVIOUS
    <3>1. j \in P /\ j <= m /\ j <= n
      BY <1>1
    <3> QED
      BY <3>1
  <2>2. Level(w, f, k) = Level(w, g, k)
    BY <2>1, LevelSame
  <2>3. k \in 0 .. m /\ k \in 0 .. n
    OBVIOUS
  <2> QED
    BY <2>2, <2>3 DEF Solves
<1>2. \A k \in Nat : k \in P
  <2> HIDE DEF P
  <2> QED
    BY <1>1, StrongInduction
<1> QED
  BY <1>2

LEMMA LevelsExist ==
  ASSUME NEW w
  PROVE  \E f : IsLevels(w, f)
<1> DEFINE P == {n \in Nat : \E f : Solves(w, f, n)}
<1>1. 0 \in P
  <2>1. PICK f : f = [k \in {0} |-> Level(w, << >>, 0)]
    OBVIOUS
  <2>2. Level(w, f, 0) = Level(w, << >>, 0)
    BY LevelSame
  <2>3. \A k \in 0 .. 0 : k = 0
    OBVIOUS
  <2>4. Solves(w, f, 0)
    BY <2>1, <2>2, <2>3 DEF Solves
  <2> QED
    BY <2>4
<1>2. ASSUME NEW n \in Nat, n \in P PROVE n + 1 \in P
  <2>1. PICK f : Solves(w, f, n)
    BY <1>2
  <2>2. PICK g : g = [k \in 0 .. n + 1 |-> IF k <= n THEN f[k] ELSE Level(w, f, n + 1)]
    OBVIOUS
  <2>3. \A k \in Nat : k <= n => g[k] = f[k]
    BY <2>2
  <2>4. ASSUME NEW k \in 0 .. n + 1 PROVE g[k] = Level(w, g, k)
    <3>1. \A j \in Nat : j < k => g[j] = f[j]
      <4> SUFFICES ASSUME NEW j \in Nat, j < k PROVE j <= n
        BY <2>3
      <4> QED
        BY <2>4
    <3>2. k \in Nat
      BY <2>4
    <3>3. Level(w, g, k) = Level(w, f, k)
      BY <3>1, <3>2, LevelSame
    <3>4. CASE k <= n
      <4>1. k \in 0 .. n
        BY <3>4
      <4> QED
        BY <2>1, <2>2, <3>3, <3>4, <4>1 DEF Solves
    <3>5. CASE ~ k <= n
      <4>1. k = n + 1
        BY <3>5
      <4> QED
        BY <2>2, <3>3, <3>5, <4>1
    <3> QED
      BY <3>4, <3>5
  <2>5. Solves(w, g, n + 1)
    BY <2>4 DEF Solves
  <2> QED
    BY <2>5
<1>3. \A n \in Nat : n \in P
  <2> HIDE DEF P
  <2> QED
    BY <1>1, <1>2, SetInduction
<1>4. PICK s : s = [n \in Nat |-> CHOOSE f : Solves(w, f, n)]
  OBVIOUS
<1>5. \A n \in Nat : Solves(w, s[n], n)
  <2> SUFFICES ASSUME NEW n \in Nat PROVE Solves(w, s[n], n)
    OBVIOUS
  <2>1. \E f : Solves(w, f, n)
    BY <1>3
  <2> QED
    BY <1>4, <2>1
<1>6. PICK h : h = [n \in Nat |-> s[n][n]]
  OBVIOUS
<1>7. ASSUME NEW n \in Nat PROVE h[n] = Level(w, h, n)
  <2>1. \A m \in Nat : m < n => h[m] = s[n][m]
    <3> SUFFICES ASSUME NEW m \in Nat, m < n PROVE h[m] = s[n][m]
      OBVIOUS
    <3>1. Solves(w, s[m], m) /\ Solves(w, s[n], n) /\ m <= m /\ m <= n
      BY <1>5
    <3>2. s[m][m] = s[n][m]
      BY <3>1, SolutionsAgree
    <3> QED
      BY <1>6, <3>2
  <2>2. Level(w, h, n) = Level(w, s[n], n)
    BY <2>1, LevelSame
  <2>3. n \in 0 .. n
    OBVIOUS
  <2>4. s[n][n] = Level(w, s[n], n)
    BY <1>5, <2>3 DEF Solves
  <2> QED
    BY <1>6, <2>2, <2>4
<1>8. IsLevels(w, h)
  BY <1>6, <1>7, Zenon DEF IsLevels
<1> QED
  BY <1>8

-----------------------------------------------------------------------------
(* The functions of the model.                                             *)

IsNumerals(f) == f = [n \in Nat |-> IF n < 10 THEN <<DigitChars[n + 1]>>
                                   ELSE Append(f[n \div 10], DigitChars[(n % 10) + 1])]

LEMMA NumeralIs ==
  ASSUME NEW n \in Nat
  PROVE  Numeral[n] = IF n < 10 THEN <<DigitChars[n + 1]>>
                      ELSE Append(Numeral[n \div 10], DigitChars[(n % 10) + 1])
<1>1. PICK w : w = [of |-> "Numeral"]
  OBVIOUS
<1>2. \A f, k : Level(w, f, k) = IF k < 10 THEN <<DigitChars[k + 1]>>
                                 ELSE Append(f[k \div 10], DigitChars[(k % 10) + 1])
  BY <1>1 DEF Level
<1>3. PICK g : IsLevels(w, g)
  BY LevelsExist
<1>4. IsNumerals(g)
  BY <1>2, <1>3, Zenon DEF IsNumerals, IsLevels
<1>5. Numeral = CHOOSE f : IsNumerals(f)
  BY Zenon DEF Numeral, IsNumerals
<1>6. IsNumerals(Numeral)
  BY <1>4, <1>5, Zenon
<1> QED
  BY <1>6, Zenon DEF IsNumerals

IsTrees(f) == f = [n \in Nat |-> TreesAt(n, f[n - 1])]

LEMMA TreesAre ==
  ASSUME NEW n \in Nat
  PROVE  Trees[n] = TreesAt(n, Trees[n - 1])
<1>1. PICK w : w = [of |-> "Trees"]
  OBVIOUS
<1>2. \A f, k : Level(w, f, k) = TreesAt(k, f[k - 1])
  BY <1>1, Zenon DEF Level
<1>3. PICK g : IsLevels(w, g)
  BY LevelsExist
<1>4. IsTrees(g)
  BY <1>2, <1>3, Zenon DEF IsTrees, IsLevels
<1>5. Trees = CHOOSE f : IsTrees(f)
  BY Zenon DEF Trees, IsTrees, TreesAt
<1>6. IsTrees(Trees)
  BY <1>4, <1>5, Zenon
<1> QED
  BY <1>6, Zenon DEF IsTrees

IsSpell(f) == f = [n \in Nat |-> SpellAt(n, f[n - 1])]

LEMMA SpellIs ==
  ASSUME NEW n \in Nat
  PROVE  Spell[n] = SpellAt(n, Spell[n - 1])
<1>1. PICK w : w = [of |-> "Spell"]
  OBVIOUS
<1>2. \A f, k : Level(w, f, k) = SpellAt(k, f[k - 1])
  BY <1>1, Zenon DEF Level
<1>3. PICK g : IsLevels(w, g)
  BY LevelsExist
<1>4. IsSpell(g)
  BY <1>2, <1>3, Zenon DEF IsSpell, IsLevels
<1>5. Spell = CHOOSE f : IsSpell(f)
  BY Zenon DEF Spell, IsSpell, SpellAt
<1>6. IsSpell(Spell)
  BY <1>4, <1>5, Zenon
<1> QED
  BY <1>6, Zenon DEF IsSpell

IsMeaning(f) == f = [n \in Nat |-> MeaningAt(n, f[n - 1])]

LEMMA MeaningIs ==
  ASSUME NEW n \in Nat
  PROVE  Meaning[n] = MeaningAt(n, Meaning[n - 1])
<1>1. PICK w : w = [of |-> "Meaning"]
  OBVIOUS
<1>2. \A f, k : Level(w, f, k) = MeaningAt(k, f[k - 1])
  BY <1>1, Zenon DEF Level
<1>3. PICK g : IsLevels(w, g)
  BY LevelsExist
<1>4. IsMeaning(g)
  BY <1>2, <1>3, Zenon DEF IsMeaning, IsLevels
<1>5. Meaning = CHOOSE f : IsMeaning(f)
  BY Zenon DEF Meaning, IsMeaning, MeaningAt
<1>6. IsMeaning(Meaning)
  BY <1>4, <1>5, Zenon
<1> QED
  BY <1>6, Zenon DEF IsMeaning

IsTurn(f, F, x) == f = [k \in Nat |-> IF k = 0 THEN x ELSE F[f[k - 1]]]

LEMMA RepeatedIs ==
  ASSUME NEW F, NEW x, NEW n \in Nat
  PROVE  Repeated(F, x, 0) = x /\ Repeated(F, x, n + 1) = F[Repeated(F, x, n)]
<1>1. PICK w : w = [of |-> "Repeated", start |-> x, step |-> F]
  OBVIOUS
<1>2. \A f, k : Level(w, f, k) = IF k = 0 THEN x ELSE F[f[k - 1]]
  BY <1>1 DEF Level
<1>3. PICK g : IsLevels(w, g)
  BY LevelsExist
<1>4. IsTurn(g, F, x)
  BY <1>2, <1>3, Zenon DEF IsTurn, IsLevels
<1>5. PICK h : h = CHOOSE f : IsTurn(f, F, x)
  OBVIOUS
<1>6. \A k : Repeated(F, x, k) = h[k]
  BY <1>5, Zenon DEF Repeated, IsTurn
<1>7. IsTurn(h, F, x)
  BY <1>4, <1>5, Zenon
<1>8. n + 1 \in Nat /\ n + 1 # 0 /\ n + 1 - 1 = n /\ 0 \in Nat
  OBVIOUS
<1>9. h[0] = x /\ h[n + 1] = F[h[n + 1 - 1]]
  BY <1>7, <1>8 DEF IsTurn
<1> QED
  BY <1>6, <1>8, <1>9

IsVal(f, str, from) ==
  f = [k \in Nat |-> IF k = 0 THEN 0 ELSE 10 * f[k - 1] + DigitValue(str[from + k - 1])]

LEMMA PluralNumberIs ==
  ASSUME NEW str, NEW from, NEW end
  PROVE  \E f : IsVal(f, str, from) /\ PluralNumber(str, from, end) = f[NumberEnd(str, from, end) - from]
<1>1. PICK w : w = [of |-> "Val", str |-> str, from |-> from]
  OBVIOUS
<1>2. \A f, k : Level(w, f, k) = IF k = 0 THEN 0 ELSE 10 * f[k - 1] + DigitValue(str[from + k - 1])
  BY <1>1 DEF Level
<1>3. PICK g : IsLevels(w, g)
  BY LevelsExist
<1>4. IsVal(g, str, from)
  BY <1>2, <1>3, Zenon DEF IsVal, IsLevels
<1>5. PICK h : h = CHOOSE f : IsVal(f, str, from)
  OBVIOUS
<1>6. PluralNumber(str, from, end) = h[NumberEnd(str, from, end) - from]
  BY <1>5, Zenon DEF PluralNumber, IsVal
<1>7. IsVal(h, str, from)
  BY <1>4, <1>5, Zenon
<1> QED
  BY <1>6, <1>7
-----------------------------------------------------------------------------
(* ScanFormat.                                                             *)

Scanned(str, end, target, next, i, k) ==
  LET NameEnd(j) == Min({end} \union {m \in j .. end - 1 : isdigit(str[m]) \/ str[m] = "{"})
      depth == IF i < end /\ k # 0 /\ str[i] = "}" THEN k - 1 ELSE k
  IN  IF i >= end THEN end
      ELSE IF k = 0 /\ str[i] = target THEN i
      ELSE IF str[i] # "%" THEN next[<<i + 1, depth>>]
      ELSE IF i + 1 = end THEN end
      ELSE IF isdigit(str[i + 1]) \/ ispunct(str[i + 1]) THEN next[<<i + 2, depth>>]
      ELSE LET j == NameEnd(i + 2)
           IN  IF j = end THEN end
               ELSE next[<<j + 1, IF str[j] = "{" THEN depth + 1 ELSE depth>>]

IsScan(f, str, from, end, target) ==
  f = [s \in (from .. end + 1) \X Nat |-> Scanned(str, end, target, f, s[1], s[2])]

LEMMA ScannedSame ==
  ASSUME NEW str, NEW end \in Nat, NEW target, NEW f, NEW g, NEW i \in Nat, NEW k \in Nat,
         \A j \in Nat, m \in Nat : i < j /\ j <= end + 1 => f[<<j, m>>] = g[<<j, m>>]
  PROVE  Scanned(str, end, target, f, i, k) = Scanned(str, end, target, g, i, k)
<1>0. CASE i >= end
  BY <1>0, Zenon DEF Scanned
<1> SUFFICES ASSUME i < end
             PROVE  Scanned(str, end, target, f, i, k) = Scanned(str, end, target, g, i, k)
  BY <1>0
<1> DEFINE NameEnd(j) == Min({end} \union {m \in j .. end - 1 : isdigit(str[m]) \/ str[m] = "{"})
<1>1. PICK d : d = IF i < end /\ k # 0 /\ str[i] = "}" THEN k - 1 ELSE k
  OBVIOUS
<1>2. d \in Nat /\ d + 1 \in Nat
  <2>1. d = k \/ (k # 0 /\ d = k - 1)
    BY <1>1, Zenon
  <2> QED
    BY <2>1
<1>3. PICK e : e = NameEnd(i + 2)
  OBVIOUS
<1>4. e = end \/ (e \in Nat /\ i < e + 1 /\ e + 1 <= end + 1)
  <2>1. PICK Q : Q = {m \in i + 2 .. end - 1 : isdigit(str[m]) \/ str[m] = "{"}
    OBVIOUS
  <2>2. Q \subseteq i + 2 .. end - 1
    BY <2>1, Zenon
  <2>3. e = Min({end} \union Q)
    BY <1>3, <2>1, Zenon
  <2> HIDE DEF NameEnd
  <2>4. {end} \union Q \in SUBSET Nat
    BY <2>2
  <2>5. e \in {end} \union Q
    BY <2>3, <2>4, MinIsLeast
  <2> QED
    BY <2>2, <2>5
<1>5. f[<<i + 1, d>>] = g[<<i + 1, d>>]
  BY <1>2
<1>6. i + 1 # end => f[<<i + 2, d>>] = g[<<i + 2, d>>]
  BY <1>2
<1>7. e # end => f[<<e + 1, d>>] = g[<<e + 1, d>>] /\ f[<<e + 1, d + 1>>] = g[<<e + 1, d + 1>>]
  BY <1>2, <1>4
<1> QED
  BY <1>1, <1>3, <1>5, <1>6, <1>7, Zenon DEF Scanned

LEMMA ScanExists ==
  ASSUME NEW str, NEW end \in Nat, NEW target, NEW from \in Nat, from <= end + 1
  PROVE  \E f : IsScan(f, str, from, end, target)
<1> DEFINE Good(f, r) == \A j \in Nat, m \in Nat : end + 1 <= j + r /\ j <= end + 1 =>
                           f[<<j, m>>] = Scanned(str, end, target, f, j, m)
           P == {r \in Nat : \E f : Good(f, r)}
<1>1. 0 \in P
  <2>1. PICK f : f = [s \in {end + 1} \X Nat |-> end]
    OBVIOUS
  <2>2. ASSUME NEW j \in Nat, NEW m \in Nat, end + 1 <= j + 0, j <= end + 1
        PROVE  f[<<j, m>>] = Scanned(str, end, target, f, j, m)
    <3>1. j = end + 1 /\ j >= end
      BY <2>2
    <3>2. f[<<j, m>>] = end
      BY <2>1, <3>1
    <3> QED
      BY <3>1, <3>2 DEF Scanned
  <2> QED
    BY <2>2
<1>2. ASSUME NEW r \in Nat, r \in P PROVE r + 1 \in P
  <2>1. PICK f : Good(f, r)
    BY <1>2
  <2> HIDE DEF Good
  <2>2. PICK g : g = [s \in Nat \X Nat |-> IF end + 1 <= s[1] + r THEN f[s]
                                            ELSE Scanned(str, end, target, f, s[1], s[2])]
    OBVIOUS
  <2>3. \A j \in Nat, m \in Nat : end + 1 <= j + r => g[<<j, m>>] = f[<<j, m>>]
    BY <2>2
  <2>4. ASSUME NEW j \in Nat, NEW m \in Nat, end + 1 <= j + (r + 1), j <= end + 1
        PROVE  g[<<j, m>>] = Scanned(str, end, target, g, j, m)
    <3>1. \A i \in Nat, k \in Nat : j < i /\ i <= end + 1 => g[<<i, k>>] = f[<<i, k>>]
      <4> SUFFICES ASSUME NEW i \in Nat, NEW k \in Nat, j < i PROVE end + 1 <= i + r
        BY <2>3
      <4> QED
        BY <2>4
    <3>2. Scanned(str, end, target, g, j, m) = Scanned(str, end, target, f, j, m)
      BY <3>1, ScannedSame
    <3>3. CASE end + 1 <= j + r
      BY <2>1, <2>3, <2>4, <3>2, <3>3 DEF Good
    <3>4. CASE ~ end + 1 <= j + r
      <4>1. g[<<j, m>>] = Scanned(str, end, target, f, j, m)
        BY <2>2, <3>4
      <4> QED
        BY <3>2, <4>1
    <3> QED
      BY <3>3, <3>4
  <2>5. Good(g, r + 1)
    BY <2>4 DEF Good
  <2> QED
    BY <2>5
<1>3. \A r \in Nat : r \in P
  <2> HIDE DEF P
  <2> QED
    BY <1>1, <1>2, SetInduction
<1>4. PICK f : Good(f, end + 1)
  <2>1. end + 1 \in P
    <3> HIDE DEF P
    <3> QED
      BY <1>3
  <2> QED
    BY <2>1
<1>5. PICK g : g = [s \in (from .. end + 1) \X Nat |-> f[s]]
  OBVIOUS
<1>6. \A j \in from .. end + 1, m \in Nat : g[<<j, m>>] = Scanned(str, end, target, g, j, m)
  <2> SUFFICES ASSUME NEW j \in Nat, NEW m \in Nat, from <= j, j <= end + 1
               PROVE  g[<<j, m>>] = Scanned(str, end, target, g, j, m)
    <3>1. \A j \in from .. end + 1 : j \in Nat /\ from <= j /\ j <= end + 1
      OBVIOUS
    <3> QED
      BY <3>1, Zenon
  <2>1. j \in from .. end + 1 /\ end + 1 <= j + (end + 1) /\ j <= end + 1
    OBVIOUS
  <2>2. f[<<j, m>>] = Scanned(str, end, target, f, j, m)
    BY <1>4, <2>1
  <2>3. \A i \in Nat, k \in Nat : j < i /\ i <= end + 1 => g[<<i, k>>] = f[<<i, k>>]
    BY <1>5
  <2> HIDE DEF Good, P
  <2>4. Scanned(str, end, target, g, j, m) = Scanned(str, end, target, f, j, m)
    BY <2>3, ScannedSame
  <2> QED
    BY <1>5, <2>1, <2>2, <2>4
<1>7. PICK h : h = [s \in (from .. end + 1) \X Nat |-> Scanned(str, end, target, g, s[1], s[2])]
  OBVIOUS
<1>8. h = g
  <2>1. \A s \in (from .. end + 1) \X Nat : h[s] = g[s]
    <3> SUFFICES ASSUME NEW s \in (from .. end + 1) \X Nat PROVE h[s] = g[s]
      OBVIOUS
    <3>1. s = <<s[1], s[2]>> /\ s[1] \in from .. end + 1 /\ s[2] \in Nat
      OBVIOUS
    <3>2. g[<<s[1], s[2]>>] = Scanned(str, end, target, g, s[1], s[2])
      BY <1>6, <3>1
    <3> QED
      BY <1>7, <3>1, <3>2
  <2> QED
    BY <1>5, <1>7, <2>1, Zenon
<1> QED
  BY <1>7, <1>8 DEF IsScan

(* Some function on the places and depths is as the code goes on from each *)
(* of them, and the result is its value at the first.                      *)
Scans(f, str, from, end, target) ==
  \A i \in from .. end + 1, k \in Nat : f[<<i, k>>] = Scanned(str, end, target, f, i, k)

LEMMA ScanIs ==
  ASSUME NEW str, NEW end \in Nat, NEW target, NEW from \in Nat, from <= end + 1
  PROVE  \E f : Scans(f, str, from, end, target) /\ ScanFormat(str, from, end, target) = f[<<from, 0>>]
<1>1. PICK f : f = CHOOSE g : IsScan(g, str, from, end, target)
  OBVIOUS
<1>2. IsScan(f, str, from, end, target)
  BY <1>1, ScanExists, Zenon
<1>3. ScanFormat(str, from, end, target) = f[<<from, 0>>]
  BY <1>1, Zenon DEF ScanFormat, IsScan, Scanned
<1>4. \A i \in from .. end + 1, k \in Nat : f[<<i, k>>] = Scanned(str, end, target, f, i, k)
  BY <1>2 DEF IsScan
<1> QED
  BY <1>3, <1>4 DEF Scans
-----------------------------------------------------------------------------
(* A sequence stands at a place of another.                                *)

Stands(str, p, s) ==
  /\ p \in Nat /\ p >= 1 /\ p + Len(s) <= Len(str) + 1
  /\ \A i \in 1 .. Len(s) : str[p + i - 1] = s[i]

LEMMA StandsConcat ==
  ASSUME NEW S, NEW str \in Seq(S), NEW a \in Seq(S), NEW b \in Seq(S), NEW p
  PROVE  Stands(str, p, a \o b) <=> Stands(str, p, a) /\ Stands(str, p + Len(a), b)
<1>1. PICK c : c = a \o b
  OBVIOUS
<1>2. PICK m \in Nat : m = Len(a)
  BY LenProperties
<1>3. PICK n \in Nat : n = Len(b)
  BY LenProperties
<1>4. Len(c) = m + n /\ \A i \in 1 .. m + n : c[i] = IF i <= m THEN a[i] ELSE b[i - m]
  BY <1>1, <1>2, <1>3, ConcatProperties
<1>5. PICK l \in Nat : l = Len(str)
  BY LenProperties
<1>6. ASSUME Stands(str, p, c) PROVE Stands(str, p, a) /\ Stands(str, p + m, b)
  <2>1. p \in Nat /\ p >= 1 /\ p + (m + n) <= l + 1
    BY <1>4, <1>5, <1>6 DEF Stands
  <2>2. \A i \in 1 .. m + n : str[p + i - 1] = c[i]
    BY <1>4, <1>6 DEF Stands
  <2>3. ASSUME NEW i \in 1 .. m PROVE str[p + i - 1] = a[i]
    <3>1. i \in 1 .. m + n /\ i <= m
      OBVIOUS
    <3> QED
      BY <1>4, <2>2, <3>1
  <2>4. ASSUME NEW i \in 1 .. n PROVE str[p + m + i - 1] = b[i]
    <3>1. m + i \in 1 .. m + n /\ ~ m + i <= m /\ m + i - m = i
      OBVIOUS
    <3>2. c[m + i] = b[i] /\ str[p + (m + i) - 1] = c[m + i]
      BY <1>4, <2>2, <3>1
    <3>3. p + (m + i) - 1 = p + m + i - 1
      BY <2>1
    <3> QED
      BY <3>2, <3>3
  <2> QED
    BY <1>2, <1>3, <1>5, <2>1, <2>3, <2>4 DEF Stands
<1>7. ASSUME Stands(str, p, a), Stands(str, p + m, b) PROVE Stands(str, p, c)
  <2>1. p \in Nat /\ p >= 1 /\ p + m + n <= l + 1
    BY <1>2, <1>3, <1>5, <1>7 DEF Stands
  <2>2. \A i \in 1 .. m : str[p + i - 1] = a[i]
    BY <1>2, <1>7 DEF Stands
  <2>3. \A i \in 1 .. n : str[p + m + i - 1] = b[i]
    BY <1>3, <1>7 DEF Stands
  <2>4. ASSUME NEW i \in 1 .. m + n PROVE str[p + i - 1] = c[i]
    <3>1. CASE i <= m
      BY <1>4, <2>2, <3>1
    <3>2. CASE ~ i <= m
      <4>1. i - m \in 1 .. n /\ p + m + (i - m) - 1 = p + i - 1
        BY <2>1, <3>2
      <4> QED
        BY <1>4, <2>3, <3>2, <4>1
    <3> QED
      BY <3>1, <3>2
  <2> QED
    BY <1>4, <1>5, <2>1, <2>4 DEF Stands
<1> QED
  BY <1>1, <1>2, <1>6, <1>7

(* The same, for parts that have names.                                    *)
LEMMA StandsParts ==
  ASSUME NEW S, NEW str \in Seq(S), NEW a \in Seq(S), NEW b \in Seq(S), NEW p,
         NEW n, n = Len(a), NEW c, c = a \o b, Stands(str, p, c)
  PROVE  Stands(str, p, a) /\ Stands(str, p + n, b)
<1>1. Stands(str, p, a \o b)
  OBVIOUS
<1>2. Stands(str, p, a) /\ Stands(str, p + Len(a), b)
  BY <1>1, StandsConcat
<1> QED
  BY <1>2

LEMMA StandsOne ==
  ASSUME NEW str, Len(str) \in Nat, NEW x, NEW p
  PROVE  Stands(str, p, <<x>>) <=> p \in 1 .. Len(str) /\ str[p] = x
<1>1. Len(<<x>>) = 1 /\ <<x>>[1] = x
  OBVIOUS
<1>2. \A i \in 1 .. 1 : i = 1
  OBVIOUS
<1>3. p \in Nat => p + 1 - 1 = p
  OBVIOUS
<1> QED
  BY <1>1, <1>2, <1>3 DEF Stands

LEMMA StandsWhole ==
  ASSUME NEW S, NEW s \in Seq(S)
  PROVE  Stands(s, 1, s)
<1>1. Len(s) \in Nat
  BY LenProperties
<1>2. \A i \in 1 .. Len(s) : 1 + i - 1 = i
  BY <1>1
<1> QED
  BY <1>1, <1>2 DEF Stands

LEMMA Regrouped ==
  ASSUME NEW S
  PROVE  \A a \in Seq(S), b \in Seq(S), c \in Seq(S) : (a \o b) \o c = a \o (b \o c)
<1> SUFFICES ASSUME NEW a \in Seq(S), NEW b \in Seq(S), NEW c \in Seq(S)
             PROVE  (a \o b) \o c = a \o (b \o c)
  OBVIOUS
<1> QED
  BY ConcatAssociative

(* A sequence is one with an element behind it.                            *)
LastOf(t, u, x) ==
  /\ t = Append(u, x) /\ Len(u) \in Nat /\ Len(t) = Len(u) + 1 /\ t[Len(u) + 1] = x
  /\ \A i \in 1 .. Len(u) : t[i] = u[i]

LEMMA HasLast ==
  ASSUME NEW T, NEW t \in Seq(T), Len(t) # 0
  PROVE  \E u \in Seq(T), x \in T : LastOf(t, u, x)
<1>1. PICK u \in Seq(T), x \in T :
        /\ t = Append(u, x) /\ Len(u) \in Nat
        /\ Len(t) = Len(u) + 1 /\ t[Len(u) + 1] = x
        /\ \A i \in 1 .. Len(u) : t[i] = u[i]
  BY LastItem
<1> QED
  BY <1>1, Zenon DEF LastOf

LEMMA FlattenCons ==
  ASSUME NEW S, NEW ss \in Seq(Seq(S)), ss # << >>
  PROVE  FlattenSeq(ss) = Head(ss) \o FlattenSeq(Tail(ss))
<1>0. \A a \in Seq(S), b \in Seq(S), c \in Seq(S) : (a \o b) \o c = a \o (b \o c)
  BY Regrouped
<1> DEFINE Holds(t) == FlattenSeq(t) = Head(t) \o FlattenSeq(Tail(t))
           P == {n \in Nat : \A t \in Seq(Seq(S)) : Len(t) = n + 1 => Holds(t)}
<1>1. 0 \in P
  <2> SUFFICES ASSUME NEW t \in Seq(Seq(S)), Len(t) = 1 PROVE Holds(t)
    OBVIOUS
  <2>1. t # << >> /\ Head(t) \in Seq(S) /\ Tail(t) = << >> /\ t = Append(<< >>, Head(t))
    <3>1. t # << >> /\ Len(t) # 0
      <4>1. Len(<< >>) = 0
        OBVIOUS
      <4>2. ASSUME t = << >> PROVE FALSE
        BY <4>1, <4>2
      <4> QED
        BY <4>2
    <3>2. Head(t) \in Seq(S) /\ Tail(t) \in Seq(Seq(S)) /\ Len(Tail(t)) = 0
      BY <3>1, HeadTailProperties
    <3>3. Tail(t) = << >>
      BY <3>2, EmptySeq
    <3>40. PICK u \in Seq(Seq(S)), x \in Seq(S) : LastOf(t, u, x)
      BY <3>1, HasLast, Zenon
    <3>4. t = Append(u, x) /\ Len(u) \in Nat /\ Len(t) = Len(u) + 1
      BY <3>40, Zenon DEF LastOf
    <3>5. Len(u) = 0
      BY <3>4
    <3>6. u = << >>
      BY <3>5, EmptySeq
    <3>7. Head(t) = x
      BY <3>4, <3>6
    <3> QED
      BY <3>1, <3>2, <3>3, <3>4, <3>6, <3>7
  <2>2. FlattenSeq(t) = FlattenSeq(<< >>) \o Head(t)
    <3>1. << >> \in Seq(Seq(S))
      BY EmptySeq
    <3> QED
      BY <2>1, <3>1, FlattenAppend
  <2> QED
    BY <2>1, <2>2, FlattenEmpty, ConcatEmptySeq
<1>2. ASSUME NEW n \in Nat, n \in P PROVE n + 1 \in P
  <2> SUFFICES ASSUME NEW t \in Seq(Seq(S)), Len(t) = n + 1 + 1 PROVE Holds(t)
    OBVIOUS
  <2>0. PICK u \in Seq(Seq(S)), x \in Seq(S) : LastOf(t, u, x)
    <3>1. Len(t) # 0
      OBVIOUS
    <3> QED
      BY <3>1, HasLast, Zenon
  <2>1. /\ t = Append(u, x) /\ Len(u) \in Nat /\ Len(t) = Len(u) + 1 /\ t[Len(u) + 1] = x
        /\ \A i \in 1 .. Len(u) : t[i] = u[i]
    BY <2>0, Zenon DEF LastOf
  <2>2. Len(u) = n + 1 /\ u # << >>
    BY <2>1, EmptySeq
  <2>3. Holds(u)
    BY <1>2, <2>2
  <2>4. Head(t) = Head(u) /\ Head(u) \in Seq(S)
    <3>1. Head(u) \in Seq(S) /\ Head(u) = u[1] /\ Head(t) = t[1] /\ 1 \in 1 .. Len(u)
      BY <2>1, <2>2, HeadTailProperties
    <3> QED
      BY <2>1, <3>1
  <2>5. Tail(u) \in Seq(Seq(S)) /\ Tail(t) = Append(Tail(u), x)
    <3>1. t # << >>
      <4>1. Len(<< >>) = 0 /\ Len(t) = n + 2
        BY <2>1, <2>2
      <4>2. ASSUME t = << >> PROVE FALSE
        <5>1. n + 2 = 0
          BY <4>1, <4>2
        <5> QED
          BY <5>1
      <4> QED
        BY <4>2
    <3>2. /\ Tail(u) \in Seq(Seq(S)) /\ Len(Tail(u)) = n
          /\ \A i \in 1 .. n : Tail(u)[i] = u[i + 1]
      BY <2>2, HeadTailProperties
    <3>3. /\ Tail(t) \in Seq(Seq(S)) /\ Len(Tail(t)) = n + 1
          /\ \A i \in 1 .. n + 1 : Tail(t)[i] = t[i + 1]
      BY <3>1, HeadTailProperties
    <3>4. PICK v : v = Append(Tail(u), x)
      OBVIOUS
    <3>5. /\ v \in Seq(Seq(S)) /\ Len(v) = n + 1 /\ v[n + 1] = x
          /\ \A i \in 1 .. n : v[i] = u[i + 1]
      BY <3>2, <3>4, AppendProperties
    <3>6. t[n + 2] = x
      BY <2>1, <2>2, AppendProperties
    <3>7. ASSUME NEW i \in 1 .. n + 1 PROVE Tail(t)[i] = v[i]
      <4>1. CASE i = n + 1
        BY <3>3, <3>5, <3>6, <4>1
      <4>2. CASE i # n + 1
        <5>1. i \in 1 .. n /\ i + 1 \in 1 .. Len(u)
          BY <2>2, <4>2
        <5> QED
          BY <2>1, <3>3, <3>5, <5>1
      <4> QED
        BY <4>1, <4>2
    <3>8. Tail(t) = v
      BY <3>3, <3>5, <3>7, SeqEqual
    <3> QED
      BY <3>2, <3>4, <3>8
  <2>6. FlattenSeq(t) = FlattenSeq(u) \o x
    BY <2>1, FlattenAppend
  <2>7. FlattenSeq(Tail(t)) = FlattenSeq(Tail(u)) \o x /\ FlattenSeq(Tail(u)) \in Seq(S)
    BY <2>5, FlattenAppend, FlattenType
  <2>8. (Head(u) \o FlattenSeq(Tail(u))) \o x = Head(u) \o (FlattenSeq(Tail(u)) \o x)
    <3>2. Head(u) \in Seq(S) /\ FlattenSeq(Tail(u)) \in Seq(S) /\ x \in Seq(S)
      BY <2>1, <2>4, <2>7
    <3> QED
      BY <1>0, <3>2, Zenon
  <2> QED
    BY <2>3, <2>4, <2>6, <2>7, <2>8
<1>3. \A n \in Nat : n \in P
  <2> HIDE DEF P
  <2> QED
    BY <1>1, <1>2, SetInduction
<1>4. PICK n \in Nat : Len(ss) = n + 1
  <2>1. Len(ss) \in Nat \ {0}
    BY EmptySeq
  <2>2. Len(ss) - 1 \in Nat /\ Len(ss) = Len(ss) - 1 + 1
    BY <2>1
  <2> QED
    BY <2>2
<1> QED
  BY <1>3, <1>4

Spots(st, str, p, ss) ==
  /\ st[1] = p /\ st[Len(ss) + 1] = p + Len(FlattenSeq(ss))
  /\ \A i \in 1 .. Len(ss) : Stands(str, st[i], ss[i]) /\ st[i + 1] = st[i] + Len(ss[i])

LEMMA FlattenStands ==
  ASSUME NEW S, NEW str \in Seq(S), NEW p, NEW ss \in Seq(Seq(S)), Stands(str, p, FlattenSeq(ss))
  PROVE  \E st : Spots(st, str, p, ss)
<1> DEFINE P == {n \in Nat : \A t \in Seq(Seq(S)) : Len(t) = n /\ Stands(str, p, FlattenSeq(t)) =>
                               \E st : Spots(st, str, p, t)}
<1>1. 0 \in P
  <2> SUFFICES ASSUME NEW t \in Seq(Seq(S)), Len(t) = 0, Stands(str, p, FlattenSeq(t))
               PROVE  \E st : Spots(st, str, p, t)
    OBVIOUS
  <2>1. t = << >> /\ FlattenSeq(t) = << >>
    BY EmptySeq, FlattenEmpty
  <2>2. Len(<< >>) = 0 /\ p \in Nat /\ p + 0 = p /\ 0 + 1 = 1
    BY DEF Stands
  <2>3. PICK st : st = [i \in {1} |-> p]
    OBVIOUS
  <2>4. st[1] = p /\ st[Len(t) + 1] = p + Len(FlattenSeq(t)) /\ Len(t) = 0
    BY <2>1, <2>2, <2>3
  <2>5. Spots(st, str, p, t)
    BY <2>4 DEF Spots
  <2> QED
    BY <2>5
<1>2. ASSUME NEW n \in Nat, n \in P PROVE n + 1 \in P
  <2> SUFFICES ASSUME NEW t \in Seq(Seq(S)), Len(t) = n + 1, Stands(str, p, FlattenSeq(t))
               PROVE  \E st : Spots(st, str, p, t)
    OBVIOUS
  <2>0. PICK u \in Seq(Seq(S)), x \in Seq(S) : LastOf(t, u, x)
    <3>1. Len(t) # 0
      OBVIOUS
    <3> QED
      BY <3>1, HasLast, Zenon
  <2>1. /\ t = Append(u, x) /\ Len(u) \in Nat /\ Len(t) = Len(u) + 1 /\ t[Len(u) + 1] = x
        /\ \A i \in 1 .. Len(u) : t[i] = u[i]
    BY <2>0, Zenon DEF LastOf
  <2>2. Len(u) = n
    BY <2>1
  <2>3. PICK fu : fu = FlattenSeq(u)
    OBVIOUS
  <2>4. fu \in Seq(S) /\ FlattenSeq(t) = fu \o x
    BY <2>1, <2>3, FlattenAppend, FlattenType
  <2>5. Stands(str, p, fu) /\ Stands(str, p + Len(fu), x)
    BY <2>4, StandsConcat
  <2>6. PICK st : Spots(st, str, p, u)
    BY <1>2, <2>2, <2>3, <2>5
  <2>7. PICK s : s = [i \in 1 .. n + 2 |-> IF i <= n + 1 THEN st[i] ELSE p + Len(fu) + Len(x)]
    OBVIOUS
  <2>8. st[1] = p /\ st[n + 1] = p + Len(fu)
        /\ \A i \in 1 .. n : Stands(str, st[i], u[i]) /\ st[i + 1] = st[i] + Len(u[i])
    BY <2>2, <2>3, <2>6 DEF Spots
  <2>9. \A i \in 1 .. n + 1 : s[i] = st[i]
    BY <2>7
  <2>10. s[n + 2] = p + Len(fu) + Len(x)
    BY <2>7
  <2>11. ASSUME NEW i \in 1 .. n + 1 PROVE Stands(str, s[i], t[i]) /\ s[i + 1] = s[i] + Len(t[i])
    <3>1. CASE i = n + 1
      <4>1. t[i] = x /\ s[i] = p + Len(fu) /\ i + 1 = n + 2
        BY <2>1, <2>2, <2>8, <2>9, <3>1
      <4> QED
        BY <2>5, <2>10, <4>1
    <3>2. CASE i # n + 1
      <4>1. i \in 1 .. n /\ i + 1 \in 1 .. n + 1
        BY <3>2
      <4> QED
        BY <2>1, <2>2, <2>8, <2>9, <4>1
    <3> QED
      BY <3>1, <3>2
  <2>12. s[1] = p
    <3>1. 1 \in 1 .. n + 1
      OBVIOUS
    <3> QED
      BY <2>8, <2>9, <3>1
  <2>13. p + Len(fu) + Len(x) = p + Len(FlattenSeq(t))
    <3>1. Len(fu) \in Nat /\ Len(x) \in Nat /\ Len(fu \o x) = Len(fu) + Len(x)
      BY <2>4, LenProperties, ConcatProperties
    <3>2. p \in Nat
      BY DEF Stands
    <3> QED
      BY <2>4, <3>1, <3>2
  <2>14. n + 1 + 1 = n + 2
    OBVIOUS
  <2>15. Spots(s, str, p, t)
    BY <2>10, <2>11, <2>12, <2>13, <2>14 DEF Spots
  <2> QED
    BY <2>15
<1>3. \A n \in Nat : n \in P
  <2> HIDE DEF P
  <2> QED
    BY <1>1, <1>2, SetInduction
<1> QED
  BY <1>3, LenProperties

Joints(st, str, p, ss, sep) ==
  /\ st[1] = p /\ st[Len(ss)] + Len(ss[Len(ss)]) = p + Len(Joined(ss, sep))
  /\ \A i \in 1 .. Len(ss) :
       /\ Stands(str, st[i], ss[i])
       /\ i < Len(ss) => /\ st[i] + Len(ss[i]) \in 1 .. Len(str)
                         /\ str[st[i] + Len(ss[i])] = sep /\ st[i + 1] = st[i] + Len(ss[i]) + 1

LEMMA JoinedIs ==
  ASSUME NEW S, NEW ss \in Seq(Seq(S)), NEW sep \in S
  PROVE  \E tt \in Seq(Seq(S)) : /\ Joined(ss, sep) = FlattenSeq(tt) /\ Len(tt) = Len(ss)
                                 /\ \A i \in 1 .. Len(ss) :
                                      tt[i] = IF i = 1 THEN ss[i] ELSE <<sep>> \o ss[i]
<1>1. Len(ss) \in Nat /\ DOMAIN ss = 1 .. Len(ss) /\ \A i \in 1 .. Len(ss) : ss[i] \in Seq(S)
  BY LenProperties, ElementOfSeq
<1>2. PICK tt : tt = [i \in 1 .. Len(ss) |-> IF i = 1 THEN ss[i] ELSE <<sep>> \o ss[i]]
  OBVIOUS
<1>3. \A i \in 1 .. Len(ss) : tt[i] \in Seq(S)
  <2> SUFFICES ASSUME NEW i \in 1 .. Len(ss) PROVE tt[i] \in Seq(S)
    OBVIOUS
  <2>1. <<sep>> \in Seq(S) /\ ss[i] \in Seq(S)
    BY <1>1
  <2>2. <<sep>> \o ss[i] \in Seq(S)
    BY <2>1, ConcatProperties
  <2> QED
    BY <1>2, <2>1, <2>2
<1>4. tt \in Seq(Seq(S)) /\ Len(tt) = Len(ss)
  <2>1. tt = [i \in 1 .. Len(ss) |-> tt[i]]
    BY <1>2
  <2>2. tt \in [1 .. Len(ss) -> Seq(S)]
    BY <1>3, <2>1
  <2>3. Len(ss) \in Nat
    BY LenProperties
  <2> QED
    BY <2>2, <2>3, FunctionIsSeq, Zenon
<1>5. Joined(ss, sep) = FlattenSeq(tt)
  BY <1>1, <1>2, Zenon DEF Joined
<1> QED
  BY <1>2, <1>4, <1>5

LEMMA JoinedStands ==
  ASSUME NEW S, NEW str \in Seq(S), NEW p, NEW ss \in Seq(Seq(S)), NEW sep \in S, Len(ss) # 0,
         Stands(str, p, Joined(ss, sep))
  PROVE  \E st : Joints(st, str, p, ss, sep)
<1>1. PICK tt \in Seq(Seq(S)) : /\ Joined(ss, sep) = FlattenSeq(tt) /\ Len(tt) = Len(ss)
                                /\ \A i \in 1 .. Len(ss) :
                                     tt[i] = IF i = 1 THEN ss[i] ELSE <<sep>> \o ss[i]
  BY JoinedIs
<1>2. PICK f : Spots(f, str, p, tt)
  BY <1>1, FlattenStands
<1>3. PICK n \in Nat : n = Len(ss)
  BY LenProperties
<1>4. /\ f[1] = p /\ f[n + 1] = p + Len(FlattenSeq(tt))
      /\ \A i \in 1 .. n : Stands(str, f[i], tt[i]) /\ f[i + 1] = f[i] + Len(tt[i])
  BY <1>1, <1>2, <1>3 DEF Spots
<1>5. PICK st : st = [i \in 1 .. n |-> IF i = 1 THEN f[i] ELSE f[i] + 1]
  OBVIOUS
<1>6. PICK l \in Nat : l = Len(str)
  BY LenProperties
<1>7. ASSUME NEW i \in 1 .. n
      PROVE  /\ Stands(str, st[i], ss[i]) /\ f[i + 1] = st[i] + Len(ss[i]) /\ f[i] \in Nat
             /\ (i = 1 \/ (f[i] \in 1 .. l /\ str[f[i]] = sep))
  <2>1. ss[i] \in Seq(S) /\ <<sep>> \in Seq(S) /\ Len(<<sep>>) = 1
    BY <1>3, ElementOfSeq
  <2>2. Len(ss[i]) \in Nat
    BY <2>1, LenProperties
  <2>3. Stands(str, f[i], tt[i]) /\ f[i + 1] = f[i] + Len(tt[i])
    BY <1>4
  <2>4. f[i] \in Nat
    BY <2>3 DEF Stands
  <2>5. CASE i = 1
    <3>1. tt[i] = ss[i] /\ st[i] = f[i]
      BY <1>1, <1>3, <1>5, <2>5
    <3> QED
      BY <2>3, <2>4, <2>5, <3>1
  <2>6. CASE i # 1
    <3>1. tt[i] = <<sep>> \o ss[i]
      BY <1>1, <1>3, <2>6
    <3>2. Stands(str, f[i], <<sep>>) /\ Stands(str, f[i] + 1, ss[i])
      <4>1. PICK x, y, q, c :
              /\ x \in Seq(S) /\ y \in Seq(S)
              /\ x = <<sep>> /\ y = ss[i] /\ q = f[i] /\ c = x \o y /\ 1 = Len(x)
        BY <2>1, Zenon
      <4>2. c = tt[i] /\ Stands(str, q, c)
        BY <2>3, <3>1, <4>1, Zenon
      <4>3. Stands(str, q, x) /\ Stands(str, q + 1, y)
        BY <4>1, <4>2, StandsParts, Zenon
      <4> QED
        BY <4>1, <4>3, Zenon
    <3>3. f[i] \in 1 .. l /\ str[f[i]] = sep
      BY <1>6, <3>2, StandsOne
    <3>4. Len(tt[i]) = 1 + Len(ss[i])
      BY <2>1, <3>1, ConcatProperties
    <3> QED
      <4>1. st[i] = f[i] + 1
        BY <1>5, <2>6
      <4>2. f[i + 1] = f[i] + (1 + Len(ss[i]))
        BY <2>3, <3>4
      <4>3. f[i] + (1 + Len(ss[i])) = (f[i] + 1) + Len(ss[i])
        <5>1. \A a \in Nat, b \in Nat : a + (1 + b) = (a + 1) + b
          OBVIOUS
        <5> QED
          BY <2>2, <2>4, <5>1, Zenon
      <4>4. f[i + 1] = st[i] + Len(ss[i])
        BY <4>1, <4>2, <4>3, Zenon
      <4> QED
        BY <2>4, <3>2, <3>3, <4>1, <4>4
  <2> QED
    BY <2>5, <2>6
<1>8. n \in 1 .. n /\ 1 \in 1 .. n
  BY <1>3
<1>9. st[1] = p
  BY <1>4, <1>5, <1>8
<1>10. st[n] + Len(ss[n]) = p + Len(Joined(ss, sep))
  BY <1>1, <1>4, <1>7, <1>8
<1>11. ASSUME NEW i \in 1 .. n, i < n
       PROVE  /\ st[i] + Len(ss[i]) \in 1 .. l
              /\ str[st[i] + Len(ss[i])] = sep /\ st[i + 1] = st[i] + Len(ss[i]) + 1
  <2>1. i + 1 \in 1 .. n /\ i + 1 # 1
    BY <1>11
  <2>2. f[i + 1] \in 1 .. l /\ str[f[i + 1]] = sep /\ f[i + 1] = st[i] + Len(ss[i])
    BY <1>7, <2>1
  <2> QED
    BY <1>5, <2>1, <2>2
<1>12. Joints(st, str, p, ss, sep)
  BY <1>3, <1>6, <1>7, <1>9, <1>10, <1>11 DEF Joints
<1> QED
  BY <1>12
-----------------------------------------------------------------------------
(* Characters and numerals.                                                *)

Digits == {"0", "1", "2", "3", "4", "5", "6", "7", "8", "9"}

(* Characters with a name here: the provers for sets and arithmetic do not *)
(* read them as strings.                                                   *)
OpenBrace == "{"
CloseBrace == "}"
Comma == ","
Targets == {"|", CloseBrace}

LEMMA CharsDiffer ==
  /\ \A c \in {OpenBrace, CloseBrace, Comma} : c \notin Digits /\ c \notin Modifiers /\ c \in Punctuation
  /\ \A c \in {OpenBrace, CloseBrace, Comma} : c \notin {"%", "|", ":", "[", "]", "="}
  /\ OpenBrace # CloseBrace /\ OpenBrace # Comma /\ CloseBrace # Comma
  /\ \A c \in Targets : c # "%" /\ c \in {"|", CloseBrace}
  /\ "|" \in Targets /\ CloseBrace \in Targets
BY Zenon DEF OpenBrace, CloseBrace, Comma, Digits, Modifiers, Punctuation, Targets

LEMMA DigitsAre ==
  /\ \A c : isdigit(c) <=> c \in Digits
  /\ \A n \in 0 .. 9 : DigitChars[n + 1] \in Digits
  /\ \A m \in 0 .. 9, n \in 0 .. 9 : DigitChars[m + 1] = DigitChars[n + 1] => m = n
<1>1. DigitChars = <<"0", "1", "2", "3", "4", "5", "6", "7", "8", "9">> /\ DOMAIN DigitChars = 1 .. 10
  BY DEF DigitChars
<1>2. \A n \in 0 .. 9 : n \in {0, 1, 2, 3, 4, 5, 6, 7, 8, 9}
  OBVIOUS
<1>3. /\ DigitChars[0 + 1] = "0" /\ DigitChars[1 + 1] = "1" /\ DigitChars[2 + 1] = "2"
      /\ DigitChars[3 + 1] = "3" /\ DigitChars[4 + 1] = "4" /\ DigitChars[5 + 1] = "5"
      /\ DigitChars[6 + 1] = "6" /\ DigitChars[7 + 1] = "7" /\ DigitChars[8 + 1] = "8"
      /\ DigitChars[9 + 1] = "9"
  BY DEF DigitChars
<1>4. \A n \in 0 .. 9 : DigitChars[n + 1] \in Digits
  BY <1>2, <1>3 DEF Digits
<1>5. ASSUME NEW m \in 0 .. 9, NEW n \in 0 .. 9, DigitChars[m + 1] = DigitChars[n + 1] PROVE m = n
  BY <1>2, <1>3, <1>5
<1>6. \A i \in 1 .. 10 : DigitChars[i] \in Digits
  <2> SUFFICES ASSUME NEW i \in 1 .. 10 PROVE DigitChars[i] \in Digits
    OBVIOUS
  <2>1. i - 1 \in 0 .. 9 /\ i - 1 + 1 = i
    OBVIOUS
  <2> QED
    BY <1>4, <2>1
<1>7. \A c \in Digits : \E i \in 1 .. 10 : c = DigitChars[i]
  BY <1>3 DEF Digits
<1>8. ToSet(DigitChars) = {DigitChars[i] : i \in 1 .. 10}
  BY <1>1 DEF ToSet
<1> QED
  BY <1>4, <1>5, <1>6, <1>7, <1>8 DEF isdigit

LEMMA DigitIs ==
  ASSUME NEW c \in Digits
  PROVE  isdigit(c) /\ ~ispunct(c) /\ c \notin Modifiers \union Punctuation
<1>1. c \notin Punctuation
  BY Zenon DEF Digits, Punctuation
<1>2. c \notin Modifiers
  BY DEF Digits, Modifiers
<1> QED
  BY <1>1, <1>2, DigitsAre DEF ispunct

LEMMA DigitValueIs ==
  ASSUME NEW n \in 0 .. 9
  PROVE  DigitValue(DigitChars[n + 1]) = n
<1>1. isdigit(DigitChars[n + 1])
  BY DigitsAre
<1>2. \A m \in 0 .. 9 : (isdigit(DigitChars[n + 1]) => DigitChars[n + 1] = DigitChars[m + 1]) <=> m = n
  BY <1>1, DigitsAre
<1> QED
  BY <1>2, Zenon DEF DigitValue

LEMMA NumeralOfDigit ==
  ASSUME NEW n \in 0 .. 9
  PROVE  Numeral[n] = <<DigitChars[n + 1]>> /\ DigitChars[n + 1] \in Digits
<1>1. n \in Nat /\ n < 10
  OBVIOUS
<1> QED
  BY <1>1, NumeralIs, DigitsAre

LEMMA NumeralType ==
  \A n \in Nat : Numeral[n] \in Seq(Digits) /\ Len(Numeral[n]) \in Nat /\ Len(Numeral[n]) >= 1
<1> DEFINE P == {n \in Nat : Numeral[n] \in Seq(Digits) /\ Len(Numeral[n]) \in Nat /\ Len(Numeral[n]) >= 1}
<1>1. ASSUME NEW n \in Nat, \A m \in Nat : m < n => m \in P PROVE n \in P
  <2>1. CASE n < 10
    <3>1. n \in 0 .. 9
      BY <2>1
    <3>2. Numeral[n] = <<DigitChars[n + 1]>> /\ DigitChars[n + 1] \in Digits
      BY <3>1, NumeralOfDigit
    <3>3. \A c \in Digits : <<c>> \in Seq(Digits) /\ Len(<<c>>) = 1
      <4> HIDE DEF P
      <4> QED
        OBVIOUS
    <3>4. Numeral[n] \in Seq(Digits) /\ Len(Numeral[n]) = 1
      BY <3>2, <3>3, Zenon
    <3> QED
      BY <3>4
  <2>2. CASE ~ n < 10
    <3>1. n \div 10 \in Nat /\ n \div 10 < n /\ n % 10 \in 0 .. 9
      BY <2>2, DivBelow
    <3>2. n \div 10 \in P
      BY <1>1, <3>1
    <3>3. PICK u \in Seq(Digits), c \in Digits : u = Numeral[n \div 10] /\ c = DigitChars[(n % 10) + 1]
      BY <3>1, <3>2, DigitsAre
    <3>4. Numeral[n] = Append(u, c)
      BY <2>2, <3>3, NumeralIs
    <3>5. Append(u, c) \in Seq(Digits) /\ Len(Append(u, c)) = Len(u) + 1 /\ Len(u) \in Nat
      BY AppendProperties, LenProperties
    <3>6. Len(u) + 1 \in Nat /\ Len(u) + 1 >= 1
      BY <3>5
    <3>7. Numeral[n] \in Seq(Digits) /\ Len(Numeral[n]) \in Nat /\ Len(Numeral[n]) >= 1
      BY <3>4, <3>5, <3>6, Zenon
    <3> QED
      BY <3>7
  <2> QED
    BY <2>1, <2>2
<1>2. \A n \in Nat : n \in P
  <2> HIDE DEF P
  <2> QED
    BY <1>1, StrongInduction
<1> QED
  BY <1>2

LEMMA NumeralValue ==
  ASSUME NEW str, Len(str) \in Nat, NEW p \in Nat, NEW f, IsVal(f, str, p)
  PROVE  \A n \in Nat : Stands(str, p, Numeral[n]) => f[Len(Numeral[n])] = n
<1> DEFINE P == {n \in Nat : Stands(str, p, Numeral[n]) => f[Len(Numeral[n])] = n}
<1>0. \A k \in Nat : f[k] = IF k = 0 THEN 0 ELSE 10 * f[k - 1] + DigitValue(str[p + k - 1])
  BY DEF IsVal
<1>1. ASSUME NEW n \in Nat, \A m \in Nat : m < n => m \in P PROVE n \in P
  <2> SUFFICES ASSUME Stands(str, p, Numeral[n]) PROVE f[Len(Numeral[n])] = n
    OBVIOUS
  <2>1. CASE n < 10
    <3>1. n \in 0 .. 9
      BY <2>1
    <3>2. Numeral[n] = <<DigitChars[n + 1]>>
      BY <3>1, NumeralOfDigit
    <3>3. Len(Numeral[n]) = 1 /\ Numeral[n][1] = DigitChars[n + 1]
      BY <3>2
    <3>4. str[p + 1 - 1] = DigitChars[n + 1]
      <4>1. 1 \in 1 .. 1
        OBVIOUS
      <4> QED
        BY <3>3, <4>1 DEF Stands
    <3>5. DigitValue(str[p + 1 - 1]) = n
      BY <3>1, <3>4, DigitValueIs
    <3>6. f[0] = 0 /\ f[1] = 10 * f[1 - 1] + DigitValue(str[p + 1 - 1]) /\ 1 - 1 = 0
      <4>1. 0 \in Nat /\ 1 \in Nat /\ 1 # 0 /\ 1 - 1 = 0
        OBVIOUS
      <4> QED
        BY <1>0, <4>1, Zenon
    <3> QED
      BY <3>3, <3>5, <3>6
  <2>2. CASE ~ n < 10
    <3>1. n \div 10 \in Nat /\ n \div 10 < n /\ n % 10 \in 0 .. 9 /\ n = 10 * (n \div 10) + (n % 10)
      BY <2>2, DivBelow
    <3>2. PICK u \in Seq(Digits), c \in Digits : u = Numeral[n \div 10] /\ c = DigitChars[(n % 10) + 1]
      BY <3>1, NumeralType, DigitsAre
    <3>3. Numeral[n] = Append(u, c)
      BY <2>2, <3>2, NumeralIs
    <3>4. PICK l \in Nat : l = Len(u)
      BY LenProperties
    <3>5. Len(Numeral[n]) = l + 1 /\ Numeral[n][l + 1] = c /\ \A i \in 1 .. l : Numeral[n][i] = u[i]
      BY <3>3, <3>4, AppendProperties
    <3>6. /\ p >= 1 /\ p + (l + 1) <= Len(str) + 1
          /\ \A i \in 1 .. l + 1 : str[p + i - 1] = Numeral[n][i]
      BY <3>5 DEF Stands
    <3>7. Stands(str, p, u)
      <4>1. \A i \in 1 .. l : i \in 1 .. l + 1
        OBVIOUS
      <4>2. p + l <= Len(str) + 1
        <5>1. p + (l + 1) <= Len(str) + 1
          BY <3>6
        <5> QED
          BY <5>1
      <4> QED
        BY <3>4, <3>5, <3>6, <4>1, <4>2 DEF Stands
    <3>8. f[l] = n \div 10
      <4>1. n \div 10 \in P
        BY <1>1, <3>1
      <4> QED
        BY <3>2, <3>4, <3>7, <4>1
    <3>9. str[p + (l + 1) - 1] = c
      <4>1. l + 1 \in 1 .. l + 1
        OBVIOUS
      <4> QED
        BY <3>5, <3>6, <4>1
    <3>10. DigitValue(c) = n % 10
      BY <3>1, <3>2, DigitValueIs
    <3>11. l + 1 \in Nat /\ l + 1 # 0 /\ l + 1 - 1 = l
      OBVIOUS
    <3>12. f[l + 1] = 10 * f[l + 1 - 1] + DigitValue(str[p + (l + 1) - 1])
      BY <1>0, <3>11
    <3>13. f[l + 1] = 10 * (n \div 10) + (n % 10)
      BY <3>8, <3>9, <3>10, <3>11, <3>12
    <3> QED
      BY <3>1, <3>5, <3>13
  <2> QED
    BY <2>1, <2>2
<1>2. \A n \in Nat : n \in P
  <2> HIDE DEF P
  <2> QED
    BY <1>1, StrongInduction
<1> QED
  BY <1>2
-----------------------------------------------------------------------------
(* What ScanFormat does not stop at: it goes from p to q, at any depth of  *)
(* braces, where at depth 0 it looks for one of the targets in T.          *)

Skipped(str, p, q, T) ==
  /\ p \in Nat /\ q \in Nat /\ p <= q
  /\ \A f : \A from \in Nat, end \in Nat, target \in Targets, k \in Nat :
       from <= p /\ q <= end /\ (k = 0 => target \in T) /\ Scans(f, str, from, end, target)
         => f[<<p, k>>] = f[<<q, k>>]

LEMMA SkippedNone ==
  ASSUME NEW str, NEW p \in Nat, NEW T
  PROVE  Skipped(str, p, p, T)
BY DEF Skipped

LEMMA SkippedBoth ==
  ASSUME NEW str, NEW p, NEW q, NEW r, NEW T, Skipped(str, p, q, T), Skipped(str, q, r, T)
  PROVE  Skipped(str, p, r, T)
<1>1. p \in Nat /\ q \in Nat /\ r \in Nat /\ p <= q /\ q <= r /\ p <= r
  BY DEF Skipped
<1>2. ASSUME NEW f, NEW from \in Nat, NEW end \in Nat, NEW target \in Targets, NEW k \in Nat,
             from <= p, r <= end, k = 0 => target \in T, Scans(f, str, from, end, target)
      PROVE  f[<<p, k>>] = f[<<r, k>>]
  <2>1. from <= q /\ q <= end
    BY <1>1, <1>2
  <2>2. f[<<p, k>>] = f[<<q, k>>]
    BY <1>2, <2>1 DEF Skipped
  <2>3. f[<<q, k>>] = f[<<r, k>>]
    BY <1>2, <2>1 DEF Skipped
  <2> QED
    BY <2>2, <2>3
<1> QED
  BY <1>1, <1>2 DEF Skipped

LEMMA SkippedLess ==
  ASSUME NEW str, NEW p, NEW q, NEW T, NEW U, Skipped(str, p, q, T), U \subseteq T
  PROVE  Skipped(str, p, q, U)
BY DEF Skipped

LEMMA SkippedChar ==
  ASSUME NEW str, NEW p \in Nat, NEW T, str[p] # "%", str[p] # CloseBrace, str[p] \notin T
  PROVE  Skipped(str, p, p + 1, T)
<1>1. ASSUME NEW f, NEW from \in Nat, NEW end \in Nat, NEW target \in Targets, NEW k \in Nat,
             from <= p, p + 1 <= end, k = 0 => target \in T, Scans(f, str, from, end, target)
      PROVE  f[<<p, k>>] = f[<<p + 1, k>>]
  <2>1. p <= end + 1 /\ p < end /\ ~ p >= end
    BY <1>1
  <2>2. f[<<p, k>>] = Scanned(str, end, target, f, p, k)
    <3>1. p \in from .. end + 1
      BY <1>1, <2>1
    <3> QED
      BY <1>1, <3>1, Zenon DEF Scans
  <2>3. ~(k = 0 /\ str[p] = target) /\ str[p] # "%" /\ str[p] # CloseBrace
    BY <1>1
  <2> QED
    BY <2>1, <2>2, <2>3, Zenon DEF Scanned, OpenBrace, CloseBrace
<1> QED
  BY <1>1 DEF Skipped

LEMMA SkippedRun ==
  ASSUME NEW str, NEW p \in Nat, NEW T
  PROVE  \A n \in Nat : (\A i \in 1 .. n : str[p + i - 1] # "%" /\ str[p + i - 1] # CloseBrace /\ str[p + i - 1] \notin T)
                          => Skipped(str, p, p + n, T)
<1> DEFINE Free(n) == \A i \in 1 .. n : str[p + i - 1] # "%" /\ str[p + i - 1] # CloseBrace /\ str[p + i - 1] \notin T
           P == {n \in Nat : Free(n) => Skipped(str, p, p + n, T)}
<1>1. 0 \in P
  <2>1. p + 0 = p
    OBVIOUS
  <2> QED
    BY <2>1, SkippedNone
<1>2. ASSUME NEW n \in Nat, n \in P PROVE n + 1 \in P
  <2> SUFFICES ASSUME Free(n + 1) PROVE Skipped(str, p, p + (n + 1), T)
    OBVIOUS
  <2>1. Free(n)
    <3>1. \A i \in 1 .. n : i \in 1 .. n + 1
      OBVIOUS
    <3> QED
      BY <3>1
  <2>2. str[p + n] # "%" /\ str[p + n] # CloseBrace /\ str[p + n] \notin T
    <3>1. n + 1 \in 1 .. n + 1 /\ p + (n + 1) - 1 = p + n
      OBVIOUS
    <3> QED
      BY <3>1
  <2>3. Skipped(str, p, p + n, T)
    BY <1>2, <2>1
  <2>4. p + n \in Nat /\ p + n + 1 = p + (n + 1)
    OBVIOUS
  <2>5. Skipped(str, p + n, p + n + 1, T)
    BY <2>2, <2>4, SkippedChar
  <2> HIDE DEF P, Free
  <2> QED
    BY <2>3, <2>4, <2>5, SkippedBoth
<1>3. \A n \in Nat : n \in P
  <2> HIDE DEF P
  <2> QED
    BY <1>1, <1>2, SetInduction
<1> QED
  BY <1>3

(* An escaped character, or a plain argument.                              *)
LEMMA SkippedTwo ==
  ASSUME NEW str, NEW p \in Nat, NEW T, str[p] = "%", isdigit(str[p + 1]) \/ ispunct(str[p + 1])
  PROVE  Skipped(str, p, p + 2, T)
<1>0. PICK q \in Nat : q = p + 2 /\ p <= q
  <2>1. p + 2 \in Nat /\ p <= p + 2
    OBVIOUS
  <2> QED
    BY <2>1, Zenon
<1>1. ASSUME NEW f, NEW from \in Nat, NEW end \in Nat, NEW target \in Targets, NEW k \in Nat,
             from <= p, q <= end, k = 0 => target \in T, Scans(f, str, from, end, target)
      PROVE  f[<<p, k>>] = f[<<q, k>>]
  <2>1. p <= end + 1 /\ p < end /\ ~ p >= end /\ p + 1 # end
    BY <1>0, <1>1
  <2>2. f[<<p, k>>] = Scanned(str, end, target, f, p, k)
    <3>1. p \in from .. end + 1
      BY <1>1, <2>1
    <3> QED
      BY <1>1, <3>1, Zenon DEF Scans
  <2>3. ~(k = 0 /\ str[p] = target) /\ str[p] # CloseBrace
    BY CharsDiffer
  <2> QED
    BY <1>0, <2>1, <2>2, <2>3, Zenon DEF Scanned, OpenBrace, CloseBrace
<1>2. Skipped(str, p, q, T)
  BY <1>0, <1>1 DEF Skipped
<1> QED
  BY <1>0, <1>2, Zenon

LEMMA MinFirst ==
  ASSUME NEW end \in Nat, NEW i \in Nat, i <= end, NEW Q, Q \subseteq i .. end - 1,
         i \in Q \/ i = end
  PROVE  Min({end} \union Q) = i
<1>1. {end} \union Q \in SUBSET Nat /\ \A j \in {end} \union Q : j >= i
  OBVIOUS
<1>2. i \in {end} \union Q
  OBVIOUS
<1>3. PICK m : m = Min({end} \union Q)
  OBVIOUS
<1>4. m \in {end} \union Q /\ \A j \in {end} \union Q : m <= j
  BY <1>1, <1>3, MinIsLeast
<1>5. m \in Nat /\ m <= i /\ m >= i
  BY <1>1, <1>2, <1>4
<1> QED
  BY <1>3, <1>5

(* A modifier's name, then the number of an argument or a brace.           *)
ModifierAt(str, p) ==
  str[p] = "%" /\ ~isdigit(str[p + 1]) /\ ~ispunct(str[p + 1])
  /\ (isdigit(str[p + 2]) \/ str[p + 2] = OpenBrace)

AfterName(str, f, p, k) ==
  /\ str[p + 2] = OpenBrace => f[<<p, k>>] = f[<<p + 3, k + 1>>]
  /\ str[p + 2] # OpenBrace => f[<<p, k>>] = f[<<p + 3, k>>]

LEMMA ScannedModifier ==
  ASSUME NEW str, NEW p \in Nat, ModifierAt(str, p),
         NEW f, NEW from \in Nat, NEW end \in Nat, NEW target \in Targets, NEW k \in Nat,
         from <= p, p + 3 <= end, Scans(f, str, from, end, target)
  PROVE  AfterName(str, f, p, k)
<1>0. str[p] = "%" /\ ~isdigit(str[p + 1]) /\ ~ispunct(str[p + 1])
      /\ (isdigit(str[p + 2]) \/ str[p + 2] = OpenBrace)
  BY Zenon DEF ModifierAt
<1>1. p <= end + 1 /\ p < end /\ ~ p >= end /\ p + 1 # end /\ p + 2 # end /\ p + 2 <= end /\ p + 2 \in Nat
      /\ p + 2 \in p + 2 .. end - 1 /\ p + 2 + 1 = p + 3
  OBVIOUS
<1>2. f[<<p, k>>] = Scanned(str, end, target, f, p, k)
  <2>1. p \in from .. end + 1
    BY <1>1
  <2> QED
    BY <2>1, Zenon DEF Scans
<1>3. ~(k = 0 /\ str[p] = target) /\ str[p] # CloseBrace
  BY <1>0, CharsDiffer
<1>4. PICK Q : Q = {m \in p + 2 .. end - 1 : isdigit(str[m]) \/ str[m] = OpenBrace}
  OBVIOUS
<1>5. Q \subseteq p + 2 .. end - 1 /\ p + 2 \in Q
  BY <1>0, <1>1, <1>4, Zenon
<1>6. Min({end} \union Q) = p + 2
  <2>1. PICK i \in Nat : i = p + 2
    BY <1>1
  <2>2. i <= end /\ Q \subseteq i .. end - 1 /\ i \in Q
    BY <1>1, <1>5, <2>1, Zenon
  <2>3. Min({end} \union Q) = i
    BY <2>2, MinFirst
  <2> QED
    BY <2>1, <2>3
<1>7. Min({end} \union {m \in p + 2 .. end - 1 : isdigit(str[m]) \/ str[m] = OpenBrace}) = p + 2
  BY <1>4, <1>6, Zenon
<1>8. f[<<p, k>>] = f[<<p + 3, IF str[p + 2] = OpenBrace THEN k + 1 ELSE k>>]
  BY <1>0, <1>1, <1>2, <1>3, <1>7, Zenon DEF Scanned, OpenBrace, CloseBrace
<1> QED
  BY <1>8, Zenon DEF AfterName

LEMMA SkippedModifier ==
  ASSUME NEW str, NEW p \in Nat, NEW T, ModifierAt(str, p), isdigit(str[p + 2])
  PROVE  Skipped(str, p, p + 3, T)
<1>1. str[p + 2] # OpenBrace
  BY DigitsAre, CharsDiffer
<1>2. ASSUME NEW f, NEW from \in Nat, NEW end \in Nat, NEW target \in Targets, NEW k \in Nat,
             from <= p, p + 3 <= end, k = 0 => target \in T, Scans(f, str, from, end, target)
      PROVE  f[<<p, k>>] = f[<<p + 3, k>>]
  <2>1. AfterName(str, f, p, k)
    BY <1>2, ScannedModifier, Zenon
  <2> QED
    BY <1>1, <2>1, Zenon DEF AfterName
<1>3. \A f : \A from \in Nat, end \in Nat, target \in Targets, k \in Nat :
        from <= p /\ p + 3 <= end /\ (k = 0 => target \in T) /\ Scans(f, str, from, end, target)
          => f[<<p, k>>] = f[<<p + 3, k>>]
  BY <1>2
<1>4. p + 3 \in Nat /\ p <= p + 3
  OBVIOUS
<1> QED
  BY <1>3, <1>4, Zenon DEF Skipped

ClosesAt(str, i, end, k) ==
  ~(i >= end) /\ i < end /\ k # 0 /\ str[i] = CloseBrace /\ str[i] # "%"

(* A modifier with options in braces.                                      *)
LEMMA SkippedBraces ==
  ASSUME NEW str, NEW p \in Nat, NEW q, NEW T, ModifierAt(str, p),
         str[p + 2] = OpenBrace, Skipped(str, p + 3, q, {}), str[q] = CloseBrace
  PROVE  Skipped(str, p, q + 1, T)
<1>1. q \in Nat /\ p + 3 <= q /\ p + 3 \in Nat /\ q + 1 \in Nat /\ p <= q + 1
  BY DEF Skipped
<1>2. ASSUME NEW f, NEW from \in Nat, NEW end \in Nat, NEW target \in Targets, NEW k \in Nat,
             from <= p, q + 1 <= end, k = 0 => target \in T, Scans(f, str, from, end, target)
      PROVE  f[<<p, k>>] = f[<<q + 1, k>>]
  <2>1. p + 3 <= end /\ from <= p + 3 /\ q <= end /\ q < end /\ ~ q >= end /\ q <= end + 1 /\ from <= q
        /\ k + 1 \in Nat /\ k + 1 # 0 /\ k + 1 - 1 = k
    BY <1>1, <1>2
  <2>2. f[<<p, k>>] = f[<<p + 3, k + 1>>]
    <3>1. AfterName(str, f, p, k)
      BY <1>2, <2>1, ScannedModifier, Zenon
    <3> QED
      BY <3>1, Zenon DEF AfterName
  <2>3. f[<<p + 3, k + 1>>] = f[<<q, k + 1>>]
    BY <1>2, <2>1 DEF Skipped
  <2>4. f[<<q, k + 1>>] = Scanned(str, end, target, f, q, k + 1)
    <3>1. q \in from .. end + 1
      BY <1>1, <1>2, <2>1
    <3> QED
      BY <1>2, <2>1, <3>1, Zenon DEF Scans
  <2>5. str[q] # "%"
    BY CharsDiffer
  <2>6. f[<<q, k + 1>>] = f[<<q + 1, k>>]
    <3>1. PICK m \in Nat : m = k + 1 /\ m # 0 /\ m - 1 = k
      BY <2>1
    <3>2. ClosesAt(str, q, end, m)
      BY <2>1, <2>5, <3>1 DEF ClosesAt
    <3>3. Scanned(str, end, target, f, q, m) = f[<<q + 1, m - 1>>]
      BY <3>2, Zenon DEF ClosesAt, Scanned, CloseBrace
    <3> QED
      BY <2>4, <3>1, <3>3, Zenon
  <2> QED
    BY <2>2, <2>3, <2>6
<1>3. \A f : \A from \in Nat, end \in Nat, target \in Targets, k \in Nat :
        from <= p /\ q + 1 <= end /\ (k = 0 => target \in T) /\ Scans(f, str, from, end, target)
          => f[<<p, k>>] = f[<<q + 1, k>>]
  BY <1>2
<1> QED
  BY <1>1, <1>3, Zenon DEF Skipped

(* Where ScanFormat stops.                                                 *)
StopsAt(str, q, end, target) == q = end \/ (q < end /\ str[q] = target)

LEMMA ScanStops ==
  ASSUME NEW str, NEW p \in Nat, NEW q \in Nat, NEW end \in Nat, NEW target \in Targets,
         Skipped(str, p, q, {target}), StopsAt(str, q, end, target)
  PROVE  ScanFormat(str, p, end, target) = q
<1>0. q = end \/ (q < end /\ str[q] = target)
  BY DEF StopsAt
<1>1. q \in Nat /\ p <= q /\ q <= end /\ p <= end + 1 /\ q <= end + 1
  BY <1>0 DEF Skipped
<1>2. PICK f : Scans(f, str, p, end, target) /\ ScanFormat(str, p, end, target) = f[<<p, 0>>]
  BY <1>1, ScanIs
<1>3. p <= p
  BY <1>1
<1>4. f[<<p, 0>>] = f[<<q, 0>>]
  BY <1>1, <1>2, <1>3 DEF Skipped
<1>5. f[<<q, 0>>] = Scanned(str, end, target, f, q, 0)
  <2>1. q \in p .. end + 1 /\ 0 \in Nat
    BY <1>1
  <2> QED
    BY <1>2, <2>1, Zenon DEF Scans
<1>6. CASE q = end
  <2>1. q >= end
    BY <1>6
  <2> QED
    BY <1>2, <1>4, <1>5, <1>6, <2>1, Zenon DEF Scanned, OpenBrace, CloseBrace
<1>7. CASE q < end /\ str[q] = target
  <2>1. ~ q >= end
    BY <1>1, <1>7
  <2> QED
    BY <1>2, <1>4, <1>5, <1>7, <2>1, Zenon DEF Scanned, OpenBrace, CloseBrace
<1> QED
  BY <1>0, <1>6, <1>7
-----------------------------------------------------------------------------
(* Nodes and what they are written as.                                     *)

Chars == Digits \union Punctuation \union Modifiers \union Words
         \union {"(null)", "'", "name", "string", "th", "st", "nd", "rd", "s"}

LEMMA CharsAre ==
  /\ Digits \subseteq Chars /\ Punctuation \subseteq Chars /\ Modifiers \subseteq Chars
  /\ Words \subseteq Chars /\ {"%", "|", OpenBrace, CloseBrace, Comma, ":", "[", "]", "="} \subseteq Chars
  /\ {"(null)", "'", "name", "string", "th", "st", "nd", "rd", "s"} \subseteq Chars
BY Zenon DEF Chars, Punctuation, OpenBrace, CloseBrace, Comma

LEMMA PunctuationIs ==
  /\ \A c : ispunct(c) <=> c \in Punctuation
  /\ \A c \in Modifiers : ~isdigit(c) /\ ~ispunct(c)
  /\ "%" \in Punctuation /\ "|" \in Punctuation
  /\ \A w \in Words : w # "%" /\ w # "|" /\ w # CloseBrace
<1>1. \A c \in Modifiers : c \notin Digits /\ c \notin Punctuation
  BY Zenon DEF Modifiers, Digits, Punctuation
<1>2. "%" \in Punctuation /\ "|" \in Punctuation
  BY Zenon DEF Punctuation
<1>3. \A w \in Words : w # "%" /\ w # "|" /\ w # CloseBrace
  BY WordsAssumption, Zenon DEF CloseBrace
<1> QED
  BY <1>1, <1>2, <1>3, DigitsAre, Zenon DEF ispunct

PluralForms(trees) == [tests : Seq(PluralTests), form : trees]

LEMMA NodeCases ==
  ASSUME NEW trees, NEW n \in Nodes(trees)
  PROVE  \/ n.node = "text" /\ n.word \in Words
         \/ n.node = "escape" /\ n.word \in Punctuation
         \/ n.node \in {"argument", "s", "ordinal"} /\ n.arg \in 0 .. 9
         \/ n.node = "select" /\ n.arg \in 0 .. 9 /\ n.options \in Seq(trees)
         \/ n.node = "plural" /\ n.arg \in 0 .. 9
            /\ n.options \in Seq(PluralForms(trees))
BY DEF Nodes, PluralForms

Braced(modifier, inside, arg) ==
  <<"%", modifier, OpenBrace>> \o inside \o <<CloseBrace>> \o Numeral[arg]
SpelledOptions(n, sp) == [i \in DOMAIN n.options |-> sp[n.options[i]]]
SpelledForms(n, sp) == [i \in DOMAIN n.options |-> SpellForm(n.options[i], sp)]
SpelledTests(option) == [j \in DOMAIN option.tests |-> SpellTest(option.tests[j])]

LEMMA SpellNodeIs ==
  ASSUME NEW n, NEW sp
  PROVE  /\ n.node = "text" => SpellNode(n, sp) = <<n.word>>
         /\ n.node = "escape" => SpellNode(n, sp) = <<"%", n.word>>
         /\ n.node = "argument" => SpellNode(n, sp) = <<"%">> \o Numeral[n.arg]
         /\ n.node \in {"s", "ordinal"} => SpellNode(n, sp) = <<"%", n.node>> \o Numeral[n.arg]
         /\ n.node = "select" =>
              SpellNode(n, sp) = Braced("select", Joined(SpelledOptions(n, sp), "|"), n.arg)
         /\ n.node = "plural" =>
              SpellNode(n, sp) = Braced("plural", Joined(SpelledForms(n, sp), "|"), n.arg)
<1>1. n.node = "text" => SpellNode(n, sp) = <<n.word>>
  BY Zenon DEF SpellNode
<1>2. n.node = "escape" => SpellNode(n, sp) = <<"%", n.word>>
  BY Zenon DEF SpellNode
<1>3. n.node = "argument" => SpellNode(n, sp) = <<"%">> \o Numeral[n.arg]
  BY Zenon DEF SpellNode
<1>4. n.node \in {"s", "ordinal"} => SpellNode(n, sp) = <<"%", n.node>> \o Numeral[n.arg]
  BY Zenon DEF SpellNode
<1>5. n.node = "select" =>
        SpellNode(n, sp) = Braced("select", Joined(SpelledOptions(n, sp), "|"), n.arg)
  BY Zenon DEF SpellNode, Braced, SpelledOptions, OpenBrace, CloseBrace
<1>6. n.node = "plural" =>
        SpellNode(n, sp) = Braced("plural", Joined(SpelledForms(n, sp), "|"), n.arg)
  BY Zenon DEF SpellNode, Braced, SpelledForms, OpenBrace, CloseBrace
<1> QED
  BY <1>1, <1>2, <1>3, <1>4, <1>5, <1>6, Zenon

LEMMA SpellFormIs ==
  ASSUME NEW option, NEW sp
  PROVE  SpellForm(option, sp) = Joined(SpelledTests(option), Comma) \o <<":">> \o sp[option.form]
BY Zenon DEF SpellForm, SpelledTests, Comma
LEMMA JoinedType ==
  ASSUME NEW S, NEW ss \in Seq(Seq(S)), NEW sep \in S
  PROVE  Joined(ss, sep) \in Seq(S)
<1>1. PICK tt \in Seq(Seq(S)) : /\ Joined(ss, sep) = FlattenSeq(tt) /\ Len(tt) = Len(ss)
                                /\ \A i \in 1 .. Len(ss) :
                                     tt[i] = IF i = 1 THEN ss[i] ELSE <<sep>> \o ss[i]
  BY JoinedIs
<1> QED
  BY <1>1, FlattenType

LEMMA NumeralChars ==
  ASSUME NEW n \in Nat
  PROVE  Numeral[n] \in Seq(Digits) /\ Numeral[n] \in Seq(Chars) /\ Len(Numeral[n]) \in Nat \ {0}
<1>1. Seq(Digits) \subseteq Seq(Chars)
  BY CharsAre, SeqOfMore
<1>2. Numeral[n] \in Seq(Digits) /\ Len(Numeral[n]) \in Nat /\ Len(Numeral[n]) >= 1
  BY NumeralType
<1> QED
  BY <1>1, <1>2

SpelledModulus(t) == IF t.mod = 0 THEN << >> ELSE <<"%">> \o Numeral[t.mod] \o <<"=">>
SpelledRange(t) ==
  IF t.low = t.high THEN Numeral[t.low]
  ELSE <<"[">> \o Numeral[t.low] \o <<Comma>> \o Numeral[t.high] \o <<"]">>

LEMMA ConcatType ==
  ASSUME NEW S, NEW a \in Seq(S), NEW b \in Seq(S)
  PROVE  a \o b \in Seq(S) /\ Len(a \o b) = Len(a) + Len(b) /\ Len(a) \in Nat /\ Len(b) \in Nat
BY ConcatProperties, LenProperties

LEMMA OneChar ==
  ASSUME NEW S, NEW x \in S
  PROVE  <<x>> \in Seq(S) /\ Len(<<x>>) = 1
OBVIOUS

LEMMA TwoChars ==
  ASSUME NEW S, NEW x \in S, NEW y \in S
  PROVE  <<x, y>> \in Seq(S) /\ Len(<<x, y>>) = 2
OBVIOUS

LEMMA ThreeChars ==
  ASSUME NEW S, NEW x \in S, NEW y \in S, NEW z \in S
  PROVE  <<x, y, z>> \in Seq(S) /\ Len(<<x, y, z>>) = 3
OBVIOUS

LEMMA Longer ==
  ASSUME NEW S, NEW a \in Seq(S), NEW b \in Seq(S), Len(a) \in Nat \ {0} \/ Len(b) \in Nat \ {0}
  PROVE  a \o b \in Seq(S) /\ Len(a \o b) \in Nat \ {0}
<1>1. PICK m \in Nat, n \in Nat : m = Len(a) /\ n = Len(b)
  BY LenProperties
<1>2. a \o b \in Seq(S) /\ Len(a \o b) = m + n
  BY <1>1, ConcatProperties
<1>3. m # 0 \/ n # 0
  BY <1>1
<1> QED
  BY <1>2, <1>3

LEMMA SpellTestType ==
  ASSUME NEW t \in PluralTests
  PROVE  /\ SpellTest(t) = SpelledModulus(t) \o SpelledRange(t)
         /\ SpelledModulus(t) \in Seq(Chars) /\ SpelledRange(t) \in Seq(Chars)
         /\ SpellTest(t) \in Seq(Chars) /\ Len(SpellTest(t)) \in Nat \ {0}
         /\ t.mod \in Nat /\ t.low \in Nat /\ t.high \in Nat
<1>1. t.mod \in Nat /\ t.low \in Nat /\ t.high \in Nat
  BY DEF PluralTests
<1>2. SpellTest(t) = SpelledModulus(t) \o SpelledRange(t)
  BY Zenon DEF SpellTest, SpelledModulus, SpelledRange, Comma
<1>3. SpelledModulus(t) \in Seq(Chars)
  <2>1. CASE t.mod = 0
    BY <2>1, EmptySeq DEF SpelledModulus
  <2>2. CASE t.mod # 0
    <3>1. PICK a \in Seq(Chars), b \in Seq(Chars), c \in Seq(Chars) :
            a = <<"%">> /\ b = Numeral[t.mod] /\ c = <<"=">>
      BY <1>1, CharsAre, OneChar, NumeralChars
    <3>2. a \o b \in Seq(Chars)
      BY ConcatType
    <3>3. a \o b \o c \in Seq(Chars)
      BY <3>2, ConcatType
    <3> QED
      BY <2>2, <3>1, <3>3, Zenon DEF SpelledModulus
  <2> QED
    BY <2>1, <2>2
<1>4. SpelledRange(t) \in Seq(Chars) /\ Len(SpelledRange(t)) \in Nat \ {0}
  <2>1. CASE t.low = t.high
    BY <1>1, <2>1, NumeralChars DEF SpelledRange
  <2>2. CASE t.low # t.high
    <3>1. PICK a \in Seq(Chars), b \in Seq(Chars), c \in Seq(Chars), d \in Seq(Chars), e \in Seq(Chars) :
            /\ a = <<"[">> /\ b = Numeral[t.low] /\ c = <<Comma>> /\ d = Numeral[t.high] /\ e = <<"]">>
            /\ Len(a) = 1
      BY <1>1, CharsAre, OneChar, NumeralChars
    <3>2. a \o b \in Seq(Chars) /\ Len(a \o b) \in Nat \ {0}
      BY <3>1, Longer
    <3>3. a \o b \o c \in Seq(Chars) /\ Len(a \o b \o c) \in Nat \ {0}
      BY <3>2, Longer
    <3>4. a \o b \o c \o d \in Seq(Chars) /\ Len(a \o b \o c \o d) \in Nat \ {0}
      BY <3>3, Longer
    <3>5. a \o b \o c \o d \o e \in Seq(Chars) /\ Len(a \o b \o c \o d \o e) \in Nat \ {0}
      BY <3>4, Longer
    <3>6. PICK s : s = a \o b \o c \o d \o e
      OBVIOUS
    <3>7. s \in Seq(Chars) /\ Len(s) \in Nat \ {0}
      BY <3>5, <3>6
    <3>8. SpelledRange(t) = s
      BY <2>2, <3>1, <3>6, Zenon DEF SpelledRange
    <3> QED
      BY <3>7, <3>8
  <2> QED
    BY <2>1, <2>2
<1>5. SpellTest(t) \in Seq(Chars) /\ Len(SpellTest(t)) \in Nat \ {0}
  <2>1. PICK a \in Seq(Chars), b \in Seq(Chars) : a = SpelledModulus(t) /\ b = SpelledRange(t)
    BY <1>3, <1>4
  <2>2. a \o b \in Seq(Chars) /\ Len(a \o b) = Len(a) + Len(b) /\ Len(a) \in Nat /\ Len(b) \in Nat \ {0}
    BY <1>4, <2>1, ConcatType
  <2>3. Len(a) + Len(b) \in Nat \ {0}
    BY <2>2
  <2> QED
    BY <1>2, <2>1, <2>2, <2>3
<1> QED
  BY <1>1, <1>2, <1>3, <1>4, <1>5

Spells(trees, sp) == \A u \in trees : sp[u] \in Seq(Chars)

LEMMA SpellFormType ==
  ASSUME NEW trees, NEW sp, Spells(trees, sp), NEW option \in PluralForms(trees)
  PROVE  /\ SpelledTests(option) \in Seq(Seq(Chars)) /\ Len(SpelledTests(option)) = Len(option.tests)
         /\ \A j \in 1 .. Len(option.tests) :
              option.tests[j] \in PluralTests /\ SpelledTests(option)[j] = SpellTest(option.tests[j])
         /\ Joined(SpelledTests(option), Comma) \in Seq(Chars)
         /\ option.form \in trees /\ sp[option.form] \in Seq(Chars)
         /\ SpellForm(option, sp) \in Seq(Chars)
<1>1. option.tests \in Seq(PluralTests) /\ option.form \in trees
  BY DEF PluralForms
<1>2. PICK tests \in Seq(PluralTests) : tests = option.tests
  BY <1>1
<1>3. PICK n \in Nat : n = Len(tests) /\ DOMAIN tests = 1 .. n
  BY LenProperties
<1>4. \A j \in 1 .. n : tests[j] \in PluralTests /\ SpellTest(tests[j]) \in Seq(Chars)
  BY <1>3, ElementOfSeq, SpellTestType
<1>5. PICK ss : ss = [j \in 1 .. n |-> SpellTest(tests[j])]
  OBVIOUS
<1>6. ss \in Seq(Seq(Chars)) /\ Len(ss) = n
  <2>1. ss \in [1 .. n -> Seq(Chars)]
    BY <1>4, <1>5
  <2> QED
    BY <1>5, <2>1
<1>7. SpelledTests(option) = ss
  BY <1>2, <1>3, <1>5, Zenon DEF SpelledTests
<1>8. PICK a \in Seq(Chars) : a = Joined(ss, Comma)
  BY <1>6, CharsAre, JoinedType
<1>9. PICK b \in Seq(Chars) : b = <<":">>
  BY CharsAre, OneChar
<1>10. PICK c \in Seq(Chars) : c = sp[option.form]
  BY <1>1 DEF Spells
<1>11. a \o b \in Seq(Chars)
  BY ConcatType
<1>12. a \o b \o c \in Seq(Chars)
  BY <1>11, ConcatType
<1>13. SpellForm(option, sp) = a \o b \o c
  BY <1>7, <1>8, <1>9, <1>10, SpellFormIs, Zenon
<1> QED
  BY <1>1, <1>2, <1>3, <1>4, <1>5, <1>6, <1>7, <1>8, <1>10, <1>12, <1>13

LEMMA SpelledFormsType ==
  ASSUME NEW trees, NEW sp, Spells(trees, sp), NEW n,
         n.options \in Seq(PluralForms(trees))
  PROVE  /\ SpelledForms(n, sp) \in Seq(Seq(Chars)) /\ Len(SpelledForms(n, sp)) = Len(n.options)
         /\ \A i \in 1 .. Len(n.options) :
              /\ SpelledForms(n, sp)[i] = SpellForm(n.options[i], sp)
              /\ n.options[i] \in PluralForms(trees)
<1>1. PICK options \in Seq(PluralForms(trees)) : options = n.options
  OBVIOUS
<1>2. PICK l \in Nat : l = Len(options) /\ DOMAIN options = 1 .. l
  BY LenProperties
<1>3. \A i \in 1 .. l : options[i] \in PluralForms(trees)
  BY <1>2, ElementOfSeq
<1>4. \A i \in 1 .. l : SpellForm(options[i], sp) \in Seq(Chars)
  BY <1>3, SpellFormType
<1>5. PICK ss : ss = [i \in 1 .. l |-> SpellForm(options[i], sp)]
  OBVIOUS
<1>6. ss \in Seq(Seq(Chars)) /\ Len(ss) = l
  <2>1. ss \in [1 .. l -> Seq(Chars)]
    BY <1>4, <1>5
  <2> QED
    BY <1>5, <2>1
<1>7. SpelledForms(n, sp) = ss
  BY <1>1, <1>2, <1>5, Zenon DEF SpelledForms
<1> QED
  BY <1>1, <1>2, <1>3, <1>5, <1>6, <1>7

LEMMA SpelledOptionsType ==
  ASSUME NEW trees, NEW sp, Spells(trees, sp), NEW n, n.options \in Seq(trees)
  PROVE  /\ SpelledOptions(n, sp) \in Seq(Seq(Chars)) /\ Len(SpelledOptions(n, sp)) = Len(n.options)
         /\ \A i \in 1 .. Len(n.options) :
              SpelledOptions(n, sp)[i] = sp[n.options[i]] /\ n.options[i] \in trees
<1>1. PICK options \in Seq(trees) : options = n.options
  OBVIOUS
<1>2. PICK l \in Nat : l = Len(options) /\ DOMAIN options = 1 .. l
  BY LenProperties
<1>3. \A i \in 1 .. l : options[i] \in trees
  BY <1>2, ElementOfSeq
<1>4. \A i \in 1 .. l : sp[options[i]] \in Seq(Chars)
  BY <1>3 DEF Spells
<1>5. PICK ss : ss = [i \in 1 .. l |-> sp[options[i]]]
  OBVIOUS
<1>6. ss \in Seq(Seq(Chars)) /\ Len(ss) = l
  <2>1. ss \in [1 .. l -> Seq(Chars)]
    BY <1>4, <1>5
  <2> QED
    BY <1>5, <2>1
<1>7. SpelledOptions(n, sp) = ss
  BY <1>1, <1>2, <1>5, Zenon DEF SpelledOptions
<1> QED
  BY <1>1, <1>2, <1>3, <1>5, <1>6, <1>7

LEMMA BracedIs ==
  ASSUME NEW modifier \in Modifiers, NEW inside \in Seq(Chars), NEW arg \in 0 .. 9
  PROVE  Braced(modifier, inside, arg) \in Seq(Chars)
         /\ Len(Braced(modifier, inside, arg)) = Len(inside) + 5 /\ Len(inside) \in Nat
<1>1. PICK a \in Seq(Chars) : a = <<"%", modifier, OpenBrace>> /\ Len(a) = 3
  <2>1. "%" \in Chars /\ modifier \in Chars /\ OpenBrace \in Chars
    BY CharsAre
  <2>2. <<"%", modifier, OpenBrace>> \in Seq(Chars) /\ Len(<<"%", modifier, OpenBrace>>) = 3
    BY <2>1, ThreeChars
  <2> QED
    BY <2>2, Zenon
<1>2. PICK b \in Seq(Chars) : b = <<CloseBrace>> /\ Len(b) = 1
  BY CharsAre, OneChar
<1>3. PICK c \in Seq(Chars) : c = Numeral[arg] /\ Len(c) = 1
  <2>1. arg \in Nat /\ Len(<<DigitChars[arg + 1]>>) = 1
    OBVIOUS
  <2> QED
    BY <2>1, NumeralChars, NumeralOfDigit
<1>4. a \o inside \in Seq(Chars) /\ Len(a \o inside) = Len(a) + Len(inside) /\ Len(inside) \in Nat
  BY ConcatType
<1>5. a \o inside \o b \in Seq(Chars) /\ Len(a \o inside \o b) = Len(a \o inside) + Len(b)
  BY <1>4, ConcatType
<1>6. a \o inside \o b \o c \in Seq(Chars) /\ Len(a \o inside \o b \o c) = Len(a \o inside \o b) + Len(c)
  BY <1>5, ConcatType
<1>7. Braced(modifier, inside, arg) = a \o inside \o b \o c
  BY <1>1, <1>2, <1>3, Zenon DEF Braced
<1>8. PICK m \in Nat : m = Len(inside)
  BY <1>4
<1>9. Len(a \o inside \o b \o c) = 3 + m + 1 + 1
  BY <1>1, <1>2, <1>3, <1>4, <1>5, <1>6, <1>8
<1> QED
  BY <1>6, <1>7, <1>8, <1>9

LEMMA SpellNodeType ==
  ASSUME NEW trees, NEW sp, Spells(trees, sp), NEW n \in Nodes(trees)
  PROVE  SpellNode(n, sp) \in Seq(Chars) /\ Len(SpellNode(n, sp)) \in Nat \ {0}
<1>1. CASE n.node = "text" /\ n.word \in Words
  <2>1. <<n.word>> \in Seq(Chars) /\ Len(<<n.word>>) = 1
    BY <1>1, CharsAre, OneChar
  <2>2. SpellNode(n, sp) = <<n.word>>
    BY <1>1, SpellNodeIs, Zenon
  <2>3. 1 \in Nat \ {0}
    OBVIOUS
  <2> QED
    BY <2>1, <2>2, <2>3, Zenon
<1>2. CASE n.node = "escape" /\ n.word \in Punctuation
  <2>1. <<"%", n.word>> \in Seq(Chars) /\ Len(<<"%", n.word>>) = 2
    BY <1>2, CharsAre, TwoChars
  <2>2. SpellNode(n, sp) = <<"%", n.word>>
    BY <1>2, SpellNodeIs, Zenon
  <2>3. 2 \in Nat \ {0}
    OBVIOUS
  <2> QED
    BY <2>1, <2>2, <2>3, Zenon
<1>3. CASE n.node \in {"argument", "s", "ordinal"} /\ n.arg \in 0 .. 9
  <2>1. PICK b \in Seq(Chars) : b = Numeral[n.arg] /\ Len(b) \in Nat \ {0}
    <3>1. n.arg \in Nat
      BY <1>3
    <3> QED
      BY <3>1, NumeralChars
  <2>2. PICK a \in Seq(Chars) : a = (IF n.node = "argument" THEN <<"%">> ELSE <<"%", n.node>>)
    <3>1. "%" \in Chars /\ (n.node # "argument" => n.node \in Chars)
      BY <1>3, CharsAre DEF Modifiers
    <3> QED
      BY <3>1, OneChar, TwoChars
  <2>3. a \o b \in Seq(Chars) /\ Len(a \o b) \in Nat \ {0}
    BY <2>1, Longer
  <2>4. SpellNode(n, sp) = a \o b
    <3>1. CASE n.node = "argument"
      BY <2>1, <2>2, <3>1, SpellNodeIs, Zenon
    <3>2. CASE n.node # "argument"
      <4>1. n.node \in {"s", "ordinal"}
        BY <1>3, <3>2
      <4> QED
        BY <2>1, <2>2, <3>2, <4>1, SpellNodeIs, Zenon
    <3> QED
      BY <3>1, <3>2
  <2> QED
    BY <2>3, <2>4
<1>4. CASE n.node = "select" /\ n.arg \in 0 .. 9 /\ n.options \in Seq(trees)
  <2>1. PICK J \in Seq(Chars) : J = Joined(SpelledOptions(n, sp), "|")
    BY <1>4, SpelledOptionsType, CharsAre, JoinedType
  <2>2. SpellNode(n, sp) = Braced("select", J, n.arg)
    BY <1>4, <2>1, SpellNodeIs
  <2>3. "select" \in Modifiers
    BY DEF Modifiers
  <2> QED
    <3>1. PICK m \in Nat : m = Len(J) /\ m + 5 \in Nat \ {0}
      BY LenProperties
    <3>2. Braced("select", J, n.arg) \in Seq(Chars) /\ Len(Braced("select", J, n.arg)) = m + 5
      BY <1>4, <2>3, <3>1, BracedIs
    <3> QED
      BY <2>2, <3>1, <3>2
<1>5. CASE n.node = "plural" /\ n.arg \in 0 .. 9
           /\ n.options \in Seq(PluralForms(trees))
  <2>1. PICK J \in Seq(Chars) : J = Joined(SpelledForms(n, sp), "|")
    BY <1>5, SpelledFormsType, CharsAre, JoinedType
  <2>2. SpellNode(n, sp) = Braced("plural", J, n.arg)
    BY <1>5, <2>1, SpellNodeIs
  <2>3. "plural" \in Modifiers
    BY DEF Modifiers
  <2> QED
    <3>1. PICK m \in Nat : m = Len(J) /\ m + 5 \in Nat \ {0}
      BY LenProperties
    <3>2. Braced("plural", J, n.arg) \in Seq(Chars) /\ Len(Braced("plural", J, n.arg)) = m + 5
      BY <1>5, <2>3, <3>1, BracedIs
    <3> QED
      BY <2>2, <3>1, <3>2
<1> QED
  BY <1>1, <1>2, <1>3, <1>4, <1>5, NodeCases
-----------------------------------------------------------------------------
(* ScanFormat goes over the text of a tree.                                *)

Plain == Chars \ ({"%"} \union Targets)

LEMMA PlainIs ==
  /\ Plain \subseteq Chars /\ Digits \subseteq Plain /\ Words \subseteq Plain
  /\ {Comma, ":", "[", "]", "="} \subseteq Plain
  /\ \A c \in Plain : c # "%" /\ c # CloseBrace /\ c \notin Targets
<1>1. \A c \in Plain : c \in Chars /\ c # "%" /\ c # CloseBrace /\ c \notin Targets
  BY CharsDiffer, Zenon DEF Plain
<1>2. \A c \in Digits : c # "%" /\ c \notin Targets
  BY Zenon DEF Digits, Targets, CloseBrace
<1>3. \A c \in Words : c # "%" /\ c \notin Targets
  BY PunctuationIs, Zenon DEF Targets
<1>4. \A c \in {Comma, ":", "[", "]", "="} : c # "%" /\ c \notin Targets
  BY Zenon DEF Comma, Targets, CloseBrace
<1>5. \A c \in Digits \union Words \union {Comma, ":", "[", "]", "="} : c \in Chars
  BY CharsAre
<1> QED
  BY <1>1, <1>2, <1>3, <1>4, <1>5 DEF Plain

LEMMA PlainSkipped ==
  ASSUME NEW str, NEW p, NEW s \in Seq(Plain), Stands(str, p, s)
  PROVE  Skipped(str, p, p + Len(s), Targets)
<1>1. Len(s) \in Nat /\ p \in Nat
  BY LenProperties DEF Stands
<1>2. ASSUME NEW i \in 1 .. Len(s)
      PROVE  str[p + i - 1] # "%" /\ str[p + i - 1] # CloseBrace /\ str[p + i - 1] \notin Targets
  <2>1. s[i] \in Plain
    BY ElementOfSeq
  <2>2. str[p + i - 1] = s[i]
    BY DEF Stands
  <2> QED
    BY <2>1, <2>2, PlainIs
<1> QED
  BY <1>1, <1>2, SkippedRun

LEMMA StandsTwo ==
  ASSUME NEW str, NEW x, NEW y, NEW p, Stands(str, p, <<x, y>>)
  PROVE  str[p] = x /\ str[p + 1] = y /\ p \in Nat
<1>1. Len(<<x, y>>) = 2 /\ <<x, y>>[1] = x /\ <<x, y>>[2] = y /\ 1 \in 1 .. 2 /\ 2 \in 1 .. 2
  OBVIOUS
<1>2. p \in Nat /\ str[p + 1 - 1] = x /\ str[p + 2 - 1] = y
  BY <1>1 DEF Stands
<1>3. p + 1 - 1 = p /\ p + 2 - 1 = p + 1
  BY <1>2
<1> QED
  BY <1>2, <1>3

LEMMA StandsThree ==
  ASSUME NEW str, NEW x, NEW y, NEW z, NEW p, Stands(str, p, <<x, y, z>>)
  PROVE  str[p] = x /\ str[p + 1] = y /\ str[p + 2] = z /\ p \in Nat
<1>1. /\ Len(<<x, y, z>>) = 3 /\ <<x, y, z>>[1] = x /\ <<x, y, z>>[2] = y /\ <<x, y, z>>[3] = z
      /\ 1 \in 1 .. 3 /\ 2 \in 1 .. 3 /\ 3 \in 1 .. 3
  OBVIOUS
<1>2. p \in Nat /\ str[p + 1 - 1] = x /\ str[p + 2 - 1] = y /\ str[p + 3 - 1] = z
  BY <1>1 DEF Stands
<1>3. p + 1 - 1 = p /\ p + 2 - 1 = p + 1 /\ p + 3 - 1 = p + 2
  BY <1>2
<1> QED
  BY <1>2, <1>3

(* What stands where in the text of a modifier with options.               *)
BracedAt(str, p, modifier, inside, arg, l) ==
  /\ str[p] = "%" /\ str[p + 1] = modifier /\ str[p + 2] = OpenBrace /\ Stands(str, p + 3, inside)
  /\ str[p + 3 + l] = CloseBrace /\ str[p + 3 + l + 1] = DigitChars[arg + 1]
  /\ p \in Nat \ {0} /\ l \in Nat /\ l = Len(inside) /\ p + (l + 5) <= Len(str) + 1

LEMMA BracedStands ==
  ASSUME NEW str \in Seq(Chars), NEW modifier \in Modifiers, NEW inside \in Seq(Chars), NEW arg \in 0 .. 9,
         NEW p, Stands(str, p, Braced(modifier, inside, arg))
  PROVE  BracedAt(str, p, modifier, inside, arg, Len(inside))
<1>0. PICK l : l = Len(inside)
  OBVIOUS
<1>1. PICK a \in Seq(Chars) : a = <<"%", modifier, OpenBrace>> /\ Len(a) = 3
  <2>1. "%" \in Chars /\ modifier \in Chars /\ OpenBrace \in Chars
    BY CharsAre
  <2>2. <<"%", modifier, OpenBrace>> \in Seq(Chars) /\ Len(<<"%", modifier, OpenBrace>>) = 3
    BY <2>1, ThreeChars
  <2> QED
    BY <2>2, Zenon
<1>2. PICK b \in Seq(Chars) : b = <<CloseBrace>> /\ Len(b) = 1
  BY CharsAre, OneChar
<1>3. PICK c \in Seq(Chars) : c = <<DigitChars[arg + 1]>> /\ Len(c) = 1
  BY NumeralOfDigit, CharsAre, OneChar
<1>4. a \o inside \in Seq(Chars) /\ Len(a \o inside) = 3 + l /\ l \in Nat
  BY <1>0, <1>1, ConcatType
<1>5. a \o inside \o b \in Seq(Chars) /\ Len(a \o inside \o b) = 3 + l + 1
  BY <1>2, <1>4, ConcatType
<1>6. Braced(modifier, inside, arg) = a \o inside \o b \o c
  BY <1>1, <1>2, <1>3, NumeralOfDigit, Zenon DEF Braced
<1>7. Stands(str, p, a \o inside \o b) /\ Stands(str, p + (3 + l + 1), c)
  BY <1>5, <1>6, StandsConcat
<1>8. Stands(str, p, a \o inside) /\ Stands(str, p + (3 + l), b)
  BY <1>4, <1>7, StandsConcat
<1>9. Stands(str, p, a) /\ Stands(str, p + 3, inside)
  BY <1>1, <1>8, StandsConcat
<1>10. str[p] = "%" /\ str[p + 1] = modifier /\ str[p + 2] = OpenBrace /\ p \in Nat
  BY <1>1, <1>9, StandsThree, Zenon
<1>11. PICK m \in Nat : m = Len(str)
  BY LenProperties
<1>12. p + (3 + l) \in 1 .. m /\ str[p + (3 + l)] = CloseBrace
  BY <1>2, <1>8, <1>11, StandsOne
<1>13. p + (3 + l + 1) \in 1 .. m /\ str[p + (3 + l + 1)] = DigitChars[arg + 1]
  BY <1>3, <1>7, <1>11, StandsOne
<1>14. p + (3 + l) = p + 3 + l /\ p + (3 + l + 1) = p + 3 + l + 1 /\ p + (l + 5) <= m + 1
  BY <1>4, <1>10, <1>13
<1>15. p \in Nat \ {0}
  BY <1>9 DEF Stands
<1> QED
  BY <1>0, <1>4, <1>9, <1>10, <1>11, <1>12, <1>13, <1>14, <1>15 DEF BracedAt
LEMMA RangeType ==
  ASSUME NEW t \in PluralTests
  PROVE  SpelledRange(t) \in Seq(Plain)
<1>0. t.low \in Nat /\ t.high \in Nat
  BY SpellTestType
<1>1. PICK b \in Seq(Plain), d \in Seq(Plain) : b = Numeral[t.low] /\ d = Numeral[t.high]
  BY <1>0, NumeralChars, PlainIs, SeqOfMore
<1>2. CASE t.low = t.high
  BY <1>1, <1>2, Zenon DEF SpelledRange
<1>3. CASE t.low # t.high
  <2>1. PICK a \in Seq(Plain), c \in Seq(Plain), e \in Seq(Plain) :
          a = <<"[">> /\ c = <<Comma>> /\ e = <<"]">>
    BY PlainIs, OneChar
  <2>2. a \o b \in Seq(Plain)
    BY ConcatType
  <2>3. a \o b \o c \in Seq(Plain)
    BY <2>2, ConcatType
  <2>4. a \o b \o c \o d \in Seq(Plain)
    BY <2>3, ConcatType
  <2>5. a \o b \o c \o d \o e \in Seq(Plain)
    BY <2>4, ConcatType
  <2> QED
    BY <1>1, <1>3, <2>1, <2>5, Zenon DEF SpelledRange
<1> QED
  BY <1>2, <1>3

LEMMA TestSkipped ==
  ASSUME NEW str \in Seq(Chars), NEW p, NEW t \in PluralTests, Stands(str, p, SpellTest(t))
  PROVE  Skipped(str, p, p + Len(SpellTest(t)), Targets)
<1>0. Seq(Plain) \subseteq Seq(Chars) /\ Seq(Digits) \subseteq Seq(Plain)
  BY PlainIs, SeqOfMore
<1>1. PICK m \in Seq(Chars), r \in Seq(Plain) : m = SpelledModulus(t) /\ r = SpelledRange(t) /\ r \in Seq(Chars)
  BY SpellTestType, RangeType
<1>2. SpellTest(t) = m \o r
  BY <1>1, SpellTestType
<1>3. Len(m \o r) = Len(m) + Len(r) /\ Len(m) \in Nat /\ Len(r) \in Nat
  BY <1>1, ConcatType
<1>4. Stands(str, p, m) /\ Stands(str, p + Len(m), r) /\ p \in Nat
  <2>1. p \in Nat
    BY DEF Stands
  <2>2. Stands(str, p, m \o r)
    BY <1>2
  <2> QED
    BY <1>1, <2>1, <2>2, StandsConcat
<1>5. Skipped(str, p + Len(m), p + Len(m) + Len(r), Targets)
  BY <1>4, PlainSkipped
<1>6. Skipped(str, p, p + Len(m), Targets)
  <2>1. CASE t.mod = 0
    <3>1. m = << >> /\ Len(m) = 0
      BY <1>1, <2>1 DEF SpelledModulus
    <3>2. p + 0 = p
      BY <1>4
    <3> QED
      BY <1>4, <3>1, <3>2, SkippedNone
  <2>2. CASE t.mod # 0
    <3>0. t.mod \in Nat
      BY SpellTestType
    <3>1. PICK a \in Seq(Chars), b \in Seq(Digits), c \in Seq(Plain) :
            a = <<"%">> /\ b = Numeral[t.mod] /\ c = <<"=">> /\ Len(a) = 1 /\ Len(c) = 1 /\ Len(b) \in Nat \ {0}
      BY <3>0, CharsAre, PlainIs, OneChar, NumeralChars
    <3>2. m = a \o b \o c
      BY <1>1, <2>2, <3>1, Zenon DEF SpelledModulus
    <3>3. b \in Seq(Plain) /\ b \in Seq(Chars) /\ c \in Seq(Chars)
      BY <1>0, <3>1
    <3>4. PICK s \in Seq(Plain) : s = b \o c /\ Len(s) = Len(b) + 1 /\ s \in Seq(Chars)
      <4>1. b \o c \in Seq(Plain) /\ Len(b \o c) = Len(b) + Len(c)
        BY <3>3, ConcatType
      <4> QED
        BY <1>0, <3>1, <4>1
    <3>5. m = a \o s
      <4>1. (a \o b) \o c = a \o (b \o c)
        BY <3>3, ConcatAssociative
      <4> QED
        BY <3>2, <3>4, <4>1, Zenon
    <3>6. Stands(str, p, a) /\ Stands(str, p + 1, s)
      BY <1>4, <3>1, <3>4, <3>5, StandsConcat
    <3>7. PICK n \in Nat : n = Len(str)
      BY LenProperties
    <3>8. str[p] = "%"
      BY <3>1, <3>6, <3>7, StandsOne
    <3>9. PICK l \in Nat : l = Len(b) /\ l >= 1
      BY <3>1
    <3>10. Len(s) = l + 1
      BY <3>4, <3>9
    <3>11. \A i \in 1 .. l + 1 : str[p + 1 + i - 1] = s[i]
      BY <3>6, <3>10 DEF Stands
    <3>12. 1 \in 1 .. l /\ 1 \in 1 .. l + 1 /\ p + 1 + 1 - 1 = p + 1
      BY <1>4, <3>9
    <3>13. s[1] = b[1] /\ b[1] \in Digits
      BY <3>1, <3>3, <3>4, <3>9, <3>12, ConcatProperties, ElementOfSeq
    <3>14. isdigit(str[p + 1])
      BY <3>11, <3>12, <3>13, DigitsAre
    <3>15. Skipped(str, p, p + 2, Targets)
      BY <1>4, <3>8, <3>14, SkippedTwo
    <3>16. ASSUME NEW i \in 1 .. l
           PROVE  str[p + 2 + i - 1] # "%" /\ str[p + 2 + i - 1] # CloseBrace /\ str[p + 2 + i - 1] \notin Targets
      <4>1. i + 1 \in 1 .. l + 1 /\ p + 1 + (i + 1) - 1 = p + 2 + i - 1 /\ i + 1 \in 1 .. Len(s)
        BY <1>4, <3>10
      <4>2. s[i + 1] \in Plain
        BY <4>1, ElementOfSeq
      <4> QED
        BY <3>11, <4>1, <4>2, PlainIs
    <3>17. Skipped(str, p + 2, p + 2 + l, Targets)
      <4>1. p + 2 \in Nat
        BY <1>4
      <4> QED
        BY <3>16, <4>1, SkippedRun
    <3>18. Len(m) = l + 2 /\ p + 2 + l = p + (l + 2)
      <4>1. Len(a \o s) = Len(a) + Len(s)
        <5>1. PICK y \in Seq(Chars) : y = s
          BY <3>4, Zenon
        <5>2. Len(a \o y) = Len(a) + Len(y)
          BY ConcatType
        <5> QED
          BY <5>1, <5>2, Zenon
      <4> QED
        BY <1>4, <3>1, <3>5, <3>10, <4>1
    <3> QED
      BY <3>15, <3>17, <3>18, SkippedBoth
  <2> QED
    BY <2>1, <2>2
<1>7. p + Len(m) + Len(r) = p + Len(SpellTest(t))
  BY <1>2, <1>3, <1>4
<1> QED
  BY <1>5, <1>6, <1>7, SkippedBoth

LEMMA JoinedNone ==
  ASSUME NEW sep
  PROVE  Joined(<< >>, sep) = << >>
<1>1. [i \in DOMAIN << >> |-> IF i = 1 THEN << >>[i] ELSE <<sep>> \o << >>[i]] = << >>
  OBVIOUS
<1> QED
  BY <1>1, FlattenEmpty DEF Joined

(* Pieces that are gone over, with separators that nothing is looked for.  *)
LEMMA JoinedSkipped ==
  ASSUME NEW str \in Seq(Chars), NEW p, NEW ss \in Seq(Seq(Chars)), NEW sep \in Chars,
         NEW T, T \subseteq Targets, sep \notin T, sep # "%", sep # CloseBrace,
         \A i \in 1 .. Len(ss) : \A q : Stands(str, q, ss[i]) => Skipped(str, q, q + Len(ss[i]), Targets),
         Stands(str, p, Joined(ss, sep))
  PROVE  Skipped(str, p, p + Len(Joined(ss, sep)), T)
<1>0. p \in Nat
  BY DEF Stands
<1>1. PICK n \in Nat : n = Len(ss)
  BY LenProperties
<1>2. CASE n = 0
  <2>1. ss = << >>
    BY <1>1, <1>2, EmptySeq
  <2>2. Joined(ss, sep) = << >> /\ Len(<< >>) = 0 /\ p + 0 = p
    BY <1>0, <2>1, JoinedNone
  <2> QED
    BY <1>0, <2>2, SkippedNone
<1>3. CASE n # 0
  <2>1. PICK st : Joints(st, str, p, ss, sep)
    BY <1>1, <1>3, JoinedStands
  <2>2. /\ st[1] = p /\ st[n] + Len(ss[n]) = p + Len(Joined(ss, sep))
        /\ \A i \in 1 .. n : Stands(str, st[i], ss[i])
        /\ \A i \in 1 .. n : i < n => /\ str[st[i] + Len(ss[i])] = sep
                                      /\ st[i + 1] = st[i] + Len(ss[i]) + 1
    BY <1>1, <2>1 DEF Joints
  <2>3. \A i \in 1 .. n : Skipped(str, st[i], st[i] + Len(ss[i]), T)
    <3> SUFFICES ASSUME NEW i \in 1 .. n PROVE Skipped(str, st[i], st[i] + Len(ss[i]), T)
      OBVIOUS
    <3>1. Skipped(str, st[i], st[i] + Len(ss[i]), Targets)
      BY <1>1, <2>2
    <3> QED
      BY <3>1, SkippedLess
  <2> DEFINE P == {i \in Nat : i + 1 <= n => Skipped(str, p, st[i + 1] + Len(ss[i + 1]), T)}
  <2>4. 0 \in P
    <3>1. 0 + 1 = 1 /\ 1 \in 1 .. n
      BY <1>3
    <3> QED
      BY <2>2, <2>3, <3>1
  <2>5. ASSUME NEW i \in Nat, i \in P PROVE i + 1 \in P
    <3> SUFFICES ASSUME i + 1 + 1 <= n PROVE Skipped(str, p, st[i + 1 + 1] + Len(ss[i + 1 + 1]), T)
      OBVIOUS
    <3>1. i + 1 <= n /\ i + 1 \in 1 .. n /\ i + 1 + 1 \in 1 .. n /\ i + 1 < n
      BY <2>5
    <3>2. Skipped(str, p, st[i + 1] + Len(ss[i + 1]), T)
      BY <2>5, <3>1
    <3>3. PICK q : q = st[i + 1] + Len(ss[i + 1])
      OBVIOUS
    <3>4. q \in Nat /\ str[q] = sep /\ st[i + 1 + 1] = q + 1
      BY <2>2, <3>1, <3>2, <3>3 DEF Skipped
    <3>5. Skipped(str, q, q + 1, T)
      BY <3>4, SkippedChar
    <3>6. Skipped(str, p, q + 1, T)
      BY <3>2, <3>3, <3>5, SkippedBoth
    <3>7. Skipped(str, q + 1, st[i + 1 + 1] + Len(ss[i + 1 + 1]), T)
      BY <2>3, <3>1, <3>4
    <3> HIDE DEF P
    <3> QED
      BY <3>6, <3>7, SkippedBoth
  <2>6. \A i \in Nat : i \in P
    <3> HIDE DEF P
    <3> QED
      BY <2>4, <2>5, SetInduction
  <2>7. n - 1 \in Nat /\ n - 1 + 1 = n /\ n <= n
    BY <1>3
  <2>8. n - 1 \in P
    BY <2>6, <2>7
  <2>9. Skipped(str, p, st[n] + Len(ss[n]), T)
    BY <2>7, <2>8
  <2> QED
    BY <2>2, <2>9
<1> QED
  BY <1>2, <1>3
GoodNodes(d) == {x \in Nodes(Trees[d]) : \A as \in Arguments : GoodFor(x, as)}
NodeTexts(t, sp) == [i \in DOMAIN t |-> SpellNode(t[i], sp)]
NodeMeanings(t, as, meaning) == [i \in DOMAIN t |-> NodeMeaning(t[i], as, meaning)]

LEMMA NoTree ==
  /\ Trees[0] = {<< >>} /\ Spell[0] = [t \in {<< >>} |-> << >>]
  /\ Meaning[0] = [as \in Arguments |-> [t \in {<< >>} |-> << >>]]
<1>1. 0 \in Nat
  OBVIOUS
<1>2. Trees[0] = {<< >>}
  BY <1>1, TreesAre, Zenon DEF TreesAt
<1>3. Spell[0] = [t \in {<< >>} |-> << >>]
  BY <1>1, SpellIs, Zenon DEF SpellAt
<1>4. Meaning[0] = [as \in Arguments |-> [t \in {<< >>} |-> << >>]]
  <2>1. Meaning[0] = MeaningAt(0, Meaning[0 - 1])
    BY <1>1, MeaningIs
  <2>2. MeaningAt(0, Meaning[0 - 1]) = [as \in Arguments |-> [t \in {<< >>} |-> << >>]]
    BY DEF MeaningAt
  <2> QED
    BY <2>1, <2>2
<1> QED
  BY <1>2, <1>3, <1>4

LEMMA TreeStep ==
  ASSUME NEW d \in Nat
  PROVE  /\ Trees[d + 1] = Seq(GoodNodes(d))
         /\ Spell[d + 1] = [t \in Trees[d + 1] |-> FlattenSeq(NodeTexts(t, Spell[d]))]
         /\ \A as \in Arguments : Meaning[d + 1][as]
              = [t \in Trees[d + 1] |-> FlattenSeq(NodeMeanings(t, as, Meaning[d][as]))]
<1>1. PICK n \in Nat : n = d + 1 /\ n # 0 /\ n - 1 = d
  OBVIOUS
<1>2. Trees[n] = Seq(GoodNodes(d))
  BY <1>1, TreesAre, Zenon DEF TreesAt, GoodNodes
<1>3. Spell[n] = [t \in Trees[n] |-> FlattenSeq(NodeTexts(t, Spell[d]))]
  BY <1>1, SpellIs, Zenon DEF SpellAt, NodeTexts
<1>4. Meaning[n] = MeaningAt(n, Meaning[d])
  BY <1>1, MeaningIs, Zenon
<1>5. ASSUME NEW as \in Arguments
      PROVE  MeaningAt(n, Meaning[d])[as]
               = [t \in Trees[n] |-> FlattenSeq(NodeMeanings(t, as, Meaning[d][as]))]
  BY <1>1, Zenon DEF MeaningAt, NodeMeanings
<1> QED
  BY <1>1, <1>2, <1>3, <1>4, <1>5, Zenon

LEMMA NodeTextsType ==
  ASSUME NEW trees, NEW sp, Spells(trees, sp), NEW t \in Seq(Nodes(trees))
  PROVE  /\ NodeTexts(t, sp) \in Seq(Seq(Chars)) /\ Len(NodeTexts(t, sp)) = Len(t)
         /\ \A i \in 1 .. Len(t) : t[i] \in Nodes(trees) /\ NodeTexts(t, sp)[i] = SpellNode(t[i], sp)
<1>1. PICK n \in Nat : n = Len(t) /\ DOMAIN t = 1 .. n
  BY LenProperties
<1>2. \A i \in 1 .. n : t[i] \in Nodes(trees)
  BY <1>1, ElementOfSeq
<1>3. \A i \in 1 .. n : SpellNode(t[i], sp) \in Seq(Chars)
  BY <1>2, SpellNodeType
<1>4. PICK ss : ss = [i \in 1 .. n |-> SpellNode(t[i], sp)]
  OBVIOUS
<1>5. ss \in Seq(Seq(Chars)) /\ Len(ss) = n
  <2>1. ss \in [1 .. n -> Seq(Chars)]
    BY <1>3, <1>4
  <2> QED
    BY <1>4, <2>1
<1>6. NodeTexts(t, sp) = ss
  BY <1>1, <1>4, Zenon DEF NodeTexts
<1> QED
  BY <1>1, <1>2, <1>4, <1>5, <1>6

LEMMA TreeNodes ==
  ASSUME NEW d
  PROVE  Seq(GoodNodes(d)) \subseteq Seq(Nodes(Trees[d]))
<1>1. GoodNodes(d) \subseteq Nodes(Trees[d])
  BY DEF GoodNodes
<1> QED
  BY <1>1, SeqOfMore

LEMMA SpellType ==
  \A d \in Nat : Spells(Trees[d], Spell[d])
<1> DEFINE P == {d \in Nat : Spells(Trees[d], Spell[d])}
<1>1. 0 \in P
  <2>1. \A u \in Trees[0] : Spell[0][u] = << >>
    BY NoTree
  <2>2. << >> \in Seq(Chars)
    BY EmptySeq
  <2> QED
    BY <2>1, <2>2 DEF Spells
<1>2. ASSUME NEW d \in Nat, d \in P PROVE d + 1 \in P
  <2>1. ASSUME NEW t \in Trees[d + 1] PROVE Spell[d + 1][t] \in Seq(Chars)
    <3>1. t \in Seq(Nodes(Trees[d])) /\ Spell[d + 1][t] = FlattenSeq(NodeTexts(t, Spell[d]))
      BY TreeStep, TreeNodes
    <3>2. NodeTexts(t, Spell[d]) \in Seq(Seq(Chars))
      BY <1>2, <3>1, NodeTextsType
    <3> QED
      BY <3>1, <3>2, FlattenType
  <2> QED
    BY <2>1 DEF Spells
<1>3. \A d \in Nat : d \in P
  <2> HIDE DEF P
  <2> QED
    BY <1>1, <1>2, SetInduction
<1> QED
  BY <1>3

PassedOver(str, s) == \A q : Stands(str, q, s) => Skipped(str, q, q + Len(s), Targets)

LEMMA FormSkipped ==
  ASSUME NEW str \in Seq(Chars), NEW trees, NEW sp, Spells(trees, sp),
         \A u \in trees : PassedOver(str, sp[u]),
         NEW option \in PluralForms(trees)
  PROVE  PassedOver(str, SpellForm(option, sp))
<1> SUFFICES ASSUME NEW p, Stands(str, p, SpellForm(option, sp))
             PROVE  Skipped(str, p, p + Len(SpellForm(option, sp)), Targets)
  BY DEF PassedOver
<1>1. PICK tt \in Seq(Seq(Chars)) : tt = SpelledTests(option) /\ Len(tt) = Len(option.tests)
  BY SpellFormType
<1>2. \A j \in 1 .. Len(tt) : option.tests[j] \in PluralTests /\ tt[j] = SpellTest(option.tests[j])
  BY <1>1, SpellFormType
<1>3. PICK a \in Seq(Chars), b \in Seq(Chars), c \in Seq(Chars) :
        a = Joined(tt, Comma) /\ b = <<":">> /\ c = sp[option.form] /\ Len(b) = 1
  <2>1. Joined(SpelledTests(option), Comma) \in Seq(Chars) /\ sp[option.form] \in Seq(Chars)
    BY SpellFormType
  <2>2. <<":">> \in Seq(Chars) /\ Len(<<":">>) = 1
    BY CharsAre, OneChar
  <2> QED
    BY <1>1, <2>1, <2>2, Zenon
<1>4. SpellForm(option, sp) = a \o b \o c
  BY <1>1, <1>3, SpellFormIs, Zenon
<1>5. a \o b \in Seq(Chars) /\ Len(a \o b) = Len(a) + 1 /\ Len(a) \in Nat
  BY <1>3, ConcatType
<1>6. Len(a \o b \o c) = Len(a \o b) + Len(c) /\ Len(c) \in Nat
  BY <1>5, ConcatType
<1>7. Stands(str, p, a \o b) /\ Stands(str, p + (Len(a) + 1), c)
  <2>1. PICK x \in Seq(Chars) : x = a \o b /\ Len(x) = Len(a) + 1
    BY <1>5
  <2>2. Stands(str, p, x \o c)
    BY <1>4, <2>1, Zenon
  <2>3. Stands(str, p, x) /\ Stands(str, p + Len(x), c)
    BY <2>2, StandsConcat
  <2> QED
    BY <2>1, <2>3, Zenon
<1>8. Stands(str, p, a) /\ Stands(str, p + Len(a), b)
  BY <1>7, StandsConcat
<1>9. p \in Nat
  BY <1>8 DEF Stands
<1>10. ASSUME NEW j \in 1 .. Len(tt), NEW q, Stands(str, q, tt[j])
       PROVE  Skipped(str, q, q + Len(tt[j]), Targets)
  BY <1>2, <1>10, TestSkipped
<1>11. Skipped(str, p, p + Len(a), Targets)
  <2>1. Comma \in Chars /\ Comma \notin Targets /\ Comma # "%" /\ Comma # CloseBrace
    BY PlainIs
  <2> QED
    BY <1>3, <1>8, <1>10, <2>1, JoinedSkipped
<1>12. Skipped(str, p + Len(a), p + Len(a) + 1, Targets)
  <2>1. b \in Seq(Plain)
    BY <1>3, PlainIs, OneChar
  <2> QED
    BY <1>3, <1>8, <2>1, PlainSkipped
<1>13. Skipped(str, p + (Len(a) + 1), p + (Len(a) + 1) + Len(c), Targets)
  <2>1. PassedOver(str, c)
    BY <1>3, SpellFormType
  <2> QED
    BY <1>7, <2>1 DEF PassedOver
<1>14. /\ p + Len(a) + 1 = p + (Len(a) + 1)
       /\ p + (Len(a) + 1) + Len(c) = p + Len(SpellForm(option, sp))
  BY <1>4, <1>5, <1>6, <1>9
<1>15. Skipped(str, p, p + (Len(a) + 1), Targets)
  BY <1>11, <1>12, <1>14, SkippedBoth
<1> QED
  BY <1>13, <1>14, <1>15, SkippedBoth

LEMMA BracedSkipped ==
  ASSUME NEW str \in Seq(Chars), NEW modifier \in Modifiers, NEW ss \in Seq(Seq(Chars)), NEW arg \in 0 .. 9,
         \A i \in 1 .. Len(ss) : PassedOver(str, ss[i])
  PROVE  PassedOver(str, Braced(modifier, Joined(ss, "|"), arg))
<1> SUFFICES ASSUME NEW p, Stands(str, p, Braced(modifier, Joined(ss, "|"), arg))
             PROVE  Skipped(str, p, p + Len(Braced(modifier, Joined(ss, "|"), arg)), Targets)
  BY DEF PassedOver
<1>1. PICK J \in Seq(Chars) : J = Joined(ss, "|")
  BY CharsAre, JoinedType
<1>2. PICK l \in Nat : l = Len(J)
  BY LenProperties
<1>3. Stands(str, p, Braced(modifier, J, arg))
  BY <1>1
<1>4. /\ str[p] = "%" /\ str[p + 1] = modifier /\ str[p + 2] = OpenBrace /\ Stands(str, p + 3, J)
      /\ str[p + 3 + l] = CloseBrace /\ str[p + 3 + l + 1] = DigitChars[arg + 1]
      /\ p \in Nat \ {0} /\ l \in Nat /\ p + (l + 5) <= Len(str) + 1
  <2>1. BracedAt(str, p, modifier, J, arg, l)
    BY <1>2, <1>3, BracedStands
  <2> QED
    BY <2>1 DEF BracedAt
<1>5. Skipped(str, p + 3, p + 3 + l, {})
  <2>1. "|" \in Chars /\ "|" # "%" /\ "|" # CloseBrace
    BY CharsAre, CharsDiffer
  <2>2. Stands(str, p + 3, Joined(ss, "|"))
    BY <1>1, <1>4
  <2>3. \A i \in 1 .. Len(ss) : \A q : Stands(str, q, ss[i]) => Skipped(str, q, q + Len(ss[i]), Targets)
    BY DEF PassedOver
  <2>4. Skipped(str, p + 3, p + 3 + Len(Joined(ss, "|")), {})
    BY <2>1, <2>2, <2>3, JoinedSkipped
  <2> QED
    BY <1>1, <1>2, <2>4
<1>6. ~isdigit(str[p + 1]) /\ ~ispunct(str[p + 1])
  BY <1>4, PunctuationIs
<1>7. Skipped(str, p, p + 3 + l + 1, Targets)
  <2>1. ModifierAt(str, p) /\ p \in Nat /\ str[p + 2] = OpenBrace /\ str[p + 3 + l] = CloseBrace
    BY <1>4, <1>6 DEF ModifierAt
  <2> QED
    BY <1>5, <2>1, SkippedBraces
<1>8. Skipped(str, p + 3 + l + 1, p + 3 + l + 1 + 1, Targets)
  <2>1. str[p + 3 + l + 1] \in Plain /\ p + 3 + l + 1 \in Nat
    <3>1. DigitChars[arg + 1] \in Plain
      BY NumeralOfDigit, PlainIs
    <3>2. p + 3 + l + 1 \in Nat
      BY <1>4
    <3> QED
      BY <1>4, <3>1, <3>2
  <2> QED
    BY <2>1, PlainIs, SkippedChar
<1>9. p + 3 + l + 1 + 1 = p + Len(Braced(modifier, Joined(ss, "|"), arg))
  <2>1. Len(Braced(modifier, J, arg)) = l + 5
    BY <1>2, BracedIs
  <2>2. p + 3 + l + 1 + 1 = p + (l + 5)
    BY <1>2, <1>4
  <2> QED
    BY <1>1, <2>1, <2>2
<1> QED
  BY <1>7, <1>8, <1>9, SkippedBoth
(* What stands where in the text of a node without options.                *)
SimpleAt(str, p, n, sp) ==
  /\ n.node = "text" => str[p] = n.word /\ Len(SpellNode(n, sp)) = 1
  /\ n.node = "escape" => str[p] = "%" /\ str[p + 1] = n.word /\ Len(SpellNode(n, sp)) = 2
  /\ n.node = "argument" => str[p] = "%" /\ str[p + 1] = DigitChars[n.arg + 1] /\ Len(SpellNode(n, sp)) = 2
  /\ n.node \in {"s", "ordinal"} =>
       str[p] = "%" /\ str[p + 1] = n.node /\ str[p + 2] = DigitChars[n.arg + 1] /\ Len(SpellNode(n, sp)) = 3

LEMMA SimpleStands ==
  ASSUME NEW str \in Seq(Chars), NEW trees, NEW sp, NEW n \in Nodes(trees), NEW p,
         Stands(str, p, SpellNode(n, sp))
  PROVE  SimpleAt(str, p, n, sp)
<1>0. PICK m \in Nat : m = Len(str)
  BY LenProperties
<1>1. n.node = "text" => str[p] = n.word /\ Len(SpellNode(n, sp)) = 1
  <2> SUFFICES ASSUME n.node = "text" PROVE str[p] = n.word /\ Len(SpellNode(n, sp)) = 1
    OBVIOUS
  <2>1. SpellNode(n, sp) = <<n.word>> /\ Len(<<n.word>>) = 1
    BY SpellNodeIs
  <2> QED
    BY <1>0, <2>1, StandsOne
<1>2. n.node = "escape" => str[p] = "%" /\ str[p + 1] = n.word /\ Len(SpellNode(n, sp)) = 2
  <2> SUFFICES ASSUME n.node = "escape"
               PROVE  str[p] = "%" /\ str[p + 1] = n.word /\ Len(SpellNode(n, sp)) = 2
    OBVIOUS
  <2>1. SpellNode(n, sp) = <<"%", n.word>> /\ Len(<<"%", n.word>>) = 2
    BY SpellNodeIs
  <2> QED
    BY <2>1, StandsTwo
<1>3. n.node \in {"argument", "s", "ordinal"} =>
        \E b \in Seq(Chars) : b = Numeral[n.arg] /\ b = <<DigitChars[n.arg + 1]>> /\ Len(b) = 1
  <2> SUFFICES ASSUME n.node \in {"argument", "s", "ordinal"}
               PROVE  \E b \in Seq(Chars) : b = Numeral[n.arg] /\ b = <<DigitChars[n.arg + 1]>> /\ Len(b) = 1
    OBVIOUS
  <2>1. n.arg \in 0 .. 9
    BY NodeCases
  <2>2. DigitChars[n.arg + 1] \in Chars /\ Numeral[n.arg] = <<DigitChars[n.arg + 1]>>
    BY <2>1, NumeralOfDigit, CharsAre
  <2> QED
    BY <2>2, OneChar
<1>4. n.node = "argument" => str[p] = "%" /\ str[p + 1] = DigitChars[n.arg + 1] /\ Len(SpellNode(n, sp)) = 2
  <2> SUFFICES ASSUME n.node = "argument"
               PROVE  str[p] = "%" /\ str[p + 1] = DigitChars[n.arg + 1] /\ Len(SpellNode(n, sp)) = 2
    OBVIOUS
  <2>1. PICK b \in Seq(Chars) : b = Numeral[n.arg] /\ b = <<DigitChars[n.arg + 1]>> /\ Len(b) = 1
    BY <1>3
  <2>2. PICK a \in Seq(Chars) : a = <<"%">> /\ Len(a) = 1
    BY CharsAre, OneChar
  <2>3. SpellNode(n, sp) = a \o b /\ Len(a \o b) = 2
    <3>1. SpellNode(n, sp) = a \o b
      BY <2>1, <2>2, SpellNodeIs
    <3>2. Len(a \o b) = Len(a) + Len(b)
      BY ConcatType
    <3> QED
      BY <2>1, <2>2, <3>1, <3>2
  <2>4. Stands(str, p, a) /\ Stands(str, p + 1, b)
    BY <2>2, <2>3, StandsConcat
  <2> QED
    BY <1>0, <2>1, <2>2, <2>3, <2>4, StandsOne
<1>5. n.node \in {"s", "ordinal"} =>
        str[p] = "%" /\ str[p + 1] = n.node /\ str[p + 2] = DigitChars[n.arg + 1] /\ Len(SpellNode(n, sp)) = 3
  <2> SUFFICES ASSUME n.node \in {"s", "ordinal"}
               PROVE  /\ str[p] = "%" /\ str[p + 1] = n.node /\ str[p + 2] = DigitChars[n.arg + 1]
                      /\ Len(SpellNode(n, sp)) = 3
    OBVIOUS
  <2>1. PICK b \in Seq(Chars) : b = Numeral[n.arg] /\ b = <<DigitChars[n.arg + 1]>> /\ Len(b) = 1
    BY <1>3
  <2>2. PICK a \in Seq(Chars) : a = <<"%", n.node>> /\ Len(a) = 2
    <3>1. n.node \in Modifiers
      BY DEF Modifiers
    <3>2. n.node \in Chars /\ "%" \in Chars
      BY <3>1, CharsAre
    <3> QED
      BY <3>2, TwoChars
  <2>3. SpellNode(n, sp) = a \o b /\ Len(a \o b) = 3
    <3>1. SpellNode(n, sp) = a \o b
      BY <2>1, <2>2, SpellNodeIs
    <3>2. Len(a \o b) = Len(a) + Len(b)
      BY ConcatType
    <3> QED
      BY <2>1, <2>2, <3>1, <3>2
  <2>4. Stands(str, p, a) /\ Stands(str, p + 2, b)
    <3>1. Stands(str, p, a \o b)
      BY <2>3, Zenon
    <3>2. Stands(str, p, a) /\ Stands(str, p + Len(a), b)
      BY <3>1, StandsConcat
    <3> QED
      BY <2>2, <3>2, Zenon
  <2>5. str[p] = "%" /\ str[p + 1] = n.node
    BY <2>2, <2>4, StandsTwo
  <2> QED
    BY <1>0, <2>1, <2>3, <2>4, <2>5, StandsOne
<1> QED
  BY <1>1, <1>2, <1>4, <1>5 DEF SimpleAt

LEMMA NodeSkipped ==
  ASSUME NEW str \in Seq(Chars), NEW trees, NEW sp, Spells(trees, sp),
         \A u \in trees : PassedOver(str, sp[u]), NEW n \in Nodes(trees)
  PROVE  PassedOver(str, SpellNode(n, sp))
<1>1. CASE n.node \in {"text", "escape", "argument", "s", "ordinal"}
  <2> SUFFICES ASSUME NEW p, Stands(str, p, SpellNode(n, sp))
               PROVE  Skipped(str, p, p + Len(SpellNode(n, sp)), Targets)
    BY DEF PassedOver
  <2>1. SimpleAt(str, p, n, sp) /\ p \in Nat
    BY SimpleStands DEF Stands
  <2>2. CASE n.node = "text"
    <3>1. str[p] \in Plain /\ Len(SpellNode(n, sp)) = 1
      BY <2>1, <2>2, NodeCases, PlainIs DEF SimpleAt
    <3> QED
      BY <2>1, <3>1, PlainIs, SkippedChar
  <2>3. CASE n.node = "escape"
    <3>1. n.word \in Punctuation
      BY <2>3, NodeCases
    <3>2. str[p] = "%" /\ ispunct(str[p + 1]) /\ Len(SpellNode(n, sp)) = 2
      BY <2>1, <2>3, <3>1, PunctuationIs DEF SimpleAt
    <3> QED
      BY <2>1, <3>2, SkippedTwo
  <2>4. CASE n.node = "argument"
    <3>1. n.arg \in 0 .. 9
      BY <2>4, NodeCases
    <3>2. isdigit(DigitChars[n.arg + 1])
      BY <3>1, DigitsAre
    <3>3. str[p] = "%" /\ isdigit(str[p + 1]) /\ Len(SpellNode(n, sp)) = 2
      BY <2>1, <2>4, <3>2 DEF SimpleAt
    <3> QED
      BY <2>1, <3>3, SkippedTwo
  <2>5. CASE n.node \in {"s", "ordinal"}
    <3>1. n.arg \in 0 .. 9
      BY <2>5, NodeCases
    <3>2. isdigit(DigitChars[n.arg + 1]) /\ n.node \in Modifiers
      BY <2>5, <3>1, DigitsAre DEF Modifiers
    <3>3. str[p] = "%" /\ str[p + 1] = n.node /\ isdigit(str[p + 2]) /\ Len(SpellNode(n, sp)) = 3
      BY <2>1, <2>5, <3>2 DEF SimpleAt
    <3>4. ~isdigit(str[p + 1]) /\ ~ispunct(str[p + 1])
      BY <3>2, <3>3, PunctuationIs
    <3>5. ModifierAt(str, p)
      BY <3>3, <3>4, Zenon DEF ModifierAt
    <3> QED
      BY <2>1, <3>3, <3>5, SkippedModifier
  <2> QED
    BY <1>1, <2>2, <2>3, <2>4, <2>5
<1>2. CASE n.node = "select"
  <2>1. n.arg \in 0 .. 9 /\ n.options \in Seq(trees)
    BY <1>2, NodeCases
  <2>2. PICK ss \in Seq(Seq(Chars)) : ss = SpelledOptions(n, sp) /\ Len(ss) = Len(n.options)
    BY <2>1, SpelledOptionsType
  <2>3. \A i \in 1 .. Len(ss) : ss[i] = sp[n.options[i]] /\ n.options[i] \in trees
    BY <2>1, <2>2, SpelledOptionsType
  <2>4. \A i \in 1 .. Len(ss) : PassedOver(str, ss[i])
    BY <2>3
  <2>5. "select" \in Modifiers
    BY DEF Modifiers
  <2>6. SpellNode(n, sp) = Braced("select", Joined(ss, "|"), n.arg)
    BY <1>2, <2>2, SpellNodeIs
  <2> QED
    BY <2>1, <2>4, <2>5, <2>6, BracedSkipped
<1>3. CASE n.node = "plural"
  <2>1. n.arg \in 0 .. 9 /\ n.options \in Seq(PluralForms(trees))
    BY <1>3, NodeCases
  <2>2. PICK ss \in Seq(Seq(Chars)) : ss = SpelledForms(n, sp) /\ Len(ss) = Len(n.options)
    BY <2>1, SpelledFormsType
  <2>3. \A i \in 1 .. Len(ss) :
          ss[i] = SpellForm(n.options[i], sp) /\ n.options[i] \in PluralForms(trees)
    BY <2>1, <2>2, SpelledFormsType
  <2>4. \A i \in 1 .. Len(ss) : PassedOver(str, ss[i])
    BY <2>3, FormSkipped
  <2>5. "plural" \in Modifiers
    BY DEF Modifiers
  <2>6. SpellNode(n, sp) = Braced("plural", Joined(ss, "|"), n.arg)
    BY <1>3, <2>2, SpellNodeIs
  <2> QED
    BY <2>1, <2>4, <2>5, <2>6, BracedSkipped
<1> QED
  BY <1>1, <1>2, <1>3, NodeCases

(* Pieces in a row.                                                        *)
LEMMA FlattenSkipped ==
  ASSUME NEW str \in Seq(Chars), NEW ss \in Seq(Seq(Chars)), \A i \in 1 .. Len(ss) : PassedOver(str, ss[i])
  PROVE  PassedOver(str, FlattenSeq(ss))
<1> SUFFICES ASSUME NEW p, Stands(str, p, FlattenSeq(ss))
             PROVE  Skipped(str, p, p + Len(FlattenSeq(ss)), Targets)
  BY DEF PassedOver
<1>1. PICK n \in Nat : n = Len(ss)
  BY LenProperties
<1>2. PICK st : Spots(st, str, p, ss)
  BY FlattenStands
<1>3. /\ st[1] = p /\ st[n + 1] = p + Len(FlattenSeq(ss))
      /\ \A i \in 1 .. n : Stands(str, st[i], ss[i]) /\ st[i + 1] = st[i] + Len(ss[i])
  BY <1>1, <1>2 DEF Spots
<1>4. \A i \in 1 .. n : Skipped(str, st[i], st[i + 1], Targets)
  BY <1>1, <1>3 DEF PassedOver
<1> DEFINE P == {i \in Nat : i <= n => Skipped(str, p, st[i + 1], Targets)}
<1>5. 0 \in P
  <2>1. 0 + 1 = 1 /\ p \in Nat
    BY DEF Stands
  <2> QED
    BY <1>3, <2>1, SkippedNone
<1>6. ASSUME NEW i \in Nat, i \in P PROVE i + 1 \in P
  <2> SUFFICES ASSUME i + 1 <= n PROVE Skipped(str, p, st[i + 1 + 1], Targets)
    OBVIOUS
  <2>1. i <= n /\ i + 1 \in 1 .. n
    OBVIOUS
  <2>2. Skipped(str, p, st[i + 1], Targets)
    BY <1>6, <2>1
  <2>3. Skipped(str, st[i + 1], st[i + 1 + 1], Targets)
    BY <1>4, <2>1
  <2> HIDE DEF P
  <2> QED
    BY <2>2, <2>3, SkippedBoth
<1>7. \A i \in Nat : i \in P
  <2> HIDE DEF P
  <2> QED
    BY <1>5, <1>6, SetInduction
<1>8. n \in P /\ n <= n
  BY <1>7
<1>9. Skipped(str, p, st[n + 1], Targets)
  BY <1>8
<1> QED
  BY <1>3, <1>9

LEMMA TreesSkipped ==
  ASSUME NEW str \in Seq(Chars)
  PROVE  \A d \in Nat : \A u \in Trees[d] : PassedOver(str, Spell[d][u])
<1> DEFINE P == {d \in Nat : \A u \in Trees[d] : PassedOver(str, Spell[d][u])}
<1>1. 0 \in P
  <2> SUFFICES ASSUME NEW u \in Trees[0] PROVE PassedOver(str, Spell[0][u])
    OBVIOUS
  <2>1. Spell[0][u] = << >>
    BY NoTree
  <2>2. << >> \in Seq(Plain)
    BY EmptySeq
  <2> QED
    BY <2>1, <2>2, PlainSkipped DEF PassedOver
<1>2. ASSUME NEW d \in Nat, d \in P PROVE d + 1 \in P
  <2> SUFFICES ASSUME NEW t \in Trees[d + 1] PROVE PassedOver(str, Spell[d + 1][t])
    OBVIOUS
  <2>0. \A u \in Trees[d] : PassedOver(str, Spell[d][u])
    BY <1>2
  <2>1. t \in Seq(Nodes(Trees[d])) /\ Spell[d + 1][t] = FlattenSeq(NodeTexts(t, Spell[d]))
    BY TreeStep, TreeNodes
  <2>2. Spells(Trees[d], Spell[d])
    BY SpellType
  <2>3. PICK ss \in Seq(Seq(Chars)) : ss = NodeTexts(t, Spell[d]) /\ Len(ss) = Len(t)
    BY <2>1, <2>2, NodeTextsType
  <2>4. \A i \in 1 .. Len(ss) : t[i] \in Nodes(Trees[d]) /\ ss[i] = SpellNode(t[i], Spell[d])
    BY <2>1, <2>2, <2>3, NodeTextsType
  <2>5. \A i \in 1 .. Len(ss) : PassedOver(str, ss[i])
    BY <2>0, <2>2, <2>4, NodeSkipped
  <2>6. PassedOver(str, FlattenSeq(ss))
    BY <2>5, FlattenSkipped
  <2> QED
    BY <2>1, <2>3, <2>6
<1>3. \A d \in Nat : d \in P
  <2> HIDE DEF P
  <2> QED
    BY <1>1, <1>2, SetInduction
<1> QED
  BY <1>3
-----------------------------------------------------------------------------
(* Numbers and tests of plural forms.                                      *)

LEMMA FindFirst ==
  ASSUME NEW str, NEW from \in Nat, NEW end \in Nat, NEW c, NEW i \in Nat, from <= i, i <= end,
         \A j \in from .. i - 1 : str[j] # c, i = end \/ str[i] = c
  PROVE  Find(str, from, end, c) = i
<1>1. PICK Q : Q = {j \in from .. end - 1 : str[j] = c}
  OBVIOUS
<1>2. Q \subseteq i .. end - 1
  <2> SUFFICES ASSUME NEW j \in Q PROVE j \in i .. end - 1
    OBVIOUS
  <2>1. j \in from .. end - 1 /\ str[j] = c
    BY <1>1
  <2>2. j \notin from .. i - 1
    BY <2>1
  <2> QED
    BY <2>1, <2>2
<1>3. i \in Q \/ i = end
  <2>1. CASE i # end
    <3>1. i \in from .. end - 1 /\ str[i] = c
      BY <2>1
    <3> QED
      BY <1>1, <3>1
  <2> QED
    BY <2>1
<1>4. Min({end} \union Q) = i
  BY <1>2, <1>3, MinFirst
<1> QED
  BY <1>1, <1>4, Zenon DEF Find

FoundAt(str, from, end, c, i) == Find(str, from, end, c) = i

LEMMA FindAt ==
  ASSUME NEW str, NEW from \in Nat, NEW end \in Nat, NEW c, NEW i \in Nat, from <= i, i <= end,
         \A j \in from .. i - 1 : str[j] # c, i = end \/ str[i] = c
  PROVE  FoundAt(str, from, end, c, i)
BY FindFirst, Zenon DEF FoundAt

NumberAt(str, p, n, e, end) == NumberEnd(str, p, end) = e /\ PluralNumber(str, p, end) = n

LEMMA NumberStands ==
  ASSUME NEW str \in Seq(Chars), NEW p, NEW n \in Nat, Stands(str, p, Numeral[n]), NEW end \in Nat,
         NEW e, e = p + Len(Numeral[n]), e <= end, e = end \/ ~isdigit(str[e])
  PROVE  NumberAt(str, p, n, e, end)
<1>1. PICK l \in Nat : l = Len(Numeral[n])
  BY NumeralChars
<1>2. p \in Nat /\ e \in Nat /\ e = p + l /\ Len(str) \in Nat
  BY <1>1, LenProperties DEF Stands
<1>3. PICK Q : Q = {i \in p .. end - 1 : ~isdigit(str[i])}
  OBVIOUS
<1>4. \A i \in p .. e - 1 : isdigit(str[i])
  <2> SUFFICES ASSUME NEW i \in p .. e - 1 PROVE isdigit(str[i])
    OBVIOUS
  <2>1. i - p + 1 \in 1 .. l /\ p + (i - p + 1) - 1 = i
    BY <1>2
  <2>2. PICK j \in 1 .. l : j = i - p + 1
    BY <2>1
  <2>3. str[p + j - 1] = Numeral[n][j] /\ p + j - 1 = i
    BY <1>1, <2>1, <2>2 DEF Stands
  <2>4. Numeral[n][j] \in Digits
    BY <1>1, NumeralChars, ElementOfSeq
  <2> QED
    BY <2>3, <2>4, DigitsAre
<1>5. Q \subseteq e .. end - 1
  <2> SUFFICES ASSUME NEW i \in Q PROVE i \in e .. end - 1
    OBVIOUS
  <2>1. i \in p .. end - 1 /\ ~isdigit(str[i])
    BY <1>3
  <2>2. i \notin p .. e - 1
    BY <1>4, <2>1
  <2> QED
    BY <1>2, <2>1, <2>2
<1>6. e \in Q \/ e = end
  <2>1. CASE e # end
    <3>1. e \in p .. end - 1 /\ ~isdigit(str[e])
      BY <1>2, <2>1
    <3> QED
      BY <1>3, <3>1
  <2> QED
    BY <2>1
<1>7. Min({end} \union Q) = e
  BY <1>2, <1>5, <1>6, MinFirst
<1>8. NumberEnd(str, p, end) = e
  BY <1>3, <1>7, Zenon DEF NumberEnd
<1>9. PICK f : IsVal(f, str, p) /\ PluralNumber(str, p, end) = f[NumberEnd(str, p, end) - p]
  BY PluralNumberIs
<1>10. e - p = l
  BY <1>2
<1>11. f[l] = n
  BY <1>1, <1>2, <1>9, NumeralValue
<1> QED
  BY <1>8, <1>9, <1>10, <1>11 DEF NumberAt

RangeAt(val, str, p, t, e, end) ==
  /\ TestPluralRange(val, str, p, end) <=> t.low <= val /\ val <= t.high
  /\ RangeEnd(str, p, end) = e
  /\ str[p] # "%" /\ str[p] # ":" /\ p \in Nat
  /\ \A i \in p .. e - 1 : str[i] # ":"

LEMMA NotColon ==
  ASSUME NEW str, NEW p, NEW s, Stands(str, p, s), NEW l \in Nat, l = Len(s),
         \A i \in 1 .. l : s[i] # ":"
  PROVE  \A i \in p .. p + l - 1 : str[i] # ":"
<1> SUFFICES ASSUME NEW i \in p .. p + l - 1 PROVE str[i] # ":"
  OBVIOUS
<1>0. p \in Nat
  BY DEF Stands
<1>1. i - p + 1 \in 1 .. l /\ p + (i - p + 1) - 1 = i
  BY <1>0
<1>2. PICK j \in 1 .. l : j = i - p + 1 /\ p + j - 1 = i
  BY <1>1
<1>3. str[p + j - 1] = s[j]
  BY <1>2 DEF Stands
<1> QED
  BY <1>2, <1>3

LEMMA DigitsNotColon ==
  \A c \in Digits : c # ":" /\ c # "[" /\ c # "%" /\ c # Comma
BY Zenon DEF Digits, Comma

LEMMA RangeStands ==
  ASSUME NEW str \in Seq(Chars), NEW p, NEW t \in PluralTests, Stands(str, p, SpelledRange(t)),
         NEW end \in Nat, NEW e, e = p + Len(SpelledRange(t)), e <= end, e = end \/ ~isdigit(str[e]),
         NEW val \in Nat
  PROVE  RangeAt(val, str, p, t, e, end)
<1>0. t.low \in Nat /\ t.high \in Nat /\ p \in Nat
  BY SpellTestType DEF Stands
<1>1. CASE t.low = t.high
  <2>1. SpelledRange(t) = Numeral[t.low]
    BY <1>1 DEF SpelledRange
  <2>2. Stands(str, p, Numeral[t.low]) /\ e = p + Len(Numeral[t.low])
    BY <2>1
  <2>3. NumberEnd(str, p, end) = e /\ PluralNumber(str, p, end) = t.low
    <3>1. NumberAt(str, p, t.low, e, end)
      BY <1>0, <2>2, NumberStands
    <3> QED
      BY <3>1 DEF NumberAt
  <2>4. PICK l \in Nat \ {0} : l = Len(Numeral[t.low])
    BY <1>0, NumeralChars
  <2>5. \A i \in 1 .. l : Numeral[t.low][i] \in Digits
    BY <1>0, <2>4, NumeralChars, ElementOfSeq
  <2>6. str[p] = Numeral[t.low][1]
    <3>1. 1 \in 1 .. l /\ p + 1 - 1 = p
      BY <1>0
    <3> QED
      BY <2>2, <2>4, <3>1 DEF Stands
  <2>7. str[p] # "%" /\ str[p] # ":" /\ str[p] # "["
    <3>1. 1 \in 1 .. l
      OBVIOUS
    <3> QED
      BY <2>5, <2>6, <3>1, DigitsNotColon
  <2>8. \A i \in p .. e - 1 : str[i] # ":"
    <3>1. \A i \in 1 .. l : Numeral[t.low][i] # ":"
      BY <2>5, DigitsNotColon
    <3>2. \A i \in p .. p + l - 1 : str[i] # ":"
      BY <2>2, <2>4, <3>1, NotColon
    <3>3. e = p + l
      BY <2>2, <2>4
    <3> SUFFICES ASSUME NEW i \in p .. e - 1 PROVE str[i] # ":"
      OBVIOUS
    <3>4. i \in p .. p + l - 1
      BY <1>0, <3>3
    <3> QED
      BY <3>2, <3>4
  <2>9. TestPluralRange(val, str, p, end) <=> t.low = val
    BY <2>3, <2>7 DEF TestPluralRange
  <2>10. t.low = val <=> t.low <= val /\ val <= t.high
    BY <1>0, <1>1
  <2>11. RangeEnd(str, p, end) = e
    BY <2>3, <2>7 DEF RangeEnd
  <2> QED
    BY <1>0, <2>7, <2>8, <2>9, <2>10, <2>11 DEF RangeAt
<1>2. CASE t.low # t.high
  <2>1. PICK a \in Seq(Chars), b \in Seq(Chars), c \in Seq(Chars), d \in Seq(Chars), f \in Seq(Chars) :
          /\ a = <<"[">> /\ b = Numeral[t.low] /\ c = <<Comma>> /\ d = Numeral[t.high] /\ f = <<"]">>
          /\ Len(a) = 1 /\ Len(c) = 1 /\ Len(f) = 1 /\ b \in Seq(Digits) /\ d \in Seq(Digits)
    BY <1>0, CharsAre, OneChar, NumeralChars
  <2>2. PICK l \in Nat, h \in Nat : l = Len(b) /\ h = Len(d)
    BY LenProperties
  <2>3. PICK ab \in Seq(Chars) : ab = a \o b /\ Len(ab) = 1 + l
    <3>1. a \o b \in Seq(Chars) /\ Len(a \o b) = Len(a) + Len(b)
      BY ConcatType
    <3> QED
      BY <2>1, <2>2, <3>1
  <2>4. PICK abc \in Seq(Chars) : abc = ab \o c /\ Len(abc) = 1 + l + 1
    <3>1. ab \o c \in Seq(Chars) /\ Len(ab \o c) = Len(ab) + Len(c)
      BY ConcatType
    <3> QED
      BY <2>1, <2>3, <3>1
  <2>5. PICK abcd \in Seq(Chars) : abcd = abc \o d /\ Len(abcd) = 1 + l + 1 + h
    <3>1. abc \o d \in Seq(Chars) /\ Len(abc \o d) = Len(abc) + Len(d)
      BY ConcatType
    <3> QED
      BY <2>2, <2>4, <3>1
  <2>6. Len(abcd \o f) = 1 + l + 1 + h + 1
    <3>1. Len(abcd \o f) = Len(abcd) + Len(f)
      BY ConcatType
    <3> QED
      BY <2>1, <2>5, <3>1
  <2>7. SpelledRange(t) = abcd \o f
    <3>1. SpelledRange(t) = a \o b \o c \o d \o f
      BY <1>2, <2>1, Zenon DEF SpelledRange
    <3> QED
      BY <2>3, <2>4, <2>5, <3>1, Zenon
  <2>8. Stands(str, p, abcd) /\ Stands(str, p + (1 + l + 1 + h), f)
    <3>1. Stands(str, p, abcd \o f)
      BY <2>7, Zenon
    <3>2. Stands(str, p, abcd) /\ Stands(str, p + Len(abcd), f)
      BY <3>1, StandsConcat
    <3> QED
      BY <2>5, <3>2, Zenon
  <2>9. Stands(str, p, abc) /\ Stands(str, p + (1 + l + 1), d)
    BY <2>4, <2>5, <2>8, StandsConcat
  <2>10. Stands(str, p, ab) /\ Stands(str, p + (1 + l), c)
    BY <2>3, <2>4, <2>9, StandsConcat
  <2>11. Stands(str, p, a) /\ Stands(str, p + 1, b)
    BY <2>1, <2>3, <2>10, StandsConcat
  <2>12. PICK m \in Nat : m = Len(str)
    BY LenProperties
  <2>13. str[p] = "[" /\ str[p + (1 + l)] = Comma /\ str[p + (1 + l + 1 + h)] = "]"
    <3>1. Stands(str, p, <<"[">>) /\ Stands(str, p + (1 + l), <<Comma>>) /\ Stands(str, p + (1 + l + 1 + h), <<"]">>)
      BY <2>1, <2>8, <2>10, <2>11, Zenon
    <3>2. Len(str) \in Nat
      BY <2>12, Zenon
    <3> QED
      BY <3>1, <3>2, StandsOne, Zenon
  <2>14. e = p + (1 + l + 1 + h + 1) /\ p + 1 + l \in Nat /\ p + 1 + l <= end /\ p + 1 + l = p + (1 + l)
    <3>1. e = p + (1 + l + 1 + h + 1)
      BY <2>6, <2>7
    <3>2. 1 + l + 1 + h + 1 = (1 + l) + (1 + h + 1)
      OBVIOUS
    <3>3. p + 1 + l \in Nat /\ p + 1 + l = p + (1 + l)
      BY <1>0
    <3>4. p + 1 + l <= end
      <4>1. \A x \in Nat, y \in Nat, z \in Nat : x + (1 + y + 1 + z + 1) <= end => x + 1 + y <= end
        OBVIOUS
      <4> QED
        BY <1>0, <3>1, <4>1
    <3> QED
      BY <3>1, <3>3, <3>4
  <2>15. ~isdigit(Comma) /\ ~isdigit("]")
    <3>1. "]" \notin Digits /\ Comma \notin Digits
      BY Zenon DEF Digits, Comma
    <3> QED
      BY <3>1, DigitsAre
  <2>16. NumberEnd(str, p + 1, end) = p + 1 + l /\ PluralNumber(str, p + 1, end) = t.low
    <3>1. PICK q \in Nat, x \in Nat : q = p + 1 /\ x = p + 1 + l
      BY <1>0, <2>14
    <3>2. Stands(str, q, Numeral[t.low]) /\ x = q + Len(Numeral[t.low]) /\ x <= end /\ ~isdigit(str[x])
      BY <2>1, <2>2, <2>11, <2>13, <2>14, <2>15, <3>1
    <3>3. NumberAt(str, q, t.low, x, end)
      BY <1>0, <3>2, NumberStands
    <3> QED
      BY <3>1, <3>3 DEF NumberAt
  <2>17. NumberEnd(str, p + 1 + l + 1, end) = p + 1 + l + 1 + h /\ PluralNumber(str, p + 1 + l + 1, end) = t.high
    <3>1. PICK q \in Nat, x \in Nat : q = p + 1 + l + 1 /\ x = p + 1 + l + 1 + h
      BY <1>0, <2>14
    <3>2. q = p + (1 + l + 1) /\ x = p + (1 + l + 1 + h) /\ x <= end
      BY <1>0, <2>14, <3>1
    <3>3. Stands(str, q, Numeral[t.high]) /\ x = q + Len(Numeral[t.high]) /\ x <= end /\ ~isdigit(str[x])
      BY <2>1, <2>2, <2>9, <2>13, <2>15, <3>1, <3>2
    <3>4. NumberAt(str, q, t.high, x, end)
      BY <1>0, <3>3, NumberStands
    <3> QED
      BY <3>1, <3>4 DEF NumberAt
  <2>18. p + 1 + l + 1 + h + 1 = e
    <3>1. p + 1 + l + 1 + h + 1 = p + (1 + l + 1 + h + 1)
      BY <1>0
    <3> QED
      BY <2>14, <3>1, Zenon
  <2>19. TestPluralRange(val, str, p, end) <=> t.low <= val /\ val <= t.high
    BY <2>13, <2>16, <2>17 DEF TestPluralRange
  <2>20. RangeEnd(str, p, end) = e
    BY <2>13, <2>16, <2>17, <2>18 DEF RangeEnd
  <2>21. \A i \in p .. e - 1 : str[i] # ":"
    <3>1. \A i \in 1 .. l : b[i] # ":"
      BY <2>1, <2>2, ElementOfSeq, DigitsNotColon
    <3>2. \A i \in 1 .. h : d[i] # ":"
      BY <2>1, <2>2, ElementOfSeq, DigitsNotColon
    <3>3. \A i \in p + 1 .. p + 1 + l - 1 : str[i] # ":"
      BY <2>2, <2>11, <3>1, NotColon
    <3>4. \A i \in p + (1 + l + 1) .. p + (1 + l + 1) + h - 1 : str[i] # ":"
      BY <2>2, <2>9, <3>2, NotColon
    <3>5. Comma # ":"
      BY DEF Comma
    <3> SUFFICES ASSUME NEW i \in p .. e - 1 PROVE str[i] # ":"
      OBVIOUS
    <3>6. \/ i = p \/ i \in p + 1 .. p + 1 + l - 1 \/ i = p + (1 + l)
          \/ i \in p + (1 + l + 1) .. p + (1 + l + 1) + h - 1 \/ i = p + (1 + l + 1 + h)
      BY <1>0, <2>14
    <3> QED
      BY <2>13, <3>3, <3>4, <3>5, <3>6
  <2>22. str[p] # "%" /\ str[p] # ":"
    BY <2>13
  <2> QED
    BY <1>0, <2>19, <2>20, <2>21, <2>22 DEF RangeAt
<1> QED
  BY <1>1, <1>2
TestAt(val, str, p, t, e, end) ==
  /\ Condition(val, str, p, end) <=> Passes(t, val)
  /\ RangeEnd(str, AfterModulus(str, p, end), end) = e
  /\ str[p] # ":"
  /\ \A i \in p .. e - 1 : str[i] # ":"

LEMMA PassesIs ==
  ASSUME NEW t, NEW val
  PROVE  Passes(t, val) <=> t.low <= (IF t.mod = 0 THEN val ELSE val % t.mod)
                            /\ (IF t.mod = 0 THEN val ELSE val % t.mod) <= t.high
BY DEF Passes

LEMMA TestStands ==
  ASSUME NEW str \in Seq(Chars), NEW p, NEW t \in PluralTests, Stands(str, p, SpellTest(t)),
         NEW end \in Nat, NEW e, e = p + Len(SpellTest(t)), e <= end, e = end \/ ~isdigit(str[e]),
         NEW val \in Nat
  PROVE  TestAt(val, str, p, t, e, end)
<1>0. t.mod \in Nat /\ p \in Nat
  BY SpellTestType DEF Stands
<1>1. PICK a \in Seq(Chars), r \in Seq(Chars) : a = SpelledModulus(t) /\ r = SpelledRange(t)
  BY SpellTestType
<1>2. SpellTest(t) = a \o r
  BY <1>1, SpellTestType
<1>3. PICK k \in Nat, l \in Nat : k = Len(a) /\ l = Len(r) /\ Len(a \o r) = k + l
  BY ConcatType
<1>4. Stands(str, p, a) /\ Stands(str, p + k, SpelledRange(t))
  <2>1. Stands(str, p, a \o r)
    BY <1>2
  <2>2. Stands(str, p, a) /\ Stands(str, p + Len(a), r)
    BY <2>1, StandsConcat
  <2> QED
    BY <1>1, <1>3, <2>2
<1>5. e = p + k + l /\ p + k \in Nat /\ e \in Nat
  <2>1. e = p + (k + l)
    BY <1>2, <1>3
  <2> QED
    BY <1>0, <2>1
<1>6. ASSUME NEW v \in Nat PROVE RangeAt(v, str, p + k, t, e, end)
  <2>1. PICK q : q = p + k
    OBVIOUS
  <2>2. Stands(str, q, SpelledRange(t)) /\ e = q + Len(SpelledRange(t))
    BY <1>1, <1>3, <1>4, <1>5, <2>1
  <2>3. RangeAt(v, str, q, t, e, end)
    BY <2>2, RangeStands
  <2> QED
    BY <2>1, <2>3
<1>7. CASE t.mod = 0
  <2>1. k = 0 /\ p + k = p
    <3>1. Len(<< >>) = 0
      OBVIOUS
    <3>2. k = 0
      BY <1>1, <1>3, <1>7, <3>1 DEF SpelledModulus
    <3> QED
      BY <1>0, <3>2
  <2>2. RangeAt(val, str, p, t, e, end)
    BY <1>6, <2>1
  <2>3. AfterModulus(str, p, end) = p
    BY <2>2 DEF RangeAt, AfterModulus
  <2>4. Condition(val, str, p, end) <=> t.low <= val /\ val <= t.high
    BY <2>2, <2>3 DEF RangeAt, Condition
  <2>5. Condition(val, str, p, end) <=> Passes(t, val)
    BY <1>7, <2>4, PassesIs
  <2> QED
    BY <2>2, <2>3, <2>5 DEF RangeAt, TestAt
<1>8. CASE t.mod # 0
  <2>1. PICK b \in Seq(Chars), c \in Seq(Chars), d \in Seq(Chars) :
          /\ b = <<"%">> /\ c = Numeral[t.mod] /\ d = <<"=">>
          /\ Len(b) = 1 /\ Len(d) = 1 /\ c \in Seq(Digits)
    BY <1>0, CharsAre, OneChar, NumeralChars
  <2>2. PICK m \in Nat : m = Len(c)
    BY LenProperties
  <2>3. a = b \o c \o d
    BY <1>1, <1>8, <2>1, Zenon DEF SpelledModulus
  <2>4. b \o c \in Seq(Chars) /\ Len(b \o c) = 1 + m
    BY <2>1, <2>2, ConcatType
  <2>5. k = 1 + m + 1
    <3>1. PICK x \in Seq(Chars) : x = b \o c /\ Len(x) = 1 + m
      BY <2>4
    <3>2. Len(x \o d) = Len(x) + Len(d)
      BY ConcatType
    <3> QED
      BY <1>3, <2>1, <2>3, <3>1, <3>2
  <2>6. Stands(str, p, b \o c) /\ Stands(str, p + (1 + m), d)
    BY <1>4, <2>3, <2>4, StandsConcat
  <2>7. Stands(str, p, b) /\ Stands(str, p + 1, c)
    BY <2>1, <2>6, StandsConcat
  <2>8. PICK n \in Nat : n = Len(str)
    BY LenProperties
  <2>9. str[p] = "%" /\ str[p + (1 + m)] = "="
    BY <2>1, <2>6, <2>7, <2>8, StandsOne
  <2>10. PICK q \in Nat, x \in Nat : q = p + 1 /\ x = p + (1 + m)
    BY <1>0
  <2>11. x = q + Len(Numeral[t.mod]) /\ x <= end /\ x + 1 = p + k
    <3>1. x = q + m /\ x + 1 = p + k
      BY <1>0, <2>5, <2>10
    <3>2. p + k + l <= end
      BY <1>5
    <3> QED
      BY <2>1, <2>2, <3>1, <3>2
  <2>12. ~isdigit(str[x])
    <3>1. "=" \notin Digits
      BY DEF Digits
    <3> QED
      BY <2>9, <2>10, <3>1, DigitsAre
  <2>13. NumberAt(str, q, t.mod, x, end)
    <3>1. Stands(str, q, Numeral[t.mod])
      BY <2>1, <2>7, <2>10
    <3> QED
      BY <1>0, <2>11, <2>12, <3>1, NumberStands
  <2>14. NumberEnd(str, p + 1, end) = x /\ PluralNumber(str, p + 1, end) = t.mod
    BY <2>10, <2>13 DEF NumberAt
  <2>15. AfterModulus(str, p, end) = p + k
    BY <2>9, <2>11, <2>14 DEF AfterModulus
  <2>16. val % t.mod \in Nat
    BY <1>0, <1>8
  <2>17. RangeAt(val % t.mod, str, p + k, t, e, end)
    BY <1>6, <2>16
  <2>18. Condition(val, str, p, end) <=> t.low <= val % t.mod /\ val % t.mod <= t.high
    <3>1. Condition(val, str, p, end) <=> TestPluralRange(val % t.mod, str, p + k, end)
      BY <2>9, <2>14, <2>15 DEF Condition
    <3>2. TestPluralRange(val % t.mod, str, p + k, end) <=> t.low <= val % t.mod /\ val % t.mod <= t.high
      BY <2>17 DEF RangeAt
    <3> QED
      BY <3>1, <3>2
  <2>19. Condition(val, str, p, end) <=> Passes(t, val)
    BY <1>8, <2>18, PassesIs
  <2>20. RangeEnd(str, AfterModulus(str, p, end), end) = e
    BY <2>15, <2>17 DEF RangeAt
  <2>21. \A i \in p .. e - 1 : str[i] # ":"
    <3>1. \A i \in 1 .. m : c[i] # ":"
      BY <2>1, <2>2, ElementOfSeq, DigitsNotColon
    <3>2. \A i \in p + 1 .. p + 1 + m - 1 : str[i] # ":"
      BY <2>2, <2>7, <3>1, NotColon
    <3>3. \A i \in p + k .. e - 1 : str[i] # ":"
      BY <2>17 DEF RangeAt
    <3> SUFFICES ASSUME NEW i \in p .. e - 1 PROVE str[i] # ":"
      OBVIOUS
    <3>4. i = p \/ i \in p + 1 .. p + 1 + m - 1 \/ i = p + (1 + m) \/ i \in p + k .. e - 1
      BY <1>0, <1>5, <2>5
    <3> QED
      BY <2>9, <3>2, <3>3, <3>4
  <2> QED
    BY <2>9, <2>19, <2>20, <2>21 DEF TestAt
<1> QED
  BY <1>7, <1>8
-----------------------------------------------------------------------------
(* Pieces with separators: each ends before the next begins.               *)

JointsOrdered(st, p, ss, e) ==
  \A i \in 1 .. Len(ss) :
    /\ st[i] \in Nat /\ Len(ss[i]) \in Nat /\ p + i - 1 <= st[i] /\ st[i] + Len(ss[i]) <= e
    /\ i < Len(ss) => st[i] + Len(ss[i]) < e

LEMMA JointsInOrder ==
  ASSUME NEW S, NEW str \in Seq(S), NEW p, NEW ss \in Seq(Seq(S)), NEW sep, NEW st,
         Joints(st, str, p, ss, sep), NEW e, e = st[Len(ss)] + Len(ss[Len(ss)]), NEW n \in Nat, n = Len(ss)
  PROVE  JointsOrdered(st, p, ss, e)
<1>1. PICK l : l = [i \in 1 .. n |-> Len(ss[i])]
  OBVIOUS
<1>2. \A i \in 1 .. n : l[i] = Len(ss[i]) /\ l[i] \in Nat
  <2> SUFFICES ASSUME NEW i \in 1 .. n PROVE Len(ss[i]) \in Nat
    BY <1>1
  <2>1. ss[i] \in Seq(S)
    BY ElementOfSeq
  <2> QED
    BY <2>1, LenProperties
<1>3. /\ \A i \in 1 .. n : st[i] \in Nat
      /\ st[1] = p /\ (n # 0 => e = st[n] + l[n])
      /\ \A i \in 1 .. n : i < n => st[i + 1] = st[i] + l[i] + 1
  <2>1. \A i \in 1 .. n : Stands(str, st[i], ss[i]) /\ (i < n => st[i + 1] = st[i] + Len(ss[i]) + 1)
    BY DEF Joints
  <2>2. \A i \in 1 .. n : st[i] \in Nat
    BY <2>1, Zenon DEF Stands
  <2>3. st[1] = p
    BY Zenon DEF Joints
  <2>4. n # 0 => n \in 1 .. n
    OBVIOUS
  <2>5. n # 0 => e = st[n] + l[n]
    BY <1>2, <2>4, Zenon
  <2>6. \A i \in 1 .. n : i < n => st[i + 1] = st[i] + l[i] + 1
    BY <1>2, <2>1, Zenon
  <2> QED
    BY <2>2, <2>3, <2>5, <2>6, Zenon
<1>4. n # 0 => p \in Nat /\ e = st[n] + l[n]
  <2>1. n # 0 => 1 \in 1 .. n /\ n \in 1 .. n
    OBVIOUS
  <2> QED
    BY <1>2, <1>3, <2>1 DEF Joints
<1> DEFINE P == {i \in Nat : i + 1 <= n => p + i <= st[i + 1]}
           Q == {k \in Nat : \A i \in 1 .. n : i + k = n => st[i] + l[i] <= e /\ (k # 0 => st[i] + l[i] < e)}
<1>5. 0 \in P
  <2> SUFFICES ASSUME 0 + 1 <= n PROVE p + 0 <= st[0 + 1]
    OBVIOUS
  <2>1. st[1] = p /\ p \in Nat
    BY <1>4 DEF Joints
  <2> QED
    BY <2>1
<1>6. ASSUME NEW i \in Nat, i \in P PROVE i + 1 \in P
  <2> SUFFICES ASSUME i + 1 + 1 <= n PROVE p + (i + 1) <= st[i + 1 + 1]
    OBVIOUS
  <2>1. i + 1 \in 1 .. n /\ i + 1 < n /\ i + 1 <= n /\ n # 0
    OBVIOUS
  <2>2. p + i <= st[i + 1]
    BY <1>6, <2>1
  <2>3. PICK a \in Nat, b \in Nat, c \in Nat : a = st[i + 1] /\ b = l[i + 1] /\ c = p
    BY <1>2, <1>3, <1>4, <2>1
  <2>4. st[i + 1 + 1] = a + b + 1
    BY <1>3, <2>1, <2>3
  <2>5. c + (i + 1) <= a + b + 1
    BY <2>2, <2>3
  <2> QED
    BY <2>3, <2>4, <2>5
<1>7. 0 \in Q
  <2> SUFFICES ASSUME NEW i \in 1 .. n, i + 0 = n PROVE st[i] + l[i] <= e
    OBVIOUS
  <2>1. i = n
    OBVIOUS
  <2>2. PICK a \in Nat : a = st[i] + l[i]
    BY <1>2, <1>3
  <2> QED
    BY <1>4, <2>1, <2>2
<1>8. ASSUME NEW k \in Nat, k \in Q PROVE k + 1 \in Q
  <2> SUFFICES ASSUME NEW i \in 1 .. n, i + (k + 1) = n PROVE st[i] + l[i] < e
    <3>1. \A a \in Nat : a < e /\ e \in Nat => a <= e
      OBVIOUS
    <3>2. \A i \in 1 .. n : n # 0 /\ n \in 1 .. n
      OBVIOUS
    <3>3. \A i \in 1 .. n : e \in Nat
      BY <1>2, <1>3, <1>4, <3>2
    <3>4. \A i \in 1 .. n : st[i] + l[i] \in Nat
      BY <1>2, <1>3
    <3> QED
      BY <3>1, <3>3, <3>4
  <2>1. i + 1 \in 1 .. n /\ i + 1 + k = n /\ i < n
    OBVIOUS
  <2>2. st[i + 1] + l[i + 1] <= e
    BY <1>8, <2>1
  <2>3. PICK a \in Nat, b \in Nat, c \in Nat : a = st[i] /\ b = l[i] /\ c = l[i + 1]
    BY <1>2, <1>3, <2>1
  <2>4. st[i + 1] = a + b + 1
    BY <1>3, <2>1, <2>3
  <2>5. a + b + 1 + c <= e
    BY <2>2, <2>3, <2>4
  <2>6. e \in Nat
    <3>1. n # 0 /\ n \in 1 .. n
      BY <2>1
    <3> QED
      BY <1>2, <1>3, <1>4, <3>1
  <2>7. a + b < e
    BY <2>5, <2>6
  <2> QED
    BY <2>3, <2>7
<1>9. \A i \in Nat : i \in P
  <2> HIDE DEF P
  <2> QED
    BY <1>5, <1>6, SetInduction
<1>10. \A k \in Nat : k \in Q
  <2> HIDE DEF Q
  <2> QED
    BY <1>7, <1>8, SetInduction
<1>11. ASSUME NEW i \in 1 .. n
       PROVE  /\ st[i] \in Nat /\ l[i] \in Nat /\ p + i - 1 <= st[i] /\ st[i] + l[i] <= e
              /\ i < n => st[i] + l[i] < e
  <2>1. i - 1 \in Nat /\ i - 1 + 1 = i /\ i <= n /\ n - i \in Nat /\ i + (n - i) = n /\ n # 0
    OBVIOUS
  <2>2. i - 1 \in P /\ n - i \in Q
    BY <1>9, <1>10, <2>1
  <2>3. p + (i - 1) <= st[i]
    BY <2>1, <2>2
  <2>4. st[i] + l[i] <= e /\ (n - i # 0 => st[i] + l[i] < e)
    BY <2>1, <2>2
  <2>5. p + (i - 1) = p + i - 1 /\ (i < n => n - i # 0)
    BY <1>4, <2>1
  <2> QED
    BY <1>2, <1>3, <2>3, <2>4, <2>5
<1> QED
  BY <1>2, <1>11 DEF JointsOrdered
NextTest(str, end) ==
  [i \in 1 .. end + 1 |-> Find(str, RangeEnd(str, AfterModulus(str, i, end), end), end, ",") + 1]

LEMMA EvalIs ==
  ASSUME NEW val, NEW str, NEW from, NEW end
  PROVE  EvalPluralExpr(val, str, from, end) <=>
           \/ str[from] = ":"
           \/ \E n \in 0 .. end - from : /\ Repeated(NextTest(str, end), from, n) <= end
                                         /\ Condition(val, str, Repeated(NextTest(str, end), from, n), end)
BY Zenon DEF EvalPluralExpr, NextTest

LEMMA MinNone ==
  ASSUME NEW end \in Nat
  PROVE  Min({end} \union {}) = end
<1>1. PICK Q : Q = {}
  OBVIOUS
<1>2. \A j \in Q : j \in Int /\ end <= j
  BY <1>1
<1>3. Min({end} \union Q) = end
  <2>1. PICK S : S = {end} \union Q
    OBVIOUS
  <2>2. S = {end}
    BY <1>1, <2>1
  <2>3. \A x \in S : end <= x
    BY <2>2
  <2>4. \A x \in S : (\A y \in S : x <= y) => x = end
    BY <2>2
  <2>5. Min(S) = end
    BY <2>2, <2>3, <2>4, Zenon DEF Min
  <2> QED
    BY <2>1, <2>5
<1> QED
  BY <1>1, <1>3

(* Nothing is behind the end.                                              *)
LEMMA NumberBehind ==
  ASSUME NEW str, NEW end \in Nat, NEW p \in Nat, p >= end
  PROVE  NumberEnd(str, p, end) = end
<1>1. {i \in p .. end - 1 : ~isdigit(str[i])} = {}
  OBVIOUS
<1>2. Min({end} \union {}) = end
  BY MinNone
<1> QED
  BY <1>1, <1>2, Zenon DEF NumberEnd

LEMMA FindBehind ==
  ASSUME NEW str, NEW end \in Nat, NEW p \in Nat, p >= end, NEW c
  PROVE  Find(str, p, end, c) = end
<1>1. {i \in p .. end - 1 : str[i] = c} = {}
  OBVIOUS
<1>2. Min({end} \union {}) = end
  BY MinNone
<1> QED
  BY <1>1, <1>2, Zenon DEF Find

LEMMA NextBehind ==
  ASSUME NEW str, NEW end \in Nat
  PROVE  NextTest(str, end)[end + 1] = end + 1
<1>1. PICK q \in Nat : q = AfterModulus(str, end + 1, end) /\ q = end + 1
  <2>1. end + 1 + 1 \in Nat /\ end + 1 + 1 >= end
    OBVIOUS
  <2>2. NumberEnd(str, end + 1 + 1, end) = end
    BY <2>1, NumberBehind
  <2>3. AfterModulus(str, end + 1, end) = end + 1
    BY <2>2 DEF AfterModulus
  <2> QED
    BY <2>3
<1>2. PICK r \in Nat : r = RangeEnd(str, q, end) /\ r >= end
  <2>1. q >= end /\ q + 1 \in Nat /\ q + 1 >= end /\ end + 1 \in Nat /\ end + 1 >= end
    BY <1>1
  <2>2. NumberEnd(str, q, end) = end /\ NumberEnd(str, q + 1, end) = end /\ NumberEnd(str, end + 1, end) = end
    BY <2>1, NumberBehind
  <2>3. RangeEnd(str, q, end) \in {end, end + 1}
    BY <2>2 DEF RangeEnd
  <2> QED
    BY <2>3
<1>3. Find(str, r, end, ",") = end
  <2>1. Find(str, r, end, Comma) = end
    BY <1>2, FindBehind
  <2> QED
    BY <2>1, Zenon DEF Comma
<1>4. end + 1 \in 1 .. end + 1
  OBVIOUS
<1>5. NextTest(str, end)[end + 1]
        = Find(str, RangeEnd(str, AfterModulus(str, end + 1, end), end), end, ",") + 1
  BY <1>4, Zenon DEF NextTest
<1> QED
  BY <1>1, <1>2, <1>3, <1>5, Zenon

(* EvalPluralExpr on tests that stand at a place, before a colon.          *)
LEMMA EvalStands ==
  ASSUME NEW str \in Seq(Chars), NEW from, NEW trees, NEW option \in PluralForms(trees),
         NEW sp, Spells(trees, sp),
         Stands(str, from, Joined(SpelledTests(option), Comma)), NEW end \in Nat,
         end = from + Len(Joined(SpelledTests(option), Comma)), str[end] = ":", NEW val \in Nat
  PROVE  /\ EvalPluralExpr(val, str, from, end)
              <=> option.tests = << >> \/ \E j \in DOMAIN option.tests : Passes(option.tests[j], val)
         /\ \A i \in from .. end - 1 : str[i] # ":"
<1>0. from \in Nat /\ from >= 1
  BY DEF Stands
<1>1. PICK ss \in Seq(Seq(Chars)) : ss = SpelledTests(option) /\ Len(ss) = Len(option.tests)
  BY SpellFormType
<1>2. option.tests \in Seq(PluralTests)
  BY DEF PluralForms
<1>3. PICK n \in Nat : n = Len(ss) /\ n = Len(option.tests) /\ DOMAIN option.tests = 1 .. n
  BY <1>1, <1>2, LenProperties
<1>4. \A j \in 1 .. n : option.tests[j] \in PluralTests /\ ss[j] = SpellTest(option.tests[j])
  BY <1>1, <1>3, SpellFormType
<1>5. CASE n = 0
  <2>1. option.tests = << >> /\ ss = << >>
    BY <1>2, <1>3, <1>5, EmptySeq
  <2>2. Joined(ss, Comma) = << >> /\ Len(<< >>) = 0
    BY <2>1, JoinedNone
  <2>3. end = from
    BY <1>0, <1>1, <2>2
  <2>4. EvalPluralExpr(val, str, from, end)
    BY <2>3, EvalIs
  <2> QED
    BY <1>0, <2>1, <2>3, <2>4
<1>6. CASE n # 0
  <2>1. PICK st : Joints(st, str, from, ss, Comma)
    BY <1>1, <1>3, <1>6, CharsAre, JoinedStands
  <2>2. n \in 1 .. n /\ 1 \in 1 .. n
    BY <1>6
  <2>3. st[1] = from /\ end = st[n] + Len(ss[n])
    BY <1>1, <1>3, <2>1 DEF Joints
  <2>4. JointsOrdered(st, from, ss, end)
    BY <1>3, <2>1, <2>3, JointsInOrder
  <2>5. PICK e : e = [i \in 1 .. n |-> st[i] + Len(ss[i])]
    OBVIOUS
  <2>6. \A i \in 1 .. n : /\ e[i] = st[i] + Len(ss[i]) /\ e[i] \in Nat /\ st[i] \in Nat /\ st[i] <= e[i]
                          /\ e[i] <= end /\ from + i - 1 <= st[i] /\ (i < n => e[i] < end)
    BY <1>3, <2>4, <2>5 DEF JointsOrdered
  <2>7. \A i \in 1 .. n : Stands(str, st[i], ss[i])
    BY <1>3, <2>1 DEF Joints
  <2>8. \A i \in 1 .. n : i < n => str[e[i]] = Comma /\ st[i + 1] = e[i] + 1
    BY <1>3, <2>1, <2>5 DEF Joints
  <2>9. e[n] = end
    BY <2>2, <2>3, <2>5
  <2>10. ASSUME NEW i \in 1 .. n PROVE TestAt(val, str, st[i], option.tests[i], e[i], end)
    <3>1. ~isdigit(Comma)
      BY DigitsAre, CharsDiffer
    <3>2. e[i] = end \/ ~isdigit(str[e[i]])
      BY <2>8, <2>9, <3>1
    <3>3. Stands(str, st[i], SpellTest(option.tests[i])) /\ e[i] = st[i] + Len(SpellTest(option.tests[i]))
          /\ e[i] <= end /\ option.tests[i] \in PluralTests
      BY <1>4, <2>6, <2>7
    <3> QED
      BY <3>2, <3>3, TestStands
  <2>11. PICK N : N = NextTest(str, end)
    OBVIOUS
  <2>12. ASSUME NEW i \in 1 .. n PROVE N[st[i]] = IF i < n THEN st[i + 1] ELSE end + 1
    <3>1. Find(str, e[i], end, Comma) = e[i]
      <4>0. i = n \/ i < n
        OBVIOUS
      <4>01. e[i] \in Nat /\ e[i] <= end
        BY <2>6
      <4>02. e[i] = end \/ str[e[i]] = Comma
        BY <2>8, <2>9, <4>0
      <4>1. PICK q \in Nat : q = e[i] /\ q <= end /\ (q = end \/ str[q] = Comma)
        BY <4>01, <4>02
      <4>2. \A j \in q .. q - 1 : str[j] # Comma
        OBVIOUS
      <4>3. Find(str, q, end, Comma) = q
        BY <4>1, <4>2, FindFirst
      <4> QED
        BY <4>1, <4>3
    <3>2. st[i] \in 1 .. end + 1
      <4>1. PICK x \in Nat, y \in Nat : x = st[i] /\ y = e[i] /\ x <= y /\ y <= end /\ from + i - 1 <= x
        BY <2>6, Zenon
      <4>2. x \in 1 .. end + 1
        BY <1>0, <4>1
      <4> QED
        BY <4>1, <4>2, Zenon
    <3>3. N[st[i]] = Find(str, RangeEnd(str, AfterModulus(str, st[i], end), end), end, ",") + 1
      BY <2>11, <3>2, Zenon DEF NextTest
    <3>4. RangeEnd(str, AfterModulus(str, st[i], end), end) = e[i]
      BY <2>10 DEF TestAt
    <3>5. N[st[i]] = e[i] + 1
      BY <3>1, <3>3, <3>4, Zenon DEF Comma
    <3>6. CASE i < n
      BY <2>8, <3>5, <3>6
    <3>7. CASE ~ i < n
      <4>1. i = n
        BY <3>7
      <4> QED
        BY <2>9, <3>5, <3>7, <4>1
    <3> QED
      BY <3>6, <3>7
  <2> DEFINE P == {k \in Nat : Repeated(N, from, k) = IF k < n THEN st[k + 1] ELSE end + 1}
  <2>13. 0 \in P
    <3>1. Repeated(N, from, 0) = from /\ 0 + 1 = 1 /\ 0 < n
      BY <1>6, RepeatedIs
    <3> QED
      BY <2>3, <3>1
  <2>14. ASSUME NEW k \in Nat, k \in P PROVE k + 1 \in P
    <3>1. Repeated(N, from, k + 1) = N[Repeated(N, from, k)]
      BY RepeatedIs
    <3>2. CASE k < n
      <4>1. k + 1 \in 1 .. n
        BY <3>2
      <4>2. Repeated(N, from, k) = st[k + 1]
        BY <2>14, <3>2
      <4>3. N[st[k + 1]] = IF k + 1 < n THEN st[k + 1 + 1] ELSE end + 1
        BY <2>12, <4>1
      <4> QED
        BY <3>1, <4>2, <4>3
    <3>3. CASE ~ k < n
      <4>1. Repeated(N, from, k) = end + 1
        BY <2>14, <3>3
      <4>2. N[end + 1] = end + 1
        BY <2>11, NextBehind
      <4>3. ~ k + 1 < n
        BY <3>3
      <4> QED
        BY <3>1, <4>1, <4>2, <4>3
    <3> QED
      BY <3>2, <3>3
  <2>15. \A k \in Nat : k \in P
    <3> HIDE DEF P
    <3> QED
      BY <2>13, <2>14, SetInduction
  <2>16. \A k \in Nat : Repeated(N, from, k) = IF k < n THEN st[k + 1] ELSE end + 1
    BY <2>15
  <2> HIDE DEF P
  <2>17. str[from] # ":"
    BY <2>2, <2>3, <2>10 DEF TestAt
  <2>18. EvalPluralExpr(val, str, from, end) <=>
           \E k \in 0 .. end - from : Repeated(N, from, k) <= end /\ Condition(val, str, Repeated(N, from, k), end)
    BY <2>11, <2>17, EvalIs, Zenon
  <2>19. ASSUME NEW k \in 0 .. end - from, Repeated(N, from, k) <= end,
                Condition(val, str, Repeated(N, from, k), end)
         PROVE  \E j \in 1 .. n : Passes(option.tests[j], val)
    <3>0. k \in Nat
      OBVIOUS
    <3>1. k < n
      <4> SUFFICES ASSUME ~ k < n PROVE FALSE
        OBVIOUS
      <4>1. Repeated(N, from, k) = end + 1
        BY <2>16, <3>0
      <4> QED
        BY <2>19, <4>1
    <3>2. Repeated(N, from, k) = st[k + 1] /\ k + 1 \in 1 .. n
      BY <2>16, <3>0, <3>1
    <3>3. Passes(option.tests[k + 1], val)
      BY <2>10, <2>19, <3>2 DEF TestAt
    <3> QED
      BY <3>2, <3>3
  <2>20. ASSUME NEW j \in 1 .. n, Passes(option.tests[j], val)
         PROVE  \E k \in 0 .. end - from :
                  Repeated(N, from, k) <= end /\ Condition(val, str, Repeated(N, from, k), end)
    <3>1. j - 1 \in Nat /\ j - 1 < n /\ j - 1 + 1 = j
      OBVIOUS
    <3>2. Repeated(N, from, j - 1) = st[j]
      BY <2>16, <3>1
    <3>3. st[j] <= end /\ j - 1 \in 0 .. end - from
      <4>1. PICK a \in Nat, b \in Nat : a = st[j] /\ b = e[j] /\ a <= b /\ b <= end /\ from + j - 1 <= a
        BY <2>6
      <4> QED
        BY <1>0, <4>1
    <3>4. Condition(val, str, st[j], end)
      BY <2>10, <2>20 DEF TestAt
    <3> QED
      BY <3>2, <3>3, <3>4
  <2>21. option.tests # << >>
    <3>1. Len(<< >>) = 0
      OBVIOUS
    <3>2. ASSUME option.tests = << >> PROVE FALSE
      BY <1>3, <1>6, <3>1, <3>2
    <3> QED
      BY <3>2
  <2>22. EvalPluralExpr(val, str, from, end) <=> \E j \in 1 .. n : Passes(option.tests[j], val)
    BY <2>18, <2>19, <2>20
  <2>23. \A i \in from .. end - 1 : str[i] # ":"
    <3> DEFINE R == {k \in Nat : k + 1 <= n => \A i \in from .. e[k + 1] - 1 : str[i] # ":"}
    <3>1. 0 \in R
      <4>1. 0 + 1 = 1
        OBVIOUS
      <4> QED
        BY <2>2, <2>3, <2>10, <4>1 DEF TestAt
    <3>2. ASSUME NEW k \in Nat, k \in R PROVE k + 1 \in R
      <4> SUFFICES ASSUME k + 1 + 1 <= n, NEW i \in from .. e[k + 1 + 1] - 1 PROVE str[i] # ":"
        OBVIOUS
      <4>1. k + 1 <= n /\ k + 1 \in 1 .. n /\ k + 1 + 1 \in 1 .. n /\ k + 1 < n
        OBVIOUS
      <4>2. \A j \in from .. e[k + 1] - 1 : str[j] # ":"
        BY <3>2, <4>1
      <4>3. \A j \in st[k + 1 + 1] .. e[k + 1 + 1] - 1 : str[j] # ":"
        BY <2>10, <4>1 DEF TestAt
      <4>4. PICK a \in Nat, b \in Nat : a = e[k + 1] /\ b = e[k + 1 + 1] /\ str[a] = Comma /\ st[k + 1 + 1] = a + 1
        BY <2>6, <2>8, <4>1
      <4>5. i \in from .. a - 1 \/ i = a \/ i \in a + 1 .. b - 1
        BY <1>0, <4>4
      <4>6. Comma # ":"
        BY CharsDiffer
      <4> QED
        BY <4>2, <4>3, <4>4, <4>5, <4>6
    <3>3. \A k \in Nat : k \in R
      <4> HIDE DEF R
      <4> QED
        BY <3>1, <3>2, SetInduction
    <3>4. n - 1 \in Nat /\ n - 1 + 1 = n /\ n <= n
      BY <1>6
    <3>5. n - 1 \in R
      BY <3>3, <3>4
    <3>6. \A i \in from .. e[n] - 1 : str[i] # ":"
      BY <3>4, <3>5
    <3> QED
      BY <2>9, <3>6
  <2> QED
    BY <1>3, <2>21, <2>22, <2>23
<1> QED
  BY <1>5, <1>6

-----------------------------------------------------------------------------
(* The handlers of modifiers with options.                                 *)
OptionsAt(str, st, from, ss, end) ==
  /\ Joints(st, str, from, ss, "|") /\ JointsOrdered(st, from, ss, end) /\ st[1] = from
  /\ \A i \in 1 .. Len(ss) :
       /\ PassedOver(str, ss[i]) /\ Stands(str, st[i], ss[i])
       /\ st[i] \in Nat /\ Len(ss[i]) \in Nat /\ st[i] >= 1 /\ st[i] + Len(ss[i]) <= end /\ from + i - 1 <= st[i]
       /\ i < Len(ss) => st[i] + Len(ss[i]) < end /\ str[st[i] + Len(ss[i])] = "|"
                         /\ st[i + 1] = st[i] + Len(ss[i]) + 1
       /\ i = Len(ss) => st[i] + Len(ss[i]) = end

LEMMA OptionsStand ==
  ASSUME NEW str \in Seq(Chars), NEW ss \in Seq(Seq(Chars)), \A i \in 1 .. Len(ss) : PassedOver(str, ss[i]),
         NEW from, Stands(str, from, Joined(ss, "|")), NEW end, end = from + Len(Joined(ss, "|")), Len(ss) # 0
  PROVE  \E st : OptionsAt(str, st, from, ss, end)
<1>1. "|" \in Chars
  BY CharsAre
<1>2. PICK st : Joints(st, str, from, ss, "|")
  BY <1>1, JoinedStands
<1>3. PICK n \in Nat : n = Len(ss)
  BY LenProperties
<1>4. st[1] = from /\ end = st[n] + Len(ss[n])
  BY <1>2, <1>3 DEF Joints
<1>5. JointsOrdered(st, from, ss, end)
  BY <1>2, <1>3, <1>4, JointsInOrder
<1>6. ASSUME NEW i \in 1 .. n
      PROVE  /\ PassedOver(str, ss[i]) /\ Stands(str, st[i], ss[i])
             /\ st[i] \in Nat /\ Len(ss[i]) \in Nat /\ st[i] >= 1 /\ st[i] + Len(ss[i]) <= end /\ from + i - 1 <= st[i]
             /\ i < n => st[i] + Len(ss[i]) < end /\ str[st[i] + Len(ss[i])] = "|"
                         /\ st[i + 1] = st[i] + Len(ss[i]) + 1
             /\ i = n => st[i] + Len(ss[i]) = end
  <2>1. PassedOver(str, ss[i])
    BY <1>3
  <2>2. Stands(str, st[i], ss[i])
        /\ (i < n => str[st[i] + Len(ss[i])] = "|" /\ st[i + 1] = st[i] + Len(ss[i]) + 1)
    BY <1>2, <1>3 DEF Joints
  <2>3. st[i] \in Nat /\ st[i] >= 1
    BY <2>2 DEF Stands
  <2>4. Len(ss[i]) \in Nat /\ st[i] + Len(ss[i]) <= end /\ from + i - 1 <= st[i] /\ (i < n => st[i] + Len(ss[i]) < end)
    BY <1>3, <1>5 DEF JointsOrdered
  <2> QED
    BY <1>4, <2>1, <2>2, <2>3, <2>4
<1> QED
  BY <1>2, <1>3, <1>4, <1>5, <1>6 DEF OptionsAt


(* The scan from the start of an option ends behind it.                    *)
LEMMA TextScanned ==
  ASSUME NEW str, NEW s, PassedOver(str, s), NEW b \in Nat, Stands(str, b, s), NEW q \in Nat, q = b + Len(s),
         NEW end \in Nat, StopsAt(str, q, end, "|")
  PROVE  ScanFormat(str, b, end, "|") = q
<1>1. "|" \in Targets
  BY CharsDiffer
<1>2. {"|"} \subseteq Targets
  BY <1>1
<1>3. Skipped(str, b, q, Targets)
  BY DEF PassedOver
<1>4. Skipped(str, b, q, {"|"})
  BY <1>2, <1>3, SkippedLess
<1> QED
  BY <1>1, <1>4, ScanStops, Zenon

SelectNext(end) == [i \in 1 .. end + 1 |-> ScanFormat(Diag, i, end, "|") + 1]

LEMMA SelectIs ==
  ASSUME NEW val, NEW from, NEW end
  PROVE  HandleSelectModifier(val, from, end)
           = [DiagStr |-> Repeated(SelectNext(end), from, val),
              DiagEnd |-> ScanFormat(Diag, Repeated(SelectNext(end), from, val), end, "|")]
BY Zenon DEF HandleSelectModifier, SelectNext

(* The piece called for is the one with the text s.                        *)
ChosenAt(call, b, l, s) == call = [DiagStr |-> b, DiagEnd |-> b + l] /\ Stands(Diag, b, s) /\ l = Len(s)

LEMMA SelectStands ==
  ASSUME Diag \in Seq(Chars), NEW ss \in Seq(Seq(Chars)), \A i \in 1 .. Len(ss) : PassedOver(Diag, ss[i]),
         NEW from, Stands(Diag, from, Joined(ss, "|")), NEW end, end = from + Len(Joined(ss, "|")),
         NEW val \in Nat, val < Len(ss)
  PROVE  \E b \in Nat, l \in Nat : ChosenAt(HandleSelectModifier(val, from, end), b, l, ss[val + 1])
<1>1. PICK n \in Nat : n = Len(ss)
  BY LenProperties
<1>2. PICK st : OptionsAt(Diag, st, from, ss, end)
  <2>1. Len(ss) # 0
    BY <1>1
  <2> QED
    BY <2>1, OptionsStand
<1>3. \A i \in 1 .. n :
        /\ PassedOver(Diag, ss[i]) /\ Stands(Diag, st[i], ss[i])
        /\ st[i] \in Nat /\ Len(ss[i]) \in Nat /\ st[i] >= 1 /\ st[i] + Len(ss[i]) <= end
        /\ i < n => st[i] + Len(ss[i]) < end /\ Diag[st[i] + Len(ss[i])] = "|"
                    /\ st[i + 1] = st[i] + Len(ss[i]) + 1
        /\ i = n => st[i] + Len(ss[i]) = end
  BY <1>1, <1>2 DEF OptionsAt
<1>4. from \in Nat /\ end \in Nat /\ st[1] = from
  <2>1. from \in Nat
    BY DEF Stands
  <2>2. Joined(ss, "|") \in Seq(Chars)
    BY CharsAre, JoinedType
  <2>3. Len(Joined(ss, "|")) \in Nat
    BY <2>2, LenProperties
  <2> QED
    BY <1>2, <2>1, <2>3 DEF OptionsAt
<1>5. ASSUME NEW i \in 1 .. n PROVE ScanFormat(Diag, st[i], end, "|") = st[i] + Len(ss[i])
  <2>1. PICK b \in Nat, q \in Nat : b = st[i] /\ q = b + Len(ss[i])
    <3>1. st[i] \in Nat /\ Len(ss[i]) \in Nat
      BY <1>3
    <3> QED
      BY <3>1
  <2>2. PassedOver(Diag, ss[i]) /\ Stands(Diag, b, ss[i])
    BY <1>3, <2>1
  <2>3. StopsAt(Diag, q, end, "|")
    BY <1>3, <2>1 DEF StopsAt
  <2>4. ScanFormat(Diag, b, end, "|") = q
    BY <1>4, <2>1, <2>2, <2>3, TextScanned, Zenon
  <2> QED
    BY <2>1, <2>4
<1>6. PICK N : N = SelectNext(end)
  OBVIOUS
<1>7. ASSUME NEW i \in 1 .. n, i < n PROVE N[st[i]] = st[i + 1]
  <2>1. st[i] \in 1 .. end + 1
    <3>1. PICK b \in Nat, l \in Nat : b = st[i] /\ l = Len(ss[i]) /\ b >= 1 /\ b + l <= end
      BY <1>3
    <3> QED
      BY <1>4, <3>1
  <2>2. N[st[i]] = ScanFormat(Diag, st[i], end, "|") + 1
    BY <1>6, <2>1, Zenon DEF SelectNext
  <2> QED
    BY <1>3, <1>5, <1>7, <2>2
<1> DEFINE P == {k \in Nat : k < n => Repeated(N, from, k) = st[k + 1]}
<1>8. 0 \in P
  <2>1. Repeated(N, from, 0) = from /\ 0 + 1 = 1
    BY RepeatedIs
  <2> QED
    BY <1>4, <2>1
<1>9. ASSUME NEW k \in Nat, k \in P PROVE k + 1 \in P
  <2>1. SUFFICES ASSUME k + 1 < n PROVE Repeated(N, from, k + 1) = st[k + 1 + 1]
    OBVIOUS
  <2>2. k + 1 \in 1 .. n /\ k < n
    BY <2>1
  <2>3. Repeated(N, from, k + 1) = N[Repeated(N, from, k)]
    BY RepeatedIs
  <2>4. Repeated(N, from, k) = st[k + 1]
    BY <1>9, <2>2
  <2> QED
    BY <1>7, <2>1, <2>2, <2>3, <2>4
<1>10. \A k \in Nat : k \in P
  <2> HIDE DEF P
  <2> QED
    BY <1>8, <1>9, SetInduction
<1>11. Repeated(N, from, val) = st[val + 1] /\ val + 1 \in 1 .. n
  BY <1>1, <1>10
<1> HIDE DEF P
<1>12. PICK b \in Nat, l \in Nat : b = st[val + 1] /\ l = Len(ss[val + 1])
  BY <1>3, <1>11
<1>13. ScanFormat(Diag, b, end, "|") = b + l
  BY <1>5, <1>11, <1>12
<1>14. HandleSelectModifier(val, from, end) = [DiagStr |-> b, DiagEnd |-> b + l]
  BY <1>6, <1>11, <1>12, <1>13, SelectIs, Zenon
<1>15. Stands(Diag, b, ss[val + 1])
  BY <1>3, <1>11, <1>12
<1> QED
  BY <1>12, <1>14, <1>15, Zenon DEF ChosenAt

(* One form of a plural: its tests, a colon, its text.                     *)
Fits(option, val) == option.tests = << >> \/ \E j \in DOMAIN option.tests : Passes(option.tests[j], val)

FormAt(str, b, l, option, sp, c, m) ==
  /\ Stands(str, b, Joined(SpelledTests(option), Comma)) /\ c = b + Len(Joined(SpelledTests(option), Comma))
  /\ b <= c /\ str[c] = ":" /\ Stands(str, c + 1, sp[option.form]) /\ m = Len(sp[option.form])
  /\ c + 1 + m = b + l

LEMMA FormStands ==
  ASSUME NEW str \in Seq(Chars), NEW trees, NEW sp, Spells(trees, sp), NEW option \in PluralForms(trees),
         NEW b, Stands(str, b, SpellForm(option, sp)), NEW l, l = Len(SpellForm(option, sp))
  PROVE  b \in Nat /\ l \in Nat /\ \E c \in Nat, m \in Nat : FormAt(str, b, l, option, sp, c, m)
<1>1. PICK x \in Seq(Chars), y \in Seq(Chars), z \in Seq(Chars) :
        x = Joined(SpelledTests(option), Comma) /\ y = <<":">> /\ z = sp[option.form] /\ Len(y) = 1
  <2>1. Joined(SpelledTests(option), Comma) \in Seq(Chars) /\ sp[option.form] \in Seq(Chars)
    BY SpellFormType
  <2>2. <<":">> \in Seq(Chars) /\ Len(<<":">>) = 1
    BY CharsAre, OneChar
  <2> QED
    BY <2>1, <2>2, Zenon
<1>2. SpellForm(option, sp) = x \o y \o z
  BY <1>1, SpellFormIs, Zenon
<1>3. x \o y \in Seq(Chars) /\ Len(x \o y) = Len(x) + 1 /\ Len(x) \in Nat
  BY <1>1, ConcatType
<1>4. Len(x \o y \o z) = Len(x \o y) + Len(z) /\ Len(z) \in Nat
  BY <1>3, ConcatType
<1>5. Stands(str, b, x \o y) /\ Stands(str, b + (Len(x) + 1), z)
  <2>1. PICK xy, c, n : /\ xy \in Seq(Chars) /\ xy = x \o y
                        /\ c = xy \o z /\ n = Len(x) + 1 /\ n = Len(xy)
    BY <1>3, Zenon
  <2>2. Stands(str, b, c)
    BY <1>2, <2>1, Zenon
  <2>3. Stands(str, b, xy) /\ Stands(str, b + n, z)
    BY <2>1, <2>2, StandsParts, Zenon
  <2> QED
    BY <2>1, <2>3, Zenon
<1>6. Stands(str, b, x) /\ Stands(str, b + Len(x), y)
  BY <1>5, StandsConcat
<1>7. b \in Nat
  BY <1>6 DEF Stands
<1>8. PICK c \in Nat, m \in Nat : c = b + Len(x) /\ m = Len(z) /\ b <= c /\ c + 1 = b + (Len(x) + 1)
                                   /\ c + 1 + m = b + l
  <2>1. PICK lx \in Nat, m \in Nat : lx = Len(x) /\ m = Len(z)
    BY <1>3, <1>4
  <2>2. l = lx + 1 + m
    BY <1>2, <1>3, <1>4, <2>1
  <2>3. b + lx \in Nat /\ b <= b + lx /\ b + lx + 1 = b + (lx + 1) /\ b + lx + 1 + m = b + l
    BY <1>7, <2>2
  <2> QED
    BY <2>1, <2>3
<1>9. str[c] = ":"
  <2>1. Stands(str, c, <<":">>)
    BY <1>1, <1>6, <1>8
  <2>2. Len(str) \in Nat
    BY LenProperties
  <2> QED
    BY <2>1, <2>2, StandsOne
<1>10. FormAt(str, b, l, option, sp, c, m)
  <2>1. Stands(str, c + 1, z)
    BY <1>5, <1>8
  <2> QED
    BY <1>1, <1>6, <1>8, <1>9, <2>1, Zenon DEF FormAt
<1>11. l \in Nat
  BY <1>2, <1>3, <1>4
<1> QED
  BY <1>7, <1>10, <1>11

(* Where its colon is found, and whether it is taken.                      *)
LEMMA FormRead ==
  ASSUME NEW str \in Seq(Chars), NEW trees, NEW sp, Spells(trees, sp), NEW option \in PluralForms(trees),
         NEW b \in Nat, NEW l \in Nat, NEW c \in Nat, NEW m \in Nat, FormAt(str, b, l, option, sp, c, m),
         NEW end \in Nat, b + l <= end, NEW val \in Nat
  PROVE  Find(str, b, end, ":") = c /\ (EvalPluralExpr(val, str, b, c) <=> Fits(option, val))
<1>0. Stands(str, b, Joined(SpelledTests(option), Comma)) /\ c = b + Len(Joined(SpelledTests(option), Comma))
      /\ str[c] = ":" /\ b <= c /\ c + 1 + m = b + l
  BY Zenon DEF FormAt
<1>01. c <= end
  BY <1>0
<1>1. Stands(str, b, Joined(SpelledTests(option), Comma)) /\ c = b + Len(Joined(SpelledTests(option), Comma))
      /\ str[c] = ":" /\ b <= c /\ c <= end
  BY <1>0, <1>01, Zenon
<1>2. /\ EvalPluralExpr(val, str, b, c)
           <=> option.tests = << >> \/ \E j \in DOMAIN option.tests : Passes(option.tests[j], val)
      /\ \A i \in b .. c - 1 : str[i] # ":"
  BY <1>1, EvalStands
<1>3. Find(str, b, end, ":") = c
  <2>1. FoundAt(str, b, end, ":", c)
    BY <1>1, <1>2, FindAt, Zenon
  <2> QED
    BY <2>1, Zenon DEF FoundAt
<1> QED
  BY <1>2, <1>3 DEF Fits

PluralNext(end) == [i \in 1 .. end |-> ScanFormat(Diag, i, end - 1, "|") + 1]
PluralExprEnd(from, end, k) == Find(Diag, Repeated(PluralNext(end), from, k), end, ":")
PluralMatches(val, from, end, k) ==
  EvalPluralExpr(val, Diag, Repeated(PluralNext(end), from, k), PluralExprEnd(from, end, k))
FirstMatch(val, from, end) ==
  CHOOSE n \in 0 .. end - from : PluralMatches(val, from, end, n)
                                 /\ \A m \in 0 .. n - 1 : ~PluralMatches(val, from, end, m)

LEMMA PluralIs ==
  ASSUME NEW val, NEW from, NEW end
  PROVE  HandlePluralModifier(val, from, end)
           = [DiagStr |-> PluralExprEnd(from, end, FirstMatch(val, from, end)) + 1,
              DiagEnd |-> ScanFormat(Diag, PluralExprEnd(from, end, FirstMatch(val, from, end)) + 1, end, "|")]
BY Zenon DEF HandlePluralModifier, PluralNext, PluralExprEnd, PluralMatches, FirstMatch

(* The first option that fits is the one the code chooses.                 *)
LEMMA FirstMatchIs ==
  ASSUME NEW val, NEW from \in Nat, NEW end \in Nat, NEW f \in Nat, f \in 0 .. end - from,
         PluralMatches(val, from, end, f), \A k \in Nat : k < f => ~PluralMatches(val, from, end, k)
  PROVE  FirstMatch(val, from, end) = f
<1> DEFINE First(n) == PluralMatches(val, from, end, n)
                       /\ \A m \in 0 .. n - 1 : ~PluralMatches(val, from, end, m)
<1>1. f \in 0 .. end - from /\ First(f)
  BY SMT
<1>2. \A n \in 0 .. end - from : First(n) => n = f
  BY SMT
<1>3. FirstMatch(val, from, end) = CHOOSE n \in 0 .. end - from : First(n)
  BY DEF FirstMatch
<1> HIDE DEF First
<1> QED
  BY <1>1, <1>2, <1>3

LEMMA FittingIs ==
  ASSUME NEW trees, NEW options \in Seq(PluralForms(trees)), NEW val, Fitting(options, val) # {}
  PROVE  \E f \in Nat : /\ f + 1 = Min(Fitting(options, val)) /\ f < Len(options)
                        /\ Fits(options[f + 1], val)
                        /\ \A k \in Nat : k < f => ~Fits(options[k + 1], val)
<1>1. PICK n \in Nat : n = Len(options) /\ DOMAIN options = 1 .. n
  BY LenProperties
<1>2. PICK S : S = Fitting(options, val) /\ S = {i \in 1 .. n : Fits(options[i], val)}
  BY <1>1, Zenon DEF Fitting, Fits
<1>3. S \in SUBSET Nat /\ S # {}
  BY <1>2
<1>4. PICK m : m = Min(S) /\ m \in S /\ \A y \in S : m <= y
  BY <1>3, MinIsLeast
<1>5. m \in 1 .. n /\ Fits(options[m], val)
  BY <1>2, <1>4
<1>6. PICK f \in Nat : f + 1 = m /\ f < n
  <2>1. m - 1 \in Nat /\ m - 1 + 1 = m /\ m - 1 < n
    BY <1>5
  <2> QED
    BY <2>1
<1>7. ASSUME NEW k \in Nat, k < f PROVE ~Fits(options[k + 1], val)
  <2>1. SUFFICES ASSUME Fits(options[k + 1], val) PROVE FALSE
    OBVIOUS
  <2>2. k + 1 \in 1 .. n /\ ~(m <= k + 1)
    BY <1>6, <1>7
  <2>3. k + 1 \in S
    BY <1>2, <2>1, <2>2
  <2> QED
    BY <1>4, <2>2, <2>3
<1> QED
  BY <1>1, <1>2, <1>4, <1>5, <1>6, <1>7

LEMMA PluralStands ==
  ASSUME Diag \in Seq(Chars), NEW trees, NEW sp, Spells(trees, sp), \A u \in trees : PassedOver(Diag, sp[u]),
         NEW node, node.options \in Seq(PluralForms(trees)),
         NEW from, Stands(Diag, from, Joined(SpelledForms(node, sp), "|")), NEW end,
         end = from + Len(Joined(SpelledForms(node, sp), "|")),
         NEW val \in Nat, Fitting(node.options, val) # {}
  PROVE  \E j \in 1 .. Len(node.options), b \in Nat, l \in Nat :
           /\ j = Min(Fitting(node.options, val))
           /\ ChosenAt(HandlePluralModifier(val, from, end), b, l, sp[node.options[j].form])
<1>1. PICK ss \in Seq(Seq(Chars)), n \in Nat :
        ss = SpelledForms(node, sp) /\ n = Len(ss) /\ n = Len(node.options)
  <2>1. Len(SpelledForms(node, sp)) \in Nat
    BY SpelledFormsType, LenProperties
  <2> QED
    BY <2>1, SpelledFormsType
<1>2. \A i \in 1 .. n : ss[i] = SpellForm(node.options[i], sp) /\ node.options[i] \in PluralForms(trees)
  BY <1>1, SpelledFormsType
<1>3. PICK f \in Nat : /\ f + 1 = Min(Fitting(node.options, val)) /\ f < n
                       /\ Fits(node.options[f + 1], val)
                       /\ \A k \in Nat : k < f => ~Fits(node.options[k + 1], val)
  BY <1>1, FittingIs
<1>4. \A i \in 1 .. n : PassedOver(Diag, ss[i])
  BY <1>2, FormSkipped
<1>5. PICK st : OptionsAt(Diag, st, from, ss, end)
  <2>1. Len(ss) # 0
    BY <1>1, <1>3
  <2> QED
    BY <1>1, <1>4, <2>1, OptionsStand
<1>6. \A i \in 1 .. n :
        /\ PassedOver(Diag, ss[i]) /\ Stands(Diag, st[i], ss[i])
        /\ st[i] \in Nat /\ Len(ss[i]) \in Nat /\ st[i] >= 1 /\ st[i] + Len(ss[i]) <= end /\ from + i - 1 <= st[i]
        /\ i < n => st[i] + Len(ss[i]) < end /\ Diag[st[i] + Len(ss[i])] = "|"
                    /\ st[i + 1] = st[i] + Len(ss[i]) + 1
        /\ i = n => st[i] + Len(ss[i]) = end
  BY <1>1, <1>5 DEF OptionsAt
<1>7. from \in Nat /\ end \in Nat /\ st[1] = from
  <2>1. from \in Nat
    BY DEF Stands
  <2>2. Joined(ss, "|") \in Seq(Chars)
    BY CharsAre, JoinedType
  <2>3. Len(Joined(ss, "|")) \in Nat
    BY <2>2, LenProperties
  <2> QED
    BY <1>1, <1>5, <2>1, <2>3 DEF OptionsAt
(* The form at i has a colon and a text that may be empty.                 *)
<1>8. ASSUME NEW i \in 1 .. n
      PROVE  \E b \in Nat, l \in Nat, c \in Nat, m \in Nat :
               /\ b = st[i] /\ l = Len(ss[i]) /\ b >= 1 /\ b + l <= end /\ from + i - 1 <= b
               /\ FormAt(Diag, b, l, node.options[i], sp, c, m) /\ b <= c /\ c + 1 + m = b + l
  <2>1. PICK b \in Nat, l \in Nat : b = st[i] /\ l = Len(ss[i]) /\ b >= 1 /\ b + l <= end /\ from + i - 1 <= b
    BY <1>6
  <2>2. Stands(Diag, b, SpellForm(node.options[i], sp)) /\ l = Len(SpellForm(node.options[i], sp))
        /\ node.options[i] \in PluralForms(trees)
    BY <1>2, <1>6, <2>1
  <2>3. PICK c \in Nat, m \in Nat : FormAt(Diag, b, l, node.options[i], sp, c, m)
    BY <2>2, FormStands
  <2>4. b <= c /\ c + 1 + m = b + l
    BY <2>3 DEF FormAt
  <2> QED
    BY <2>1, <2>3, <2>4
<1>9. PICK N : N = PluralNext(end)
  OBVIOUS
<1>10. ASSUME NEW i \in 1 .. n, i < n PROVE N[st[i]] = st[i + 1]
  <2>1. PICK b \in Nat, l \in Nat : b = st[i] /\ l = Len(ss[i]) /\ b >= 1 /\ b + l <= end
    BY <1>6
  <2>2. i + 1 \in 1 .. n
    BY <1>10
  <2>3. PICK b2 \in Nat, l2 \in Nat, c2 \in Nat, m2 \in Nat :
          b2 = st[i + 1] /\ b2 + l2 <= end /\ b2 <= c2 /\ c2 + 1 + m2 = b2 + l2
    <3>1. PICK b2 \in Nat, l2 \in Nat, c2 \in Nat, m2 \in Nat :
               /\ b2 = st[i + 1] /\ l2 = Len(ss[i + 1]) /\ b2 >= 1 /\ b2 + l2 <= end /\ from + (i + 1) - 1 <= b2
               /\ FormAt(Diag, b2, l2, node.options[i + 1], sp, c2, m2) /\ b2 <= c2 /\ c2 + 1 + m2 = b2 + l2
      BY <1>8, <2>2, Zenon
    <3> QED
      BY <3>1, Zenon
  <2>4. PICK q \in Nat : q = b + l /\ Diag[q] = "|" /\ b2 = q + 1
    <3>1. Diag[b + l] = "|" /\ b2 = b + l + 1
      BY <1>6, <1>10, <2>1, <2>3, Zenon
    <3>2. b + l \in Nat
      OBVIOUS
    <3> QED
      BY <3>1, <3>2
  <2>5. PICK e \in Nat : e = end - 1 /\ q < e
    <3>1. b2 + 1 <= end /\ b2 = q + 1 /\ end \in Nat
      BY <1>7, <2>3, <2>4
    <3>2. end - 1 \in Nat /\ q < end - 1
      BY <3>1
    <3> QED
      BY <3>2
  <2>6. StopsAt(Diag, q, e, "|")
    BY <2>4, <2>5, Zenon DEF StopsAt
  <2>7. PassedOver(Diag, ss[i]) /\ Stands(Diag, b, ss[i]) /\ q = b + Len(ss[i])
    BY <1>6, <2>1, <2>4, Zenon
  <2>8. ScanFormat(Diag, b, e, "|") = q
    BY <2>6, <2>7, TextScanned, Zenon
  <2>9. b \in 1 .. end
    BY <1>7, <2>1
  <2>10. N[b] = ScanFormat(Diag, b, end - 1, "|") + 1
    BY <1>9, <2>9, Zenon DEF PluralNext
  <2> QED
    BY <2>1, <2>3, <2>4, <2>5, <2>8, <2>10, Zenon
<1> DEFINE P == {k \in Nat : k < n => Repeated(N, from, k) = st[k + 1]}
<1>11. 0 \in P
  <2>1. Repeated(N, from, 0) = from /\ 0 + 1 = 1
    BY RepeatedIs
  <2> QED
    BY <1>7, <2>1
<1>12. ASSUME NEW k \in Nat, k \in P PROVE k + 1 \in P
  <2>1. SUFFICES ASSUME k + 1 < n PROVE Repeated(N, from, k + 1) = st[k + 1 + 1]
    OBVIOUS
  <2>2. k + 1 \in 1 .. n /\ k < n
    BY <2>1
  <2>3. Repeated(N, from, k + 1) = N[Repeated(N, from, k)]
    BY RepeatedIs
  <2>4. Repeated(N, from, k) = st[k + 1]
    BY <1>12, <2>2
  <2> QED
    BY <1>10, <2>1, <2>2, <2>3, <2>4
<1>13. \A k \in Nat : k \in P
  <2> HIDE DEF P
  <2> QED
    BY <1>11, <1>12, SetInduction
<1>14. \A k \in Nat : k < n => Repeated(N, from, k) = st[k + 1]
  BY <1>13
<1> HIDE DEF P
(* The form numbered k, which the code looks at if it comes so far.        *)
<1>15. ASSUME NEW k \in Nat, k < n
       PROVE  \E b \in Nat, l \in Nat, c \in Nat, m \in Nat :
                /\ b = st[k + 1] /\ l = Len(ss[k + 1]) /\ b >= 1 /\ b + l <= end /\ from + k <= b
                /\ FormAt(Diag, b, l, node.options[k + 1], sp, c, m) /\ b <= c /\ c + 1 + m = b + l
                /\ PluralExprEnd(from, end, k) = c
                /\ (PluralMatches(val, from, end, k) <=> Fits(node.options[k + 1], val))
  <2>1. k + 1 \in 1 .. n /\ from + (k + 1) - 1 = from + k
    BY <1>7, <1>15
  <2>2. PICK b \in Nat, l \in Nat, c \in Nat, m \in Nat :
          /\ b = st[k + 1] /\ l = Len(ss[k + 1]) /\ b >= 1 /\ b + l <= end /\ from + k <= b
          /\ FormAt(Diag, b, l, node.options[k + 1], sp, c, m) /\ b <= c /\ c + 1 + m = b + l
    <3>1. PICK b \in Nat, l \in Nat, c \in Nat, m \in Nat :
            /\ b = st[k + 1] /\ l = Len(ss[k + 1]) /\ b >= 1 /\ b + l <= end /\ from + (k + 1) - 1 <= b
            /\ FormAt(Diag, b, l, node.options[k + 1], sp, c, m) /\ b <= c /\ c + 1 + m = b + l
      BY <1>8, <2>1, Zenon
    <3>2. from + k <= b
      BY <2>1, <3>1
    <3> QED
      BY <3>1, <3>2, Zenon
  <2>3. Repeated(PluralNext(end), from, k) = b
    BY <1>9, <1>14, <1>15, <2>2
  <2>4. node.options[k + 1] \in PluralForms(trees)
    BY <1>2, <2>1
  <2>5. Find(Diag, b, end, ":") = c /\ (EvalPluralExpr(val, Diag, b, c) <=> Fits(node.options[k + 1], val))
    <3>1. PICK option \in PluralForms(trees) : option = node.options[k + 1]
      BY <2>4
    <3>2. FormAt(Diag, b, l, option, sp, c, m) /\ b + l <= end /\ end \in Nat
      BY <1>7, <2>2, <3>1
    <3>3. Find(Diag, b, end, ":") = c /\ (EvalPluralExpr(val, Diag, b, c) <=> Fits(option, val))
      BY <3>2, FormRead
    <3> QED
      BY <3>1, <3>3
  <2>6. PluralExprEnd(from, end, k) = c
    BY <2>3, <2>5, Zenon DEF PluralExprEnd
  <2>7. PluralMatches(val, from, end, k) <=> Fits(node.options[k + 1], val)
    BY <2>3, <2>5, <2>6, Zenon DEF PluralMatches
  <2> QED
    BY <2>2, <2>6, <2>7
<1>16. PICK b \in Nat, l \in Nat, c \in Nat, m \in Nat :
         /\ b = st[f + 1] /\ l = Len(ss[f + 1]) /\ b >= 1 /\ b + l <= end /\ from + f <= b
         /\ FormAt(Diag, b, l, node.options[f + 1], sp, c, m) /\ b <= c /\ c + 1 + m = b + l
         /\ PluralExprEnd(from, end, f) = c
         /\ (PluralMatches(val, from, end, f) <=> Fits(node.options[f + 1], val))
  BY <1>3, <1>15
<1>17. FirstMatch(val, from, end) = f
  <2>1. f \in 0 .. end - from
    BY <1>7, <1>16
  <2>2. PluralMatches(val, from, end, f)
    BY <1>3, <1>16
  <2>3. ASSUME NEW k \in Nat, k < f PROVE ~PluralMatches(val, from, end, k)
    <3>1. k < n
      BY <1>3, <2>3
    <3>2. ~Fits(node.options[k + 1], val)
      BY <1>3, <2>3
    <3> QED
      BY <1>15, <3>1, <3>2
  <2> QED
    BY <1>7, <2>1, <2>2, <2>3, FirstMatchIs
<1>18. f + 1 \in 1 .. n /\ node.options[f + 1] \in PluralForms(trees)
  BY <1>2, <1>3
<1>19. Stands(Diag, c + 1, sp[node.options[f + 1].form]) /\ m = Len(sp[node.options[f + 1].form])
  BY <1>16 DEF FormAt
<1>20. ScanFormat(Diag, c + 1, end, "|") = c + 1 + m
  <2>1. node.options[f + 1].form \in trees
    BY <1>18, SpellFormType
  <2>2. PassedOver(Diag, sp[node.options[f + 1].form])
    BY <2>1
  <2>3. b + l = end \/ (b + l < end /\ Diag[b + l] = "|")
    <3>1. f + 1 = n \/ f + 1 < n
      BY <1>18
    <3> QED
      BY <1>6, <1>16, <1>18, <3>1
  <2>4. PICK c1 \in Nat, q \in Nat : c1 = c + 1 /\ q = c1 + m /\ q = b + l
    <3>1. c + 1 \in Nat /\ c + 1 + m \in Nat
      OBVIOUS
    <3> QED
      BY <1>16, <3>1
  <2>5. StopsAt(Diag, q, end, "|")
    BY <2>3, <2>4, Zenon DEF StopsAt
  <2>6. Stands(Diag, c1, sp[node.options[f + 1].form]) /\ q = c1 + Len(sp[node.options[f + 1].form])
    BY <1>19, <2>4, Zenon
  <2>7. ScanFormat(Diag, c1, end, "|") = q
    BY <1>7, <2>2, <2>5, <2>6, TextScanned, Zenon
  <2> QED
    BY <2>4, <2>7, Zenon
<1>21. HandlePluralModifier(val, from, end) = [DiagStr |-> c + 1, DiagEnd |-> c + 1 + m]
  BY <1>16, <1>17, <1>20, PluralIs, Zenon
<1>22. c + 1 \in Nat
  OBVIOUS
<1>23. ChosenAt(HandlePluralModifier(val, from, end), c + 1, m, sp[node.options[f + 1].form])
  BY <1>19, <1>21, Zenon DEF ChosenAt
<1>24. f + 1 \in 1 .. Len(node.options)
  BY <1>1, <1>3, <1>18
<1> QED
  BY <1>3, <1>22, <1>23, <1>24, Zenon

-----------------------------------------------------------------------------
(* What a tree says, and trees without their first node.                   *)
LEMMA SpellingType ==
  ASSUME NEW arg \in [kind : ArgumentKinds, value : Nat]
  PROVE  Spelling(arg) \in Seq(Chars)
<1>1. arg.value \in Nat
  OBVIOUS
<1>2. Numeral[arg.value] \in Seq(Chars)
  BY <1>1, NumeralChars
<1>3. <<"(null)">> \in Seq(Chars) /\ <<"string">> \in Seq(Chars)
  BY CharsAre, OneChar
<1>4. <<"'", "name", "'">> \in Seq(Chars)
  BY CharsAre, ThreeChars
<1>5. Spelling(arg) \in {Numeral[arg.value], <<"(null)">>, <<"'", "name", "'">>, <<"string">>}
  BY Zenon DEF Spelling
<1> QED
  BY <1>2, <1>3, <1>4, <1>5, Zenon

LEMMA OrdinalType ==
  ASSUME NEW n \in Nat
  PROVE  Append(Numeral[n], OrdinalSuffix(n)) \in Seq(Chars)
<1>1. OrdinalSuffix(n) \in {"th", "st", "nd", "rd"}
  BY Zenon DEF OrdinalSuffix
<1>2. OrdinalSuffix(n) \in Chars
  BY <1>1, CharsAre
<1> QED
  BY <1>2, NumeralChars, AppendProperties

LEMMA NodeMeaningIs ==
  ASSUME NEW n, NEW as, NEW meaning
  PROVE  /\ n.node \in {"text", "escape"} => NodeMeaning(n, as, meaning) = <<n.word>>
         /\ n.node = "argument" => NodeMeaning(n, as, meaning) = Spelling(as[n.arg + 1])
         /\ n.node = "s" =>
              NodeMeaning(n, as, meaning) = IF as[n.arg + 1].value = 1 THEN << >> ELSE <<"s">>
         /\ n.node = "ordinal" =>
              NodeMeaning(n, as, meaning)
                = Append(Numeral[as[n.arg + 1].value], OrdinalSuffix(as[n.arg + 1].value))
         /\ n.node = "select" =>
              NodeMeaning(n, as, meaning) = meaning[n.options[as[n.arg + 1].value + 1]]
         /\ n.node = "plural" =>
              NodeMeaning(n, as, meaning)
                = meaning[n.options[Min(Fitting(n.options, as[n.arg + 1].value))].form]
<1>1. n.node \in {"text", "escape"} => NodeMeaning(n, as, meaning) = <<n.word>>
  BY Zenon DEF NodeMeaning
<1>2. n.node = "argument" => NodeMeaning(n, as, meaning) = Spelling(as[n.arg + 1])
  BY Zenon DEF NodeMeaning
<1>3. n.node = "s" =>
        NodeMeaning(n, as, meaning) = IF as[n.arg + 1].value = 1 THEN << >> ELSE <<"s">>
  BY Zenon DEF NodeMeaning
<1>4. n.node = "ordinal" =>
        NodeMeaning(n, as, meaning)
          = Append(Numeral[as[n.arg + 1].value], OrdinalSuffix(as[n.arg + 1].value))
  BY Zenon DEF NodeMeaning
<1>5. n.node = "select" => NodeMeaning(n, as, meaning) = meaning[n.options[as[n.arg + 1].value + 1]]
  BY Zenon DEF NodeMeaning
<1>6. n.node = "plural" =>
        NodeMeaning(n, as, meaning)
          = meaning[n.options[Min(Fitting(n.options, as[n.arg + 1].value))].form]
  BY Zenon DEF NodeMeaning
<1> QED
  BY <1>1, <1>2, <1>3, <1>4, <1>5, <1>6, Zenon

(* The argument of a node, where the node is good for the arguments.       *)
ArgumentAt(n, as, k, val) ==
  /\ k = n.arg + 1 /\ n.arg \in 0 .. 9 /\ as[k] \in [kind : ArgumentKinds, value : Nat] /\ val = as[k].value
  /\ n.node = "select" => val < Len(n.options)
  /\ n.node = "plural" => Fitting(n.options, val) # {}

LEMMA GoodNode ==
  ASSUME NEW d, NEW n \in GoodNodes(d), NEW as \in Arguments
  PROVE  /\ n \in Nodes(Trees[d])
         /\ n.node \notin {"text", "escape"} => \E k \in Nat, val \in Nat : ArgumentAt(n, as, k, val)
<1>1. n \in Nodes(Trees[d]) /\ GoodFor(n, as)
  BY Zenon DEF GoodNodes
<1>2. SUFFICES ASSUME n.node \notin {"text", "escape"}
               PROVE  \E k \in Nat, val \in Nat : ArgumentAt(n, as, k, val)
  BY <1>1
<1>3. n.arg < Len(as) /\ (n.node = "select" => as[n.arg + 1].value < Len(n.options))
      /\ (n.node = "plural" => Fitting(n.options, as[n.arg + 1].value) # {})
  BY <1>1, <1>2, Zenon DEF GoodFor
<1>4. PICK a \in 0 .. 9 : a = n.arg
  BY <1>1, <1>2, NodeCases
<1>5. as \in Seq([kind : ArgumentKinds, value : Nat])
  BY ArgumentsAssumption
<1>6. PICK l \in Nat : l = Len(as) /\ DOMAIN as = 1 .. l
  BY <1>5, LenProperties
<1>7. a + 1 \in 1 .. l /\ a + 1 \in Nat
  <2>1. a < l
    BY <1>3, <1>4, <1>6, Zenon
  <2> QED
    BY <2>1
<1>8. as[a + 1] \in [kind : ArgumentKinds, value : Nat]
  BY <1>5, <1>6, <1>7, ElementOfSeq
<1>9. PICK val \in Nat : val = as[a + 1].value
  BY <1>8
<1>10. ArgumentAt(n, as, a + 1, val)
  BY <1>3, <1>4, <1>8, <1>9, Zenon DEF ArgumentAt
<1> QED
  BY <1>7, <1>10

Means(trees, meaning) == \A u \in trees : meaning[u] \in Seq(Chars)

LEMMA NodeMeaningType ==
  ASSUME NEW d, NEW n \in GoodNodes(d), NEW as \in Arguments, NEW meaning, Means(Trees[d], meaning)
  PROVE  NodeMeaning(n, as, meaning) \in Seq(Chars)
<1>1. n \in Nodes(Trees[d])
  BY GoodNode
<1>2. CASE n.node \in {"text", "escape"}
  <2>1. n.word \in Chars
    BY <1>1, <1>2, NodeCases, CharsAre
  <2> QED
    BY <1>2, <2>1, NodeMeaningIs, OneChar
<1>3. CASE n.node \notin {"text", "escape"}
  <2>1. PICK k \in Nat, val \in Nat : ArgumentAt(n, as, k, val)
    BY <1>3, GoodNode
  <2>2. k = n.arg + 1 /\ n.arg \in 0 .. 9 /\ as[k] \in [kind : ArgumentKinds, value : Nat] /\ val = as[k].value
        /\ (n.node = "select" => val < Len(n.options)) /\ (n.node = "plural" => Fitting(n.options, val) # {})
    BY <2>1, Zenon DEF ArgumentAt
  <2>3. CASE n.node = "argument"
    BY <2>2, <2>3, NodeMeaningIs, SpellingType, Zenon
  <2>4. CASE n.node = "s"
    <3>1. <<"s">> \in Seq(Chars) /\ << >> \in Seq(Chars)
      BY CharsAre, OneChar, EmptySeq
    <3> QED
      BY <2>4, <3>1, NodeMeaningIs, Zenon
  <2>5. CASE n.node = "ordinal"
    <3>1. NodeMeaning(n, as, meaning) = Append(Numeral[val], OrdinalSuffix(val))
      BY <2>2, <2>5, NodeMeaningIs, Zenon
    <3> QED
      BY <3>1, OrdinalType
  <2>6. CASE n.node = "select"
    <3>1. n.options \in Seq(Trees[d])
      BY <1>1, <2>6, NodeCases
    <3>2. PICK l \in Nat : l = Len(n.options) /\ DOMAIN n.options = 1 .. l
      BY <3>1, LenProperties
    <3>3. val + 1 \in 1 .. l
      <4>1. val < l
        BY <2>2, <2>6, <3>2, Zenon
      <4> QED
        BY <4>1
    <3>4. n.options[val + 1] \in Trees[d]
      BY <3>1, <3>2, <3>3, ElementOfSeq
    <3>5. NodeMeaning(n, as, meaning) = meaning[n.options[val + 1]]
      BY <2>2, <2>6, NodeMeaningIs, Zenon
    <3> QED
      BY <3>4, <3>5 DEF Means
  <2>7. CASE n.node = "plural"
    <3>1. n.options \in Seq(PluralForms(Trees[d]))
      BY <1>1, <2>7, NodeCases
    <3>2. PICK l \in Nat : l = Len(n.options) /\ DOMAIN n.options = 1 .. l
      BY <3>1, LenProperties
    <3>3. Fitting(n.options, val) # {}
      BY <2>2, <2>7
    <3>4. PICK f \in Nat : f + 1 = Min(Fitting(n.options, val)) /\ f < Len(n.options)
      BY <3>1, <3>3, FittingIs
    <3>5. f + 1 \in 1 .. l
      BY <3>2, <3>4
    <3>6. n.options[f + 1] \in PluralForms(Trees[d])
      BY <3>1, <3>2, <3>5, ElementOfSeq
    <3>7. n.options[f + 1].form \in Trees[d]
      BY <3>6 DEF PluralForms
    <3>8. NodeMeaning(n, as, meaning) = meaning[n.options[f + 1].form]
      BY <2>2, <2>7, <3>4, NodeMeaningIs, Zenon
    <3> QED
      BY <3>7, <3>8 DEF Means
  <2> QED
    BY <1>1, <1>3, <2>3, <2>4, <2>5, <2>6, <2>7, NodeCases
<1> QED
  BY <1>2, <1>3

LEMMA SeqOfLength ==
  ASSUME NEW S, NEW n \in Nat, NEW ss \in [1 .. n -> S]
  PROVE  ss \in Seq(S) /\ Len(ss) = n
OBVIOUS

MeaningsAre(t, as, meaning) ==
  /\ NodeMeanings(t, as, meaning) \in Seq(Seq(Chars)) /\ Len(NodeMeanings(t, as, meaning)) = Len(t)
  /\ \A i \in 1 .. Len(t) : NodeMeanings(t, as, meaning)[i] = NodeMeaning(t[i], as, meaning)

LEMMA NodeMeaningsType ==
  ASSUME NEW d, NEW as \in Arguments, NEW meaning, Means(Trees[d], meaning), NEW t \in Seq(GoodNodes(d))
  PROVE  MeaningsAre(t, as, meaning)
<1>1. PICK n \in Nat : n = Len(t) /\ DOMAIN t = 1 .. n
  BY LenProperties
<1>2. \A i \in 1 .. n : t[i] \in GoodNodes(d)
  BY <1>1, ElementOfSeq
<1>3. \A i \in 1 .. n : NodeMeaning(t[i], as, meaning) \in Seq(Chars)
  BY <1>2, NodeMeaningType
<1>4. PICK ss : ss = [i \in 1 .. n |-> NodeMeaning(t[i], as, meaning)]
  OBVIOUS
<1>5. ss \in Seq(Seq(Chars)) /\ Len(ss) = n
  <2>1. ss \in [1 .. n -> Seq(Chars)]
    BY <1>3, <1>4
  <2> QED
    BY <2>1, SeqOfLength
<1>6. NodeMeanings(t, as, meaning) = ss
  BY <1>1, <1>4, Zenon DEF NodeMeanings
<1> QED
  BY <1>1, <1>4, <1>5, <1>6 DEF MeaningsAre

LEMMA MeaningType ==
  \A d \in Nat : \A as \in Arguments : Means(Trees[d], Meaning[d][as])
<1> DEFINE P == {d \in Nat : \A as \in Arguments : Means(Trees[d], Meaning[d][as])}
<1>1. 0 \in P
  <2>1. \A as \in Arguments : \A u \in Trees[0] : Meaning[0][as][u] = << >>
    BY NoTree
  <2>2. << >> \in Seq(Chars)
    BY EmptySeq
  <2> QED
    BY <2>1, <2>2 DEF Means
<1>2. ASSUME NEW d \in Nat, d \in P PROVE d + 1 \in P
  <2>1. ASSUME NEW as \in Arguments, NEW t \in Trees[d + 1] PROVE Meaning[d + 1][as][t] \in Seq(Chars)
    <3>1. t \in Seq(GoodNodes(d)) /\ Meaning[d + 1][as][t] = FlattenSeq(NodeMeanings(t, as, Meaning[d][as]))
      <4>1. t \in Seq(GoodNodes(d))
        BY TreeStep
      <4>2. Meaning[d + 1][as] = [u \in Trees[d + 1] |-> FlattenSeq(NodeMeanings(u, as, Meaning[d][as]))]
        BY TreeStep, Zenon
      <4> QED
        BY <4>1, <4>2, Zenon
    <3>2. Means(Trees[d], Meaning[d][as])
      BY <1>2
    <3>3. NodeMeanings(t, as, Meaning[d][as]) \in Seq(Seq(Chars))
      BY <3>1, <3>2, NodeMeaningsType DEF MeaningsAre
    <3> QED
      BY <3>1, <3>3, FlattenType
  <2> QED
    BY <2>1 DEF Means
<1>3. \A d \in Nat : d \in P
  <2> HIDE DEF P
  <2> QED
    BY <1>1, <1>2, SetInduction
<1> QED
  BY <1>3

LEMMA TailIs ==
  ASSUME NEW S, NEW a \in Seq(S), NEW b \in Seq(S), a # << >>, Len(a) = Len(b) + 1,
         \A i \in 1 .. Len(b) : b[i] = a[i + 1]
  PROVE  Tail(a) = b
<1>1. PICK n \in Nat : n = Len(b) /\ Len(a) = n + 1
  BY LenProperties
<1>2. Tail(a) \in Seq(S) /\ Len(Tail(a)) = n
  BY <1>1, HeadTailProperties
<1>3. \A i \in 1 .. n : Tail(a)[i] = a[i + 1]
  BY <1>1, HeadTailProperties
<1> QED
  BY <1>1, <1>2, <1>3, SeqEqual

LEMMA FlattenSplit ==
  ASSUME NEW S, NEW a \in Seq(Seq(S)), NEW b \in Seq(Seq(S)), NEW l \in Nat, Len(a) = l + 1, Len(b) = l,
         \A i \in 1 .. l : b[i] = a[i + 1]
  PROVE  FlattenSeq(a) = a[1] \o FlattenSeq(b)
<1>1. a # << >> /\ Head(a) = a[1]
  OBVIOUS
<1>2. Tail(a) = b
  BY <1>1, TailIs
<1> QED
  BY <1>1, <1>2, FlattenCons

(* A tree is its first node, and the tree of the others.                   *)
Split(d, t, c, n, v) ==
  /\ Len(t) = Len(v) + 1 /\ Spell[d][t] = SpellNode(n, Spell[c]) \o Spell[d][v]
  /\ \A as \in Arguments : Meaning[d][as][t] = NodeMeaning(n, as, Meaning[c][as]) \o Meaning[d][as][v]

LEMMA TreeSplit ==
  ASSUME NEW d \in Nat, NEW t \in Trees[d], t # << >>
  PROVE  \E c \in Nat : \E n \in GoodNodes(c), v \in Trees[d] : Split(d, t, c, n, v)
<1>1. d # 0
  BY NoTree
<1>2. PICK c \in Nat : d = c + 1
  <2>1. d - 1 \in Nat /\ d = (d - 1) + 1
    BY <1>1
  <2> QED
    BY <2>1
<1>3. Trees[d] = Seq(GoodNodes(c))
  BY <1>2, TreeStep
<1>4. t \in Seq(GoodNodes(c))
  BY <1>3
<1>5. PICK v \in Seq(GoodNodes(c)), n \in GoodNodes(c) : v = Tail(t) /\ n = t[1]
  <2>1. Head(t) \in GoodNodes(c) /\ Tail(t) \in Seq(GoodNodes(c)) /\ Head(t) = t[1]
    BY <1>4, HeadTailProperties
  <2> QED
    BY <2>1
<1>6. PICK l \in Nat : Len(v) = l /\ Len(t) = l + 1
  <2>1. Len(t) \in Nat /\ Len(v) \in Nat /\ Len(v) = Len(t) - 1 /\ Len(t) # 0
    BY <1>4, <1>5, HeadTailProperties, LenProperties, EmptySeq
  <2> QED
    BY <2>1
<1>7. \A i \in 1 .. l : v[i] = t[i + 1]
  BY <1>4, <1>5, <1>6, HeadTailProperties
<1>8. Spell[d][t] = SpellNode(n, Spell[c]) \o Spell[d][v]
  <2>1. Spells(Trees[c], Spell[c])
    BY SpellType
  <2>2. t \in Seq(Nodes(Trees[c])) /\ v \in Seq(Nodes(Trees[c]))
    BY <1>4, TreeNodes
  <2>3. PICK a \in Seq(Seq(Chars)), b \in Seq(Seq(Chars)) :
          a = NodeTexts(t, Spell[c]) /\ b = NodeTexts(v, Spell[c]) /\ Len(a) = l + 1 /\ Len(b) = l
    BY <1>6, <2>1, <2>2, NodeTextsType
  <2>4. \A i \in 1 .. l + 1 : a[i] = SpellNode(t[i], Spell[c])
    BY <1>6, <2>1, <2>2, <2>3, NodeTextsType
  <2>5. \A i \in 1 .. l : b[i] = SpellNode(v[i], Spell[c])
    <3>1. \A i \in 1 .. Len(v) : NodeTexts(v, Spell[c])[i] = SpellNode(v[i], Spell[c])
      BY <2>1, <2>2, NodeTextsType
    <3> QED
      BY <1>6, <2>3, <3>1, Zenon
  <2>6. \A i \in 1 .. l : b[i] = a[i + 1]
    BY <1>7, <2>4, <2>5
  <2>7. a[1] = SpellNode(n, Spell[c])
    BY <1>5, <2>4
  <2>8. FlattenSeq(a) = a[1] \o FlattenSeq(b)
    BY <2>3, <2>6, FlattenSplit
  <2>9. Spell[d] = [u \in Trees[d] |-> FlattenSeq(NodeTexts(u, Spell[c]))]
    BY <1>2, TreeStep, Zenon
  <2>10. v \in Trees[d]
    BY <1>3, <1>5
  <2>11. Spell[d][t] = FlattenSeq(a) /\ Spell[d][v] = FlattenSeq(b)
    BY <2>3, <2>9, <2>10, Zenon
  <2> QED
    BY <2>7, <2>8, <2>11, Zenon
<1>9. ASSUME NEW as \in Arguments
      PROVE  Meaning[d][as][t] = NodeMeaning(n, as, Meaning[c][as]) \o Meaning[d][as][v]
  <2>1. Means(Trees[c], Meaning[c][as])
    BY MeaningType
  <2>2. PICK a \in Seq(Seq(Chars)) :
          /\ a = NodeMeanings(t, as, Meaning[c][as]) /\ Len(a) = l + 1
          /\ \A i \in 1 .. l + 1 : a[i] = NodeMeaning(t[i], as, Meaning[c][as])
    <3>1. MeaningsAre(t, as, Meaning[c][as])
      BY <1>4, <2>1, NodeMeaningsType, Zenon
    <3> QED
      BY <1>6, <3>1, Zenon DEF MeaningsAre
  <2>3. PICK b \in Seq(Seq(Chars)) :
          /\ b = NodeMeanings(v, as, Meaning[c][as]) /\ Len(b) = l
          /\ \A i \in 1 .. l : b[i] = NodeMeaning(v[i], as, Meaning[c][as])
    <3>1. MeaningsAre(v, as, Meaning[c][as])
      BY <2>1, NodeMeaningsType, Zenon
    <3> QED
      BY <1>6, <3>1, Zenon DEF MeaningsAre
  <2>4. ASSUME NEW i \in 1 .. l PROVE b[i] = a[i + 1]
    <3>1. i + 1 \in 1 .. l + 1
      OBVIOUS
    <3> QED
      BY <1>7, <2>2, <2>3, <3>1, Zenon
  <2>5. a[1] = NodeMeaning(n, as, Meaning[c][as])
    <3>1. 1 \in 1 .. l + 1
      OBVIOUS
    <3> QED
      BY <1>5, <2>2, <3>1, Zenon
  <2>6. FlattenSeq(a) = a[1] \o FlattenSeq(b)
    BY <2>2, <2>3, <2>4, FlattenSplit, Zenon
  <2>7. Meaning[d][as] = [u \in Trees[d] |-> FlattenSeq(NodeMeanings(u, as, Meaning[c][as]))]
    BY <1>2, TreeStep, Zenon
  <2>8. v \in Trees[d]
    BY <1>3, <1>5
  <2>9. Meaning[d][as][t] = FlattenSeq(a) /\ Meaning[d][as][v] = FlattenSeq(b)
    BY <2>2, <2>3, <2>7, <2>8, Zenon
  <2> QED
    BY <2>5, <2>6, <2>9, Zenon
<1>10. Split(d, t, c, n, v)
  BY <1>6, <1>8, <1>9, Zenon DEF Split
<1> QED
  BY <1>3, <1>5, <1>10

LEMMA EmptyTree ==
  ASSUME NEW d \in Nat, << >> \in Trees[d]
  PROVE  Spell[d][<< >>] = << >> /\ \A as \in Arguments : Meaning[d][as][<< >>] = << >>
<1>1. CASE d = 0
  BY <1>1, NoTree
<1>2. CASE d # 0
  <2>1. PICK c \in Nat : d = c + 1
    <3>1. d - 1 \in Nat /\ d = (d - 1) + 1
      BY <1>2
    <3> QED
      BY <3>1
  <2>2. FlattenSeq(<< >>) = << >>
    BY FlattenEmpty
  <2>3. PICK none : none = << >> /\ DOMAIN none = {}
    OBVIOUS
  <2>4. NodeTexts(none, Spell[c]) = << >>
    BY <2>3 DEF NodeTexts
  <2>5. \A as \in Arguments : NodeMeanings(none, as, Meaning[c][as]) = << >>
    BY <2>3 DEF NodeMeanings
  <2>6. Spell[d][none] = FlattenSeq(NodeTexts(none, Spell[c]))
    BY <2>1, <2>3, TreeStep
  <2>7. ASSUME NEW as \in Arguments
        PROVE  Meaning[d][as][none] = FlattenSeq(NodeMeanings(none, as, Meaning[c][as]))
    <3>1. Meaning[d][as] = [u \in Trees[d] |-> FlattenSeq(NodeMeanings(u, as, Meaning[c][as]))]
      BY <2>1, TreeStep
    <3> QED
      BY <2>3, <3>1
  <2> QED
    BY <2>2, <2>3, <2>4, <2>5, <2>6, <2>7
<1> QED
  BY <1>1, <1>2

-----------------------------------------------------------------------------
(* A piece that is still to be formatted: a tree stands there.             *)
PieceSays(str, as, b, e, o) ==
  \E d \in Nat : \E u \in Trees[d] :
    Stands(str, b, Spell[d][u]) /\ e = b + Len(Spell[d][u]) /\ o = Meaning[d][as][u]

(* It begins with a node.                                                  *)
Begins(str, as, b, e, o, c, n, k, r) ==
  /\ Stands(str, b, SpellNode(n, Spell[c])) /\ k = b + Len(SpellNode(n, Spell[c])) /\ b < k /\ k <= e
  /\ PieceSays(str, as, k, e, r) /\ o = NodeMeaning(n, as, Meaning[c][as]) \o r

LEMMA PieceType ==
  ASSUME NEW str \in Seq(Chars), NEW as \in Arguments, NEW b, NEW e, NEW o, PieceSays(str, as, b, e, o)
  PROVE  b \in Nat /\ e \in Nat /\ b <= e /\ b >= 1 /\ e <= Len(str) + 1 /\ o \in Seq(Chars)
<1>01. PICK d \in Nat : \E u \in Trees[d] :
         Stands(str, b, Spell[d][u]) /\ e = b + Len(Spell[d][u]) /\ o = Meaning[d][as][u]
  BY Zenon DEF PieceSays
<1>1. PICK u \in Trees[d] :
        Stands(str, b, Spell[d][u]) /\ e = b + Len(Spell[d][u]) /\ o = Meaning[d][as][u]
  BY <1>01
<1>2. PICK s \in Seq(Chars) : s = Spell[d][u]
  BY SpellType DEF Spells
<1>3. PICK l \in Nat : l = Len(s)
  BY LenProperties
<1>4. b \in Nat /\ b >= 1 /\ b + l <= Len(str) + 1 /\ e = b + l
  BY <1>1, <1>2, <1>3 DEF Stands
<1>5. o \in Seq(Chars)
  BY <1>1, MeaningType DEF Means
<1> QED
  BY <1>4, <1>5

LEMMA PieceSplit ==
  ASSUME NEW str \in Seq(Chars), NEW as \in Arguments, NEW b, NEW e, NEW o, PieceSays(str, as, b, e, o)
  PROVE  /\ b = e => o = << >>
         /\ b # e => \E c \in Nat : \E n \in GoodNodes(c), k \in Nat, r \in Seq(Chars) :
                       Begins(str, as, b, e, o, c, n, k, r)
<1>0. b \in Nat /\ e \in Nat
  BY PieceType
<1>01. PICK d \in Nat : \E u \in Trees[d] :
         Stands(str, b, Spell[d][u]) /\ e = b + Len(Spell[d][u]) /\ o = Meaning[d][as][u]
  BY Zenon DEF PieceSays
<1>1. PICK u \in Trees[d] :
        Stands(str, b, Spell[d][u]) /\ e = b + Len(Spell[d][u]) /\ o = Meaning[d][as][u]
  BY <1>01
<1>2. CASE u = << >>
  <2>1. Spell[d][u] = << >> /\ o = << >>
    BY <1>1, <1>2, EmptyTree, Zenon
  <2>2. Len(<< >>) = 0
    OBVIOUS
  <2>3. b = e
    BY <1>0, <1>1, <2>1, <2>2
  <2> QED
    BY <2>1, <2>3
<1>3. CASE u # << >>
  <2>01. PICK c \in Nat : \E n \in GoodNodes(c), v \in Trees[d] : Split(d, u, c, n, v)
    BY <1>3, TreeSplit
  <2>1. PICK n \in GoodNodes(c), v \in Trees[d] : Split(d, u, c, n, v)
    BY <2>01
  <2>2. /\ Spell[d][u] = SpellNode(n, Spell[c]) \o Spell[d][v]
        /\ Meaning[d][as][u] = NodeMeaning(n, as, Meaning[c][as]) \o Meaning[d][as][v]
    BY <2>1, Zenon DEF Split
  <2>3. n \in Nodes(Trees[c]) /\ Spells(Trees[c], Spell[c])
    BY SpellType DEF GoodNodes
  <2>4. PICK x \in Seq(Chars), y \in Seq(Chars), lx \in Nat \ {0}, ly \in Nat :
          x = SpellNode(n, Spell[c]) /\ y = Spell[d][v] /\ lx = Len(x) /\ ly = Len(y)
    <3>1. SpellNode(n, Spell[c]) \in Seq(Chars) /\ Len(SpellNode(n, Spell[c])) \in Nat \ {0}
      BY <2>3, SpellNodeType
    <3>2. Spell[d][v] \in Seq(Chars)
      BY SpellType DEF Spells
    <3>3. Len(Spell[d][v]) \in Nat
      BY <3>2, LenProperties
    <3> QED
      BY <3>1, <3>2, <3>3
  <2>5. Stands(str, b, x) /\ Stands(str, b + lx, y) /\ Len(x \o y) = lx + ly
    BY <1>1, <2>2, <2>4, StandsConcat, ConcatType
  <2>6. PICK k \in Nat : k = b + lx /\ b < k /\ k <= e /\ e = k + ly
    <3>1. e = b + (lx + ly)
      BY <1>1, <2>2, <2>4, <2>5, Zenon
    <3>2. b + lx \in Nat /\ b < b + lx /\ b + lx <= e /\ e = b + lx + ly
      BY <1>0, <3>1
    <3> QED
      BY <3>2
  <2>7. PICK r \in Seq(Chars) : r = Meaning[d][as][v]
    BY MeaningType DEF Means
  <2>8. PieceSays(str, as, k, e, r)
    BY <2>4, <2>5, <2>6, <2>7, Zenon DEF PieceSays
  <2>9. Begins(str, as, b, e, o, c, n, k, r)
    BY <1>1, <2>2, <2>4, <2>5, <2>6, <2>7, <2>8, Zenon DEF Begins
  <2>10. b # e
    BY <1>0, <2>6
  <2> QED
    BY <2>9, <2>10, Zenon
<1> QED
  BY <1>2, <1>3

(* Which node it is can be told from the first characters.                 *)
NodeStart(str, b, n, k) ==
  /\ n.node = "text" => str[b] = n.word /\ str[b] # "%" /\ k = b + 1
  /\ n.node # "text" => str[b] = "%"
  /\ str[b] = "%" /\ ispunct(str[b + 1]) => n.node = "escape" /\ str[b + 1] = n.word /\ k = b + 2
  /\ str[b] = "%" /\ isdigit(str[b + 1]) =>
       n.node = "argument" /\ str[b + 1] = DigitChars[n.arg + 1] /\ k = b + 2
  /\ str[b] = "%" /\ str[b + 1] \in Modifiers => n.node = str[b + 1]
  /\ n.node \in {"s", "ordinal"} => str[b + 2] = DigitChars[n.arg + 1] /\ str[b + 2] # OpenBrace /\ k = b + 3

LEMMA NodeStarts ==
  ASSUME NEW str \in Seq(Chars), NEW trees, NEW sp, Spells(trees, sp), NEW n \in Nodes(trees), NEW b,
         Stands(str, b, SpellNode(n, sp)), NEW k, k = b + Len(SpellNode(n, sp))
  PROVE  NodeStart(str, b, n, k)
<1>1. SimpleAt(str, b, n, sp)
  BY SimpleStands
<1>2. CASE n.node = "text"
  <2>1. str[b] = n.word /\ n.word \in Words /\ Len(SpellNode(n, sp)) = 1
    BY <1>1, <1>2, NodeCases DEF SimpleAt
  <2>2. n.word # "%"
    BY <2>1, PunctuationIs
  <2> QED
    BY <1>2, <2>1, <2>2, Zenon DEF NodeStart
<1>3. CASE n.node = "escape"
  <2>1. str[b] = "%" /\ str[b + 1] = n.word /\ n.word \in Punctuation /\ Len(SpellNode(n, sp)) = 2
    BY <1>1, <1>3, NodeCases DEF SimpleAt
  <2>2. ~isdigit(str[b + 1]) /\ str[b + 1] \notin Modifiers
    BY <2>1, DigitsAre, DigitIs, PunctuationIs
  <2> QED
    BY <1>3, <2>1, <2>2, Zenon DEF NodeStart
<1>4. CASE n.node = "argument"
  <2>1. str[b] = "%" /\ str[b + 1] = DigitChars[n.arg + 1] /\ n.arg \in 0 .. 9 /\ Len(SpellNode(n, sp)) = 2
    BY <1>1, <1>4, NodeCases DEF SimpleAt
  <2>2. DigitChars[n.arg + 1] \in Digits
    BY <2>1, DigitsAre
  <2>3. ~ispunct(str[b + 1]) /\ str[b + 1] \notin Modifiers
    BY <2>1, <2>2, DigitIs
  <2> QED
    BY <1>4, <2>1, <2>3, Zenon DEF NodeStart
<1>5. CASE n.node \in {"s", "ordinal"}
  <2>1. /\ str[b] = "%" /\ str[b + 1] = n.node /\ str[b + 2] = DigitChars[n.arg + 1] /\ n.arg \in 0 .. 9
        /\ Len(SpellNode(n, sp)) = 3
    BY <1>1, <1>5, NodeCases DEF SimpleAt
  <2>2. DigitChars[n.arg + 1] \in Digits
    BY <2>1, DigitsAre
  <2>3. str[b + 1] \in Modifiers
    BY <1>5, <2>1 DEF Modifiers
  <2>4. ~ispunct(str[b + 1]) /\ ~isdigit(str[b + 1])
    BY <2>3, PunctuationIs
  <2>5. str[b + 2] # OpenBrace
    BY <2>1, <2>2, CharsDiffer
  <2> QED
    BY <1>5, <2>1, <2>4, <2>5, Zenon DEF NodeStart
<1>6. CASE n.node \in {"select", "plural"}
  <2>1. n.arg \in 0 .. 9 /\ n.node \in Modifiers
    BY <1>6, NodeCases DEF Modifiers
  <2>2. PICK inside \in Seq(Chars) : SpellNode(n, sp) = Braced(n.node, inside, n.arg)
    <3>1. CASE n.node = "select"
      <4>1. n.options \in Seq(trees)
        BY <3>1, NodeCases
      <4>2. Joined(SpelledOptions(n, sp), "|") \in Seq(Chars)
        BY <4>1, CharsAre, SpelledOptionsType, JoinedType
      <4> QED
        BY <3>1, <4>2, SpellNodeIs
    <3>2. CASE n.node = "plural"
      <4>1. n.options \in Seq(PluralForms(trees))
        BY <3>2, NodeCases
      <4>2. Joined(SpelledForms(n, sp), "|") \in Seq(Chars)
        BY <4>1, CharsAre, SpelledFormsType, JoinedType
      <4> QED
        BY <3>2, <4>2, SpellNodeIs
    <3> QED
      BY <1>6, <3>1, <3>2
  <2>3. BracedAt(str, b, n.node, inside, n.arg, Len(inside))
    BY <2>1, <2>2, BracedStands
  <2>4. str[b] = "%" /\ str[b + 1] = n.node
    BY <2>3 DEF BracedAt
  <2>5. ~ispunct(str[b + 1]) /\ ~isdigit(str[b + 1])
    BY <2>1, <2>4, PunctuationIs
  <2> QED
    BY <1>6, <2>4, <2>5, Zenon DEF NodeStart
<1> QED
  BY <1>2, <1>3, <1>4, <1>5, <1>6, NodeCases

(* SubSeq, from its first element on.                                      *)
LEMMA SubSeqFirst ==
  ASSUME NEW S, NEW s \in Seq(S), NEW b \in Nat, NEW q \in Nat, 1 <= b, b < q, q <= Len(s) + 1
  PROVE  SubSeq(s, b, q - 1) = <<s[b]>> \o SubSeq(s, b + 1, q - 1)
<1>1. b \in 1 .. Len(s) /\ q - 1 \in b .. Len(s)
  BY LenProperties
<1> QED
  BY <1>1, SubSeqRecursiveFirst

LEMMA SubSeqType ==
  ASSUME NEW S, NEW s \in Seq(S), NEW b \in Nat, NEW q \in Nat, 1 <= b, b <= q, q <= Len(s) + 1
  PROVE  SubSeq(s, b, q - 1) \in Seq(S) /\ SubSeq(s, b, b - 1) = << >>
OBVIOUS

(* The text in front of the next percent sign, and what is said after it.  *)
Copied(str, as, b, e, o, q, r) ==
  q = Find(str, b, e, "%") /\ b <= q /\ q <= e /\ PieceSays(str, as, q, e, r) /\ o = SubSeq(str, b, q - 1) \o r

LEMMA CopyStands ==
  ASSUME NEW str \in Seq(Chars), NEW as \in Arguments, NEW e \in Nat
  PROVE  \A b, o : PieceSays(str, as, b, e, o) =>
           \E q \in Nat, r \in Seq(Chars) : Copied(str, as, b, e, o, q, r)
<1> DEFINE P == {m \in Nat : \A b, o : PieceSays(str, as, b, e, o) /\ e = b + m =>
                   \E q \in Nat, r \in Seq(Chars) : Copied(str, as, b, e, o, q, r)}
<1>1. ASSUME NEW b, NEW o, PieceSays(str, as, b, e, o), Find(str, b, e, "%") = b
      PROVE  \E q \in Nat, r \in Seq(Chars) : Copied(str, as, b, e, o, q, r)
  <2>0. b \in Nat /\ b <= e /\ b >= 1 /\ e <= Len(str) + 1 /\ o \in Seq(Chars)
    BY <1>1, PieceType
  <2>1. b \in Nat /\ b <= e /\ b >= 1 /\ e <= Len(str) + 1 /\ o \in Seq(Chars) /\ b <= b
    BY <2>0
  <2>2. Len(str) \in Nat
    BY LenProperties
  <2>3. SubSeq(str, b, b - 1) = << >>
    BY <2>1, <2>2, SubSeqType
  <2>4. << >> \o o = o
    BY <2>1
  <2>5. Copied(str, as, b, e, o, b, o)
    BY <1>1, <2>1, <2>3, <2>4, Zenon DEF Copied
  <2> QED
    BY <2>1, <2>5
<1>2. 0 \in P
  <2> SUFFICES ASSUME NEW b, NEW o, PieceSays(str, as, b, e, o), e = b + 0
               PROVE  \E q \in Nat, r \in Seq(Chars) : Copied(str, as, b, e, o, q, r)
    OBVIOUS
  <2>0. b \in Nat
    BY PieceType
  <2>1. b \in Nat /\ b = e /\ b >= e
    BY <2>0
  <2>2. Find(str, b, e, "%") = b
    BY <2>1, FindBehind
  <2> QED
    BY <1>1, <2>2
<1>3. ASSUME NEW m \in Nat, m \in P PROVE m + 1 \in P
  <2>0. m + 1 \in Nat
    OBVIOUS
  <2> SUFFICES ASSUME NEW b, NEW o, PieceSays(str, as, b, e, o), e = b + (m + 1)
               PROVE  \E q \in Nat, r \in Seq(Chars) : Copied(str, as, b, e, o, q, r)
    BY <2>0, Zenon
  <2>1. b \in Nat /\ b <= e /\ b >= 1 /\ e <= Len(str) + 1 /\ o \in Seq(Chars)
    BY PieceType
  <2>2. b # e
    BY <2>1
  <2>3. CASE str[b] = "%"
    <3>1. \A j \in b .. b - 1 : str[j] # "%"
      BY <2>1
    <3>2. b <= b
      BY <2>1
    <3>3. Find(str, b, e, "%") = b
      BY <2>1, <2>3, <3>1, <3>2, FindFirst
    <3> QED
      BY <1>1, <3>3
  <2>4. CASE str[b] # "%"
    <3>1. PICK c \in Nat : \E n \in GoodNodes(c), k \in Nat, r \in Seq(Chars) : Begins(str, as, b, e, o, c, n, k, r)
      BY <2>2, PieceSplit
    <3>2. PICK n \in GoodNodes(c), k \in Nat, r \in Seq(Chars) : Begins(str, as, b, e, o, c, n, k, r)
      BY <3>1
    <3>3. /\ Stands(str, b, SpellNode(n, Spell[c])) /\ k = b + Len(SpellNode(n, Spell[c])) /\ b < k /\ k <= e
          /\ PieceSays(str, as, k, e, r) /\ o = NodeMeaning(n, as, Meaning[c][as]) \o r
      BY <3>2, Zenon DEF Begins
    <3>4. n \in Nodes(Trees[c]) /\ Spells(Trees[c], Spell[c])
      BY SpellType DEF GoodNodes
    <3>5. NodeStart(str, b, n, k)
      BY <3>3, <3>4, NodeStarts
    <3>6. n.node = "text" /\ str[b] = n.word /\ k = b + 1
      BY <2>4, <3>5, Zenon DEF NodeStart
    <3>7. o = <<str[b]>> \o r
      BY <3>3, <3>6, NodeMeaningIs, Zenon
    <3>8. e = k + m
      BY <2>1, <3>6
    <3>9. PICK q \in Nat, x \in Seq(Chars) : Copied(str, as, k, e, r, q, x)
      BY <1>3, <3>3, <3>8
    <3>10. q = Find(str, k, e, "%") /\ k <= q /\ q <= e /\ PieceSays(str, as, q, e, x) /\ r = SubSeq(str, k, q - 1) \o x
      BY <3>9, Zenon DEF Copied
    <3>11. Find(str, b, e, "%") = q
      <4>1. {i \in b .. e - 1 : str[i] = "%"} = {i \in k .. e - 1 : str[i] = "%"}
        BY <2>1, <2>4, <3>6
      <4> QED
        BY <3>10, <4>1, Zenon DEF Find
    <3>12. b <= q /\ b < q /\ q <= Len(str) + 1
      <4>1. Len(str) \in Nat
        BY LenProperties
      <4> QED
        BY <2>1, <3>6, <3>10, <4>1
    <3>13. SubSeq(str, b, q - 1) = <<str[b]>> \o SubSeq(str, k, q - 1)
      BY <2>1, <3>6, <3>12, SubSeqFirst
    <3>14. SubSeq(str, k, q - 1) \in Seq(Chars) /\ <<str[b]>> \in Seq(Chars)
      <4>1. 1 <= k
        BY <2>1, <3>6
      <4>2. str[b] \in Chars
        BY <2>1, <3>12, ElementOfSeq
      <4> QED
        BY <3>10, <3>12, <4>1, <4>2, SubSeqType, OneChar
    <3>15. o = SubSeq(str, b, q - 1) \o x
      <4>1. (<<str[b]>> \o SubSeq(str, k, q - 1)) \o x = <<str[b]>> \o (SubSeq(str, k, q - 1) \o x)
        BY <3>14, Regrouped
      <4> QED
        BY <3>7, <3>10, <3>13, <4>1, Zenon
    <3>16. Copied(str, as, b, e, o, q, x)
      BY <3>10, <3>11, <3>12, <3>15, Zenon DEF Copied
    <3> QED
      BY <3>16
  <2> QED
    BY <2>3, <2>4
<1>4. \A m \in Nat : m \in P
  <2> HIDE DEF P
  <2> QED
    BY <1>2, <1>3, SetInduction
<1> SUFFICES ASSUME NEW b, NEW o, PieceSays(str, as, b, e, o)
             PROVE  \E q \in Nat, r \in Seq(Chars) : Copied(str, as, b, e, o, q, r)
  OBVIOUS
<1>5. b \in Nat /\ b <= e
  BY PieceType
<1>6. e - b \in Nat /\ e = b + (e - b)
  BY <1>5
<1>7. e - b \in P
  BY <1>4, <1>6
<1> QED
  BY <1>6, <1>7

-----------------------------------------------------------------------------
(* All pieces that are still to be formatted.                              *)
Calls == [DiagStr : Nat, DiagEnd : Nat]

SaysEach(str, as, pcs, outs) ==
  Len(outs) = Len(pcs)
  /\ \A i \in 1 .. Len(pcs) : PieceSays(str, as, pcs[i].DiagStr, pcs[i].DiagEnd, outs[i])
Says(str, as, pcs, r) == \E outs \in Seq(Seq(Chars)) : SaysEach(str, as, pcs, outs) /\ r = FlattenSeq(outs)

LEMMA SaysNone ==
  ASSUME NEW str, NEW as
  PROVE  Says(str, as, << >>, << >>) /\ \A r : Says(str, as, << >>, r) => r = << >>
<1>1. << >> \in Seq(Seq(Chars)) /\ Len(<< >>) = 0 /\ FlattenSeq(<< >>) = << >>
  BY FlattenEmpty
<1>2. PICK none : none = << >> /\ none \in Seq(Seq(Chars)) /\ Len(none) = 0 /\ FlattenSeq(none) = << >>
  BY <1>1
<1>3. SaysEach(str, as, none, none)
  BY <1>2 DEF SaysEach
<1>4. Says(str, as, none, none)
  BY <1>2, <1>3, Zenon DEF Says
<1>5. ASSUME NEW r, Says(str, as, none, r) PROVE r = none
  <2>1. PICK outs \in Seq(Seq(Chars)) : SaysEach(str, as, none, outs) /\ r = FlattenSeq(outs)
    BY <1>5, Zenon DEF Says
  <2>2. Len(outs) = 0
    BY <1>2, <2>1, Zenon DEF SaysEach
  <2>3. outs = << >>
    BY <2>2, EmptySeq
  <2> QED
    BY <1>2, <2>1, <2>3
<1> QED
  BY <1>2, <1>4, <1>5

(* q is s with x in front of it. *)
ConsAt(x, s, q, l) == q = <<x>> \o s /\ Len(q) = l + 1 /\ q[1] = x /\ \A i \in 1 .. l : s[i] = q[i + 1]

LEMMA ConsIs ==
  ASSUME NEW S, NEW x \in S, NEW s \in Seq(S), NEW l \in Nat, Len(s) = l
  PROVE  \E q \in Seq(S) : ConsAt(x, s, q, l)
<1>0. <<x>> \in Seq(S) /\ Len(<<x>>) = 1 /\ <<x>>[1] = x
  OBVIOUS
<1>1. PICK a \in Seq(S) : a = <<x>> /\ Len(a) = 1 /\ a[1] = x
  BY <1>0, Zenon
<1>20. a \o s \in Seq(S)
  OBVIOUS
<1>2. PICK q \in Seq(S) : q = a \o s
  BY <1>20, Zenon
<1>3. Len(q) = l + 1 /\ q[1] = x /\ \A i \in 1 .. l : s[i] = q[i + 1]
  BY <1>1, <1>2
<1> QED
  BY <1>1, <1>2, <1>3, Zenon DEF ConsAt

(* q is s without its first element. *)
RestAt(s, q, l) == q = Tail(s) /\ Len(q) = l /\ \A i \in 1 .. l : q[i] = s[i + 1]

LEMMA RestIs ==
  ASSUME NEW S, NEW s \in Seq(S), NEW l \in Nat, Len(s) = l + 1
  PROVE  \E q \in Seq(S) : RestAt(s, q, l)
<1>1. s # << >>
  OBVIOUS
<1>2. Tail(s) \in Seq(S) /\ Len(Tail(s)) = l /\ \A i \in 1 .. Len(Tail(s)) : Tail(s)[i] = s[i + 1]
  BY <1>1, HeadTailProperties
<1> QED
  BY <1>2, Zenon DEF RestAt

(* The first piece says o, the others s.                                   *)
SaysFirst(str, as, pcs, r, o, s) ==
  /\ PieceSays(str, as, Head(pcs).DiagStr, Head(pcs).DiagEnd, o)
  /\ Says(str, as, Tail(pcs), s) /\ r = o \o s

LEMMA SaysSplit ==
  ASSUME NEW str \in Seq(Chars), NEW as \in Arguments, NEW pcs \in Seq(Calls), pcs # << >>, NEW r, Says(str, as, pcs, r)
  PROVE  \E o \in Seq(Chars), s \in Seq(Chars) : SaysFirst(str, as, pcs, r, o, s)
<1>1. PICK outs \in Seq(Seq(Chars)) : SaysEach(str, as, pcs, outs) /\ r = FlattenSeq(outs)
  BY Zenon DEF Says
<1>2. Len(outs) = Len(pcs)
      /\ \A i \in 1 .. Len(pcs) : PieceSays(str, as, pcs[i].DiagStr, pcs[i].DiagEnd, outs[i])
  BY <1>1, Zenon DEF SaysEach
<1>3. PICK l \in Nat : Len(pcs) = l + 1 /\ Len(outs) = l + 1
  <2>1. Len(pcs) \in Nat /\ Len(pcs) # 0
    BY LenProperties, EmptySeq
  <2>2. Len(pcs) - 1 \in Nat /\ Len(pcs) = (Len(pcs) - 1) + 1
    BY <2>1
  <2> QED
    BY <1>2, <2>2
<1>4. outs # << >>
  BY <1>3
<1>50. PICK q \in Seq(Seq(Chars)) : RestAt(outs, q, l)
  BY <1>3, RestIs
<1>5. q = Tail(outs) /\ Len(q) = l /\ \A i \in 1 .. l : q[i] = outs[i + 1]
  BY <1>50, Zenon DEF RestAt
<1>60. PICK t \in Seq(Calls) : RestAt(pcs, t, l)
  BY <1>3, RestIs
<1>6. t = Tail(pcs) /\ Len(t) = l /\ \A i \in 1 .. l : t[i] = pcs[i + 1]
  BY <1>60, Zenon DEF RestAt
<1>7. ASSUME NEW i \in 1 .. l PROVE PieceSays(str, as, t[i].DiagStr, t[i].DiagEnd, q[i])
  <2>1. i + 1 \in 1 .. l + 1
    OBVIOUS
  <2>2. PieceSays(str, as, pcs[i + 1].DiagStr, pcs[i + 1].DiagEnd, outs[i + 1])
    BY <1>2, <1>3, <2>1, Zenon
  <2> QED
    BY <1>5, <1>6, <2>2, Zenon
<1>8. Says(str, as, t, FlattenSeq(q))
  <2>1. SaysEach(str, as, t, q)
    BY <1>5, <1>6, <1>7, Zenon DEF SaysEach
  <2> QED
    BY <2>1, Zenon DEF Says
<1>9. FlattenSeq(outs) = outs[1] \o FlattenSeq(q)
  BY <1>3, <1>5, FlattenSplit
<1>10. Head(pcs) = pcs[1] /\ 1 \in 1 .. l + 1 /\ outs[1] \in Seq(Chars) /\ FlattenSeq(q) \in Seq(Chars)
  BY <1>3, FlattenType, ElementOfSeq
<1>11. PieceSays(str, as, pcs[1].DiagStr, pcs[1].DiagEnd, outs[1])
  BY <1>2, <1>3, <1>10, Zenon
<1>12. SaysFirst(str, as, pcs, r, outs[1], FlattenSeq(q))
  BY <1>1, <1>6, <1>8, <1>9, <1>10, <1>11, Zenon DEF SaysFirst
<1> QED
  BY <1>10, <1>12, Zenon

LEMMA SaysCons ==
  ASSUME NEW str, NEW as, NEW pcs \in Seq(Calls), NEW b \in Nat, NEW e \in Nat, NEW o \in Seq(Chars),
         PieceSays(str, as, b, e, o), NEW s, Says(str, as, pcs, s)
  PROVE  /\ <<[DiagStr |-> b, DiagEnd |-> e]>> \o pcs \in Seq(Calls)
         /\ Says(str, as, <<[DiagStr |-> b, DiagEnd |-> e]>> \o pcs, o \o s)
<1>1. PICK outs \in Seq(Seq(Chars)) : SaysEach(str, as, pcs, outs) /\ s = FlattenSeq(outs)
  BY Zenon DEF Says
<1>2. Len(outs) = Len(pcs)
      /\ \A i \in 1 .. Len(pcs) : PieceSays(str, as, pcs[i].DiagStr, pcs[i].DiagEnd, outs[i])
  BY <1>1, Zenon DEF SaysEach
<1>3. PICK l \in Nat : Len(pcs) = l /\ Len(outs) = l
  BY <1>2, LenProperties
<1>4. PICK p \in Calls : p = [DiagStr |-> b, DiagEnd |-> e] /\ p.DiagStr = b /\ p.DiagEnd = e
  <2>1. [DiagStr |-> b, DiagEnd |-> e] \in Calls
    BY DEF Calls
  <2> QED
    BY <2>1, Zenon
<1>50. PICK q \in Seq(Seq(Chars)) : ConsAt(o, outs, q, l)
  BY <1>3, ConsIs
<1>5. q = <<o>> \o outs /\ Len(q) = l + 1 /\ q[1] = o /\ \A i \in 1 .. l : outs[i] = q[i + 1]
  BY <1>50, Zenon DEF ConsAt
<1>60. PICK t \in Seq(Calls) : ConsAt(p, pcs, t, l)
  BY <1>3, ConsIs
<1>6. t = <<p>> \o pcs /\ Len(t) = l + 1 /\ t[1] = p /\ \A i \in 1 .. l : pcs[i] = t[i + 1]
  BY <1>60, Zenon DEF ConsAt
<1>7. ASSUME NEW i \in 1 .. l + 1 PROVE PieceSays(str, as, t[i].DiagStr, t[i].DiagEnd, q[i])
  <2>1. CASE i = 1
    BY <1>4, <1>5, <1>6, <2>1, Zenon
  <2>2. CASE i # 1
    <3>1. PICK j \in 1 .. l : i = j + 1
      <4>1. i - 1 \in 1 .. l /\ i = (i - 1) + 1
        BY <2>2
      <4> QED
        BY <4>1
    <3>2. PieceSays(str, as, pcs[j].DiagStr, pcs[j].DiagEnd, outs[j])
      BY <1>2, <1>3, Zenon
    <3> QED
      BY <1>5, <1>6, <3>1, <3>2, Zenon
  <2> QED
    BY <2>1, <2>2
<1>8. SaysEach(str, as, t, q)
  BY <1>5, <1>6, <1>7, Zenon DEF SaysEach
<1>9. FlattenSeq(q) = o \o s
  <2>1. FlattenSeq(q) = q[1] \o FlattenSeq(outs)
    BY <1>3, <1>5, FlattenSplit
  <2> QED
    BY <1>1, <1>5, <2>1, Zenon
<1>10. Says(str, as, t, o \o s)
  BY <1>8, <1>9, Zenon DEF Says
<1> QED
  BY <1>4, <1>6, <1>10, Zenon

-----------------------------------------------------------------------------
(* The inductive invariant: what was said, followed by what the pieces say *)
(* that are still to be formatted, is what the description means.          *)
Whole == Meaning[MaxNesting][args][tree]
Holds(pcs, out) ==
  /\ pcs \in Seq(Calls) /\ out \in Seq(Chars)
  /\ \E r \in Seq(Chars) : Says(Diag, args, pcs, r) /\ out \o r = Whole
SaysTheRest == Diag \in Seq(Chars) /\ args \in Arguments /\ Holds(pieces, OutStr)

(* The innermost piece says o, the ones it returns to say s.               *)
TopIs(b, e, o, s) ==
  /\ Piece.DiagStr = b /\ Piece.DiagEnd = e /\ Tail(pieces) \in Seq(Calls)
  /\ PieceSays(Diag, args, b, e, o) /\ Says(Diag, args, Tail(pieces), s) /\ OutStr \o (o \o s) = Whole

LEMMA TopPiece ==
  ASSUME SaysTheRest, pieces # << >>
  PROVE  \E b \in Nat, e \in Nat : \E o \in Seq(Chars), s \in Seq(Chars) : TopIs(b, e, o, s)
<1>1. Diag \in Seq(Chars) /\ args \in Arguments /\ pieces \in Seq(Calls)
  BY Zenon DEF SaysTheRest, Holds
<1>2. PICK r \in Seq(Chars) : Says(Diag, args, pieces, r) /\ OutStr \o r = Whole
  BY Zenon DEF SaysTheRest, Holds
<1>3. PICK o \in Seq(Chars), s \in Seq(Chars) : SaysFirst(Diag, args, pieces, r, o, s)
  BY <1>1, <1>2, SaysSplit
<1>30. /\ PieceSays(Diag, args, Head(pieces).DiagStr, Head(pieces).DiagEnd, o)
       /\ Says(Diag, args, Tail(pieces), s) /\ r = o \o s
  BY <1>3, Zenon DEF SaysFirst
<1>4. Head(pieces) \in Calls /\ Tail(pieces) \in Seq(Calls)
  BY <1>1
<1>5. Piece.DiagStr \in Nat /\ Piece.DiagEnd \in Nat
  BY <1>4 DEF Piece, Calls
<1>6. OutStr \o (o \o s) = Whole
  BY <1>2, <1>30, Zenon
<1>7. PieceSays(Diag, args, Piece.DiagStr, Piece.DiagEnd, o)
  BY <1>30, Zenon DEF Piece
<1>8. TopIs(Piece.DiagStr, Piece.DiagEnd, o, s)
  BY <1>30, <1>4, <1>6, <1>7, Zenon DEF TopIs
<1> QED
  BY <1>5, <1>8, Zenon

LEMMA GoOnIs ==
  ASSUME SaysTheRest, pieces # << >>, NEW b, NEW e, NEW o, NEW s, TopIs(b, e, o, s), NEW k
  PROVE  GoOnAt(k) = <<[DiagStr |-> k, DiagEnd |-> e]>> \o Tail(pieces)
<1>1. pieces \in Seq(Calls)
  BY Zenon DEF SaysTheRest, Holds
<1>2. Piece \in [DiagStr : Nat, DiagEnd : Nat]
  <2>1. Head(pieces) \in Calls
    BY <1>1
  <2> QED
    BY <2>1, Zenon DEF Calls, Piece
<1>3. Piece.DiagEnd = e
  BY Zenon DEF TopIs
<1>4. [Piece EXCEPT !.DiagStr = k] = [DiagStr |-> k, DiagEnd |-> e]
  BY <1>2, <1>3
<1> QED
  BY <1>4, Zenon DEF GoOnAt

Grouped(u, v, w) == (u \o v) \o w = u \o (v \o w)

LEMMA GroupsAgree ==
  ASSUME NEW u \in Seq(Chars), NEW v \in Seq(Chars), NEW w \in Seq(Chars)
  PROVE  Grouped(u, v, w)
BY ConcatAssociative DEF Grouped

(* The piece has said x and goes on at k.                                  *)
LEMMA WentOn ==
  ASSUME SaysTheRest, NEW b \in Nat, NEW e \in Nat, NEW o \in Seq(Chars), NEW s \in Seq(Chars), TopIs(b, e, o, s),
         NEW k \in Nat, NEW x \in Seq(Chars), NEW r \in Seq(Chars), o = x \o r, PieceSays(Diag, args, k, e, r)
  PROVE  Holds(<<[DiagStr |-> k, DiagEnd |-> e]>> \o Tail(pieces), OutStr \o x)
<1>1. OutStr \in Seq(Chars) /\ Tail(pieces) \in Seq(Calls) /\ Says(Diag, args, Tail(pieces), s)
      /\ OutStr \o (o \o s) = Whole
  BY Zenon DEF SaysTheRest, Holds, TopIs
<1>2. /\ <<[DiagStr |-> k, DiagEnd |-> e]>> \o Tail(pieces) \in Seq(Calls)
      /\ Says(Diag, args, <<[DiagStr |-> k, DiagEnd |-> e]>> \o Tail(pieces), r \o s)
  BY <1>1, SaysCons
<1>3. r \o s \in Seq(Chars) /\ OutStr \o x \in Seq(Chars)
  BY <1>1, ConcatType
<1>4. (OutStr \o x) \o (r \o s) = OutStr \o (x \o (r \o s))
  <2>1. PICK y \in Seq(Chars) : y = r \o s
    BY <1>3, Zenon
  <2>2. Grouped(OutStr, x, y)
    BY <1>1, GroupsAgree, Zenon
  <2> QED
    BY <2>1, <2>2, Zenon DEF Grouped
<1>5. (x \o r) \o s = x \o (r \o s)
  <2>1. Grouped(x, r, s)
    BY GroupsAgree, Zenon
  <2> QED
    BY <2>1, Zenon DEF Grouped
<1>6. (OutStr \o x) \o (r \o s) = Whole
  BY <1>1, <1>4, <1>5, Zenon
<1> QED
  BY <1>2, <1>3, <1>6, Zenon DEF Holds

(* The piece calls for an option that says x; it will go on at k.          *)
LEMMA WentInto ==
  ASSUME SaysTheRest, NEW b \in Nat, NEW e \in Nat, NEW o \in Seq(Chars), NEW s \in Seq(Chars), TopIs(b, e, o, s),
         NEW k \in Nat, NEW x \in Seq(Chars), NEW r \in Seq(Chars), o = x \o r, PieceSays(Diag, args, k, e, r),
         NEW p \in Nat, NEW q \in Nat, PieceSays(Diag, args, p, q, x)
  PROVE  Holds(<<[DiagStr |-> p, DiagEnd |-> q]>> \o (<<[DiagStr |-> k, DiagEnd |-> e]>> \o Tail(pieces)), OutStr)
<1>1. OutStr \in Seq(Chars) /\ Tail(pieces) \in Seq(Calls) /\ Says(Diag, args, Tail(pieces), s)
      /\ OutStr \o (o \o s) = Whole
  BY Zenon DEF SaysTheRest, Holds, TopIs
<1>2. PICK on \in Seq(Calls) : on = <<[DiagStr |-> k, DiagEnd |-> e]>> \o Tail(pieces)
                               /\ Says(Diag, args, on, r \o s)
  <2>1. /\ <<[DiagStr |-> k, DiagEnd |-> e]>> \o Tail(pieces) \in Seq(Calls)
        /\ Says(Diag, args, <<[DiagStr |-> k, DiagEnd |-> e]>> \o Tail(pieces), r \o s)
    BY <1>1, SaysCons
  <2> QED
    BY <2>1, Zenon
<1>3. /\ <<[DiagStr |-> p, DiagEnd |-> q]>> \o on \in Seq(Calls)
      /\ Says(Diag, args, <<[DiagStr |-> p, DiagEnd |-> q]>> \o on, x \o (r \o s))
  BY <1>2, SaysCons
<1>4. r \o s \in Seq(Chars) /\ x \o (r \o s) \in Seq(Chars)
  BY ConcatType
<1>5. (x \o r) \o s = x \o (r \o s)
  <2>1. Grouped(x, r, s)
    BY GroupsAgree, Zenon
  <2> QED
    BY <2>1, Zenon DEF Grouped
<1>6. OutStr \o (x \o (r \o s)) = Whole
  BY <1>1, <1>5, Zenon
<1> QED
  BY <1>1, <1>2, <1>3, <1>4, <1>6, Zenon DEF Holds

LEMMA InitSays ==
  ASSUME FormattingInit
  PROVE  SaysTheRest
<1>1. tree \in Trees[MaxNesting] /\ MaxNesting \in Nat /\ args \in Arguments
  BY DescriptionsAssumption DEF FormattingInit
<1>2. Diag = Spell[MaxNesting][tree] /\ OutStr = << >>
      /\ pieces = <<[DiagStr |-> 1, DiagEnd |-> Len(Diag) + 1]>>
  BY Zenon DEF FormattingInit
<1>3. Diag \in Seq(Chars)
  BY <1>1, <1>2, SpellType, Zenon DEF Spells
<1>4. Whole \in Seq(Chars)
  BY <1>1, MeaningType, Zenon DEF Means, Whole
<1>5. Stands(Diag, 1, Diag)
  BY <1>3, StandsWhole
<1>6. PICK e \in Nat : e = Len(Diag) + 1 /\ e = 1 + Len(Diag)
  <2>1. Len(Diag) + 1 \in Nat /\ Len(Diag) + 1 = 1 + Len(Diag)
    BY <1>3
  <2> QED
    BY <2>1
<1>7. PieceSays(Diag, args, 1, e, Whole)
  BY <1>1, <1>2, <1>5, <1>6, Zenon DEF PieceSays, Whole
<1>8. Says(Diag, args, << >>, << >>) /\ << >> \in Seq(Calls)
  BY SaysNone
<1>9. PICK none : none = << >> /\ none \in Seq(Calls) /\ none \in Seq(Chars) /\ Says(Diag, args, none, none)
  <2>1. << >> \in Seq(Chars)
    OBVIOUS
  <2> QED
    BY <1>8, <2>1
<1>10. /\ <<[DiagStr |-> 1, DiagEnd |-> e]>> \o none \in Seq(Calls)
       /\ Says(Diag, args, <<[DiagStr |-> 1, DiagEnd |-> e]>> \o none, Whole \o none)
  <2>1. 1 \in Nat
    OBVIOUS
  <2> QED
    BY <1>4, <1>6, <1>7, <1>9, <2>1, SaysCons
<1>11. <<[DiagStr |-> 1, DiagEnd |-> e]>> \o none = pieces /\ Whole \o none = Whole /\ OutStr \o Whole = Whole
  BY <1>2, <1>4, <1>6, <1>9
<1>12. OutStr \in Seq(Chars) /\ pieces \in Seq(Calls) /\ Says(Diag, args, pieces, Whole)
  BY <1>2, <1>9, <1>10, <1>11, Zenon
<1> QED
  BY <1>1, <1>3, <1>4, <1>11, <1>12, Zenon DEF SaysTheRest, Holds

LEMMA AllSaid ==
  ASSUME SaysTheRest
  PROVE  SaysWhatIsDescribed
<1> SUFFICES ASSUME pieces = << >> PROVE OutStr = Whole
  BY DEF SaysWhatIsDescribed, Whole
<1>1. PICK r \in Seq(Chars) : Says(Diag, args, pieces, r) /\ OutStr \o r = Whole
  BY Zenon DEF SaysTheRest, Holds
<1>2. r = << >>
  BY <1>1, SaysNone
<1>3. OutStr \in Seq(Chars)
  BY Zenon DEF SaysTheRest, Holds
<1>4. OutStr \o << >> = OutStr
  BY <1>3
<1> QED
  BY <1>1, <1>2, <1>4, Zenon

-----------------------------------------------------------------------------
(* The turns of the loop. Each is proved for any sequences pieces' and     *)
(* OutStr' become, with the rest of the state unchanged.                   *)
NodeAhead(b, e, o, c, n, k, r) ==
  /\ n \in GoodNodes(c) /\ n \in Nodes(Trees[c]) /\ NodeStart(Diag, b, n, k) /\ k <= e
  /\ Stands(Diag, b, SpellNode(n, Spell[c])) /\ k = b + Len(SpellNode(n, Spell[c]))
  /\ PieceSays(Diag, args, k, e, r) /\ o = NodeMeaning(n, args, Meaning[c][args]) \o r
  /\ NodeMeaning(n, args, Meaning[c][args]) \in Seq(Chars)

LEMMA NextNode ==
  ASSUME SaysTheRest, NEW b \in Nat, NEW e \in Nat, b # e, NEW o \in Seq(Chars), NEW s, TopIs(b, e, o, s)
  PROVE  \E c \in Nat : \E n \in GoodNodes(c), k \in Nat, r \in Seq(Chars) : NodeAhead(b, e, o, c, n, k, r)
<1>1. Diag \in Seq(Chars) /\ args \in Arguments /\ PieceSays(Diag, args, b, e, o)
  BY Zenon DEF SaysTheRest, TopIs
<1>2. PICK c \in Nat : \E n \in GoodNodes(c), k \in Nat, r \in Seq(Chars) : Begins(Diag, args, b, e, o, c, n, k, r)
  BY <1>1, PieceSplit
<1>3. PICK n \in GoodNodes(c), k \in Nat, r \in Seq(Chars) : Begins(Diag, args, b, e, o, c, n, k, r)
  BY <1>2
<1>4. /\ Stands(Diag, b, SpellNode(n, Spell[c])) /\ k = b + Len(SpellNode(n, Spell[c])) /\ k <= e
      /\ PieceSays(Diag, args, k, e, r) /\ o = NodeMeaning(n, args, Meaning[c][args]) \o r
  BY <1>3, Zenon DEF Begins
<1>5. n \in Nodes(Trees[c]) /\ Spells(Trees[c], Spell[c]) /\ Means(Trees[c], Meaning[c][args])
  BY <1>1, SpellType, MeaningType, Zenon DEF GoodNodes
<1>6. NodeStart(Diag, b, n, k)
  BY <1>1, <1>4, <1>5, NodeStarts
<1>7. NodeMeaning(n, args, Meaning[c][args]) \in Seq(Chars)
  BY <1>1, <1>5, NodeMeaningType
<1>8. NodeAhead(b, e, o, c, n, k, r)
  BY <1>4, <1>5, <1>6, <1>7, Zenon DEF NodeAhead
<1> QED
  BY <1>8, Zenon

LEMMA TopChars ==
  ASSUME NEW b \in Nat, NEW e, NEW o, NEW s, TopIs(b, e, o, s)
  PROVE  At(0) = Diag[b] /\ At(1) = Diag[b + 1] /\ At(2) = Diag[b + 2]
<1>1. Piece.DiagStr = b
  BY Zenon DEF TopIs
<1>2. b + 0 = b
  OBVIOUS
<1> QED
  BY <1>1, <1>2, Zenon DEF At

LEMMA CopySays ==
  ASSUME SaysTheRest, CopyText
  PROVE  Holds(pieces', OutStr')
<1>1. pieces # << >> /\ Piece.DiagStr # Piece.DiagEnd
      /\ OutStr' = OutStr \o SubSeq(Diag, Piece.DiagStr, Find(Diag, Piece.DiagStr, Piece.DiagEnd, "%") - 1)
      /\ pieces' = GoOnAt(Find(Diag, Piece.DiagStr, Piece.DiagEnd, "%"))
  BY Zenon DEF CopyText, More
<1>2. PICK b \in Nat, e \in Nat : \E o \in Seq(Chars), s \in Seq(Chars) : TopIs(b, e, o, s)
  BY <1>1, TopPiece
<1>3. PICK o \in Seq(Chars), s \in Seq(Chars) : TopIs(b, e, o, s)
  BY <1>2
<1>4. Diag \in Seq(Chars) /\ args \in Arguments /\ PieceSays(Diag, args, b, e, o)
      /\ Piece.DiagStr = b /\ Piece.DiagEnd = e
  BY <1>3, Zenon DEF SaysTheRest, TopIs
<1>5. PICK q \in Nat, r \in Seq(Chars) : Copied(Diag, args, b, e, o, q, r)
  BY <1>4, CopyStands
<1>6. /\ q = Find(Diag, b, e, "%") /\ b <= q /\ q <= e /\ PieceSays(Diag, args, q, e, r)
      /\ o = SubSeq(Diag, b, q - 1) \o r
  BY <1>5, Zenon DEF Copied
<1>7. b >= 1 /\ e <= Len(Diag) + 1
  BY <1>4, PieceType
<1>8. SubSeq(Diag, b, q - 1) \in Seq(Chars)
  <2>1. 1 <= b /\ q <= Len(Diag) + 1
    BY <1>4, <1>6, <1>7
  <2> QED
    BY <1>4, <1>6, <2>1, SubSeqType
<1>9. PICK x \in Seq(Chars) : x = SubSeq(Diag, b, q - 1)
  BY <1>8, Zenon
<1>10. o = x \o r /\ PieceSays(Diag, args, q, e, r)
  BY <1>6, <1>9, Zenon
<1>11. Holds(<<[DiagStr |-> q, DiagEnd |-> e]>> \o Tail(pieces), OutStr \o x)
  BY <1>3, <1>10, WentOn
<1>12. GoOnAt(q) = <<[DiagStr |-> q, DiagEnd |-> e]>> \o Tail(pieces)
  BY <1>1, <1>3, GoOnIs
<1> QED
  BY <1>1, <1>4, <1>6, <1>9, <1>11, <1>12, Zenon

LEMMA EscapeSays ==
  ASSUME SaysTheRest, Escape
  PROVE  Holds(pieces', OutStr')
<1>1. pieces # << >> /\ Piece.DiagStr # Piece.DiagEnd /\ At(0) = "%" /\ ispunct(At(1))
      /\ OutStr' = Append(OutStr, At(1)) /\ pieces' = GoOnAt(Piece.DiagStr + 2)
  BY Zenon DEF Escape, More
<1>2. PICK b \in Nat, e \in Nat : \E o \in Seq(Chars), s \in Seq(Chars) : TopIs(b, e, o, s)
  BY <1>1, TopPiece
<1>3. PICK o \in Seq(Chars), s \in Seq(Chars) : TopIs(b, e, o, s)
  BY <1>2
<1>4. Piece.DiagStr = b /\ Piece.DiagEnd = e /\ b # e /\ OutStr \in Seq(Chars)
  BY <1>1, <1>3, Zenon DEF TopIs, SaysTheRest, Holds
<1>5. PICK c \in Nat : \E n \in GoodNodes(c), k \in Nat, r \in Seq(Chars) : NodeAhead(b, e, o, c, n, k, r)
  BY <1>3, <1>4, NextNode
<1>6. PICK n \in GoodNodes(c), k \in Nat, r \in Seq(Chars) : NodeAhead(b, e, o, c, n, k, r)
  BY <1>5
<1>7. PICK x \in Seq(Chars) : x = NodeMeaning(n, args, Meaning[c][args])
  BY <1>6, Zenon DEF NodeAhead
<1>8. o = x \o r /\ PieceSays(Diag, args, k, e, r) /\ NodeStart(Diag, b, n, k)
  BY <1>6, <1>7, Zenon DEF NodeAhead
<1>9. Diag[b] = "%" /\ ispunct(Diag[b + 1])
  BY <1>1, <1>3, TopChars, Zenon
<1>10. n.node = "escape" /\ Diag[b + 1] = n.word /\ k = b + 2
  BY <1>8, <1>9, Zenon DEF NodeStart
<1>11. x = <<Diag[b + 1]>>
  BY <1>7, <1>10, NodeMeaningIs, Zenon
<1>12. OutStr' = OutStr \o x
  <2>1. PICK h \in Chars : h = Diag[b + 1]
    BY <1>9, PunctuationIs, CharsAre, Zenon
  <2>2. Append(OutStr, h) = OutStr \o <<h>>
    BY <1>4
  <2> QED
    BY <1>1, <1>3, <1>11, <2>1, <2>2, TopChars, Zenon
<1>13. Holds(<<[DiagStr |-> k, DiagEnd |-> e]>> \o Tail(pieces), OutStr \o x)
  BY <1>3, <1>8, WentOn
<1>14. GoOnAt(k) = <<[DiagStr |-> k, DiagEnd |-> e]>> \o Tail(pieces)
  BY <1>1, <1>3, GoOnIs
<1> QED
  BY <1>1, <1>4, <1>10, <1>12, <1>13, <1>14, Zenon

LEMMA PlainSays ==
  ASSUME SaysTheRest, PlainArgument
  PROVE  Holds(pieces', OutStr')
<1>1. pieces # << >> /\ Piece.DiagStr # Piece.DiagEnd /\ At(0) = "%" /\ isdigit(At(1))
      /\ OutStr' = OutStr \o Spelling(args[DigitValue(At(1)) + 1]) /\ pieces' = GoOnAt(Piece.DiagStr + 2)
  BY Zenon DEF PlainArgument, More
<1>2. PICK b \in Nat, e \in Nat : \E o \in Seq(Chars), s \in Seq(Chars) : TopIs(b, e, o, s)
  BY <1>1, TopPiece
<1>3. PICK o \in Seq(Chars), s \in Seq(Chars) : TopIs(b, e, o, s)
  BY <1>2
<1>4. Piece.DiagStr = b /\ Piece.DiagEnd = e /\ b # e /\ args \in Arguments
  BY <1>1, <1>3, Zenon DEF TopIs, SaysTheRest, Holds
<1>5. PICK c \in Nat : \E n \in GoodNodes(c), k \in Nat, r \in Seq(Chars) : NodeAhead(b, e, o, c, n, k, r)
  BY <1>3, <1>4, NextNode
<1>6. PICK n \in GoodNodes(c), k \in Nat, r \in Seq(Chars) : NodeAhead(b, e, o, c, n, k, r)
  BY <1>5
<1>7. PICK x \in Seq(Chars) : x = NodeMeaning(n, args, Meaning[c][args])
  BY <1>6, Zenon DEF NodeAhead
<1>8. o = x \o r /\ PieceSays(Diag, args, k, e, r) /\ NodeStart(Diag, b, n, k)
  BY <1>6, <1>7, Zenon DEF NodeAhead
<1>9. Diag[b] = "%" /\ isdigit(Diag[b + 1])
  BY <1>1, <1>3, TopChars, Zenon
<1>10. n.node = "argument" /\ Diag[b + 1] = DigitChars[n.arg + 1] /\ k = b + 2
  BY <1>8, <1>9, Zenon DEF NodeStart
<1>11. x = Spelling(args[n.arg + 1])
  BY <1>7, <1>10, NodeMeaningIs, Zenon
<1>12. DigitValue(Diag[b + 1]) = n.arg
  <2>1. n.arg \in 0 .. 9
    <3>1. n.node \notin {"text", "escape"}
      BY <1>10
    <3>2. PICK m \in Nat, val \in Nat : ArgumentAt(n, args, m, val)
      BY <1>4, <3>1, GoodNode
    <3> QED
      BY <3>2, Zenon DEF ArgumentAt
  <2> QED
    BY <1>10, <2>1, DigitValueIs, Zenon
<1>13. OutStr' = OutStr \o x
  BY <1>1, <1>3, <1>11, <1>12, TopChars, Zenon
<1>14. Holds(<<[DiagStr |-> k, DiagEnd |-> e]>> \o Tail(pieces), OutStr \o x)
  BY <1>3, <1>8, WentOn
<1>15. GoOnAt(k) = <<[DiagStr |-> k, DiagEnd |-> e]>> \o Tail(pieces)
  BY <1>1, <1>3, GoOnIs
<1> QED
  BY <1>1, <1>4, <1>10, <1>13, <1>14, <1>15, Zenon

LEMMA ReturnSays ==
  ASSUME SaysTheRest, ReturnFromPiece
  PROVE  Holds(pieces', OutStr')
<1>1. pieces # << >> /\ Piece.DiagStr = Piece.DiagEnd /\ pieces' = Tail(pieces) /\ OutStr' = OutStr
  BY Zenon DEF ReturnFromPiece
<1>2. PICK b \in Nat, e \in Nat : \E o \in Seq(Chars), s \in Seq(Chars) : TopIs(b, e, o, s)
  BY <1>1, TopPiece
<1>3. PICK o \in Seq(Chars), s \in Seq(Chars) : TopIs(b, e, o, s)
  BY <1>2
<1>4. /\ Piece.DiagStr = b /\ Piece.DiagEnd = e /\ b = e /\ args \in Arguments /\ Diag \in Seq(Chars)
      /\ PieceSays(Diag, args, b, e, o) /\ Tail(pieces) \in Seq(Calls) /\ OutStr \in Seq(Chars)
      /\ Says(Diag, args, Tail(pieces), s) /\ OutStr \o (o \o s) = Whole
  BY <1>1, <1>3, Zenon DEF TopIs, SaysTheRest, Holds
<1>5. o = << >>
  BY <1>4, PieceSplit
<1>6. << >> \o s = s
  OBVIOUS
<1>7. OutStr \o s = Whole
  BY <1>4, <1>5, <1>6, Zenon
<1> QED
  BY <1>1, <1>4, <1>7, Zenon DEF Holds

(* Where a modifier ends in front of the argument's number, and the        *)
(* argument's value.                                                       *)
ModifierEnd == IF At(2) = OpenBrace THEN ScanFormat(Diag, Piece.DiagStr + 3, Piece.DiagEnd, CloseBrace)
               ELSE Piece.DiagStr + 1
ModifierVal == args[DigitValue(Diag[ModifierEnd + 1]) + 1].value

LEMMA ModifiedIs ==
  ASSUME ModifiedArgument
  PROVE  /\ pieces # << >> /\ Piece.DiagStr # Piece.DiagEnd /\ At(0) = "%" /\ At(1) \in Modifiers
         /\ At(1) = "select" =>
              /\ pieces' = <<HandleSelectModifier(ModifierVal, Piece.DiagStr + 3, ModifierEnd)>>
                           \o GoOnAt(ModifierEnd + 2)
              /\ OutStr' = OutStr
         /\ At(1) = "plural" =>
              /\ pieces' = <<HandlePluralModifier(ModifierVal, Piece.DiagStr + 3, ModifierEnd)>>
                           \o GoOnAt(ModifierEnd + 2)
              /\ OutStr' = OutStr
         /\ At(1) = "s" =>
              /\ OutStr' = (IF ModifierVal # 1 THEN Append(OutStr, "s") ELSE OutStr)
              /\ pieces' = GoOnAt(ModifierEnd + 2)
         /\ At(1) = "ordinal" =>
              /\ OutStr' = OutStr \o Append(Numeral[ModifierVal], OrdinalSuffix(ModifierVal))
              /\ pieces' = GoOnAt(ModifierEnd + 2)
<1>1. At(1) = "select" \/ At(1) = "plural" \/ At(1) = "s" \/ At(1) = "ordinal"
  BY Zenon DEF ModifiedArgument, Modifiers
<1>2. CASE At(1) = "select"
  BY <1>2, Zenon DEF ModifiedArgument, More, Modifiers, ModifierEnd, ModifierVal, OpenBrace, CloseBrace
<1>3. CASE At(1) = "plural"
  BY <1>3, Zenon DEF ModifiedArgument, More, Modifiers, ModifierEnd, ModifierVal, OpenBrace, CloseBrace
<1>4. CASE At(1) = "s"
  BY <1>4, Zenon DEF ModifiedArgument, More, Modifiers, ModifierEnd, ModifierVal, OpenBrace, CloseBrace
<1>5. CASE At(1) = "ordinal"
  BY <1>5, Zenon DEF ModifiedArgument, More, Modifiers, ModifierEnd, ModifierVal, OpenBrace, CloseBrace
<1> QED
  BY <1>1, <1>2, <1>3, <1>4, <1>5

(* What the piece in front says goes on with a modifier: it ends at m, its *)
(* argument has the value val.                                             *)
ModifierAhead(b, e, o, s, c, n, k, r, m, val) ==
  /\ TopIs(b, e, o, s) /\ NodeAhead(b, e, o, c, n, k, r)
  /\ n.node = At(1) /\ Piece.DiagStr = b /\ Piece.DiagEnd = e
  /\ Diag[b + 2] = At(2) /\ m \in Nat /\ m = n.arg + 1 /\ n.arg \in 0 .. 9
  /\ val \in Nat /\ val = args[m].value
  /\ n.node = "select" => val < Len(n.options)
  /\ n.node = "plural" => Fitting(n.options, val) # {}

LEMMA NextModifier ==
  ASSUME SaysTheRest, ModifiedArgument
  PROVE  \E b \in Nat, e \in Nat : \E o \in Seq(Chars), s \in Seq(Chars) :
         \E c \in Nat : \E n \in GoodNodes(c), k \in Nat, r \in Seq(Chars) :
         \E m \in Nat, val \in Nat : ModifierAhead(b, e, o, s, c, n, k, r, m, val)
<1>1. pieces # << >> /\ Piece.DiagStr # Piece.DiagEnd /\ At(0) = "%" /\ At(1) \in Modifiers
  BY ModifiedIs, Zenon
<1>2. PICK b \in Nat, e \in Nat : \E o \in Seq(Chars), s \in Seq(Chars) : TopIs(b, e, o, s)
  BY <1>1, TopPiece
<1>3. PICK o \in Seq(Chars), s \in Seq(Chars) : TopIs(b, e, o, s)
  BY <1>2
<1>4. Piece.DiagStr = b /\ Piece.DiagEnd = e /\ b # e /\ args \in Arguments
  BY <1>1, <1>3, Zenon DEF TopIs, SaysTheRest, Holds
<1>5. PICK c \in Nat : \E n \in GoodNodes(c), k \in Nat, r \in Seq(Chars) : NodeAhead(b, e, o, c, n, k, r)
  BY <1>3, <1>4, NextNode
<1>6. PICK n \in GoodNodes(c), k \in Nat, r \in Seq(Chars) : NodeAhead(b, e, o, c, n, k, r)
  BY <1>5
<1>7. NodeStart(Diag, b, n, k)
  BY <1>6, Zenon DEF NodeAhead
<1>8. Diag[b] = "%" /\ Diag[b + 1] = At(1) /\ Diag[b + 2] = At(2)
  BY <1>1, <1>3, TopChars, Zenon
<1>9. n.node = At(1) /\ n.node \in Modifiers
  BY <1>1, <1>7, <1>8, Zenon DEF NodeStart
<1>10. PICK m \in Nat, val \in Nat : ArgumentAt(n, args, m, val)
  <2>1. n.node \notin {"text", "escape"}
    BY <1>9, Zenon DEF Modifiers
  <2> QED
    BY <1>4, <2>1, GoodNode
<1>11. ModifierAhead(b, e, o, s, c, n, k, r, m, val)
  BY <1>3, <1>4, <1>6, <1>8, <1>9, <1>10, Zenon DEF ModifierAhead, ArgumentAt
<1>12. \E mm \in Nat, vv \in Nat : ModifierAhead(b, e, o, s, c, n, k, r, mm, vv)
  BY <1>11
<1>13. \E cc \in Nat : \E nn \in GoodNodes(cc), kk \in Nat, rr \in Seq(Chars) :
       \E mm \in Nat, vv \in Nat : ModifierAhead(b, e, o, s, cc, nn, kk, rr, mm, vv)
  BY <1>12, Zenon
<1> QED
  BY <1>13, Zenon

LEMMA ValueIs ==
  ASSUME NEW arg \in 0 .. 9, Diag[ModifierEnd + 1] = DigitChars[arg + 1]
  PROVE  ModifierVal = args[arg + 1].value
<1>1. DigitValue(Diag[ModifierEnd + 1]) = arg
  BY DigitValueIs, Zenon
<1> QED
  BY <1>1, Zenon DEF ModifierVal

(* The options in braces are scanned from f on to the brace at end.        *)
ClosedAt(k, inside, arg, f, end) ==
  /\ Stands(Diag, f, inside) /\ end = f + Len(inside) /\ f = Piece.DiagStr + 3
  /\ ModifierEnd = end /\ end + 2 = k /\ Diag[end + 1] = DigitChars[arg + 1]

PlacesAgree(b, l, k, e, f, end) == end = f + l /\ end + 2 = k /\ end < e

LEMMA BracedPlaces ==
  ASSUME NEW b \in Nat, NEW l \in Nat, NEW k \in Nat, NEW e \in Nat, NEW f \in Nat, NEW end \in Nat,
         k = b + (l + 5), k <= e, f = b + 3, end = b + 3 + l
  PROVE  PlacesAgree(b, l, k, e, f, end)
BY DEF PlacesAgree

LEMMA BracedEnds ==
  ASSUME Diag \in Seq(Chars), NEW b \in Nat, NEW e \in Nat, Piece.DiagStr = b, Piece.DiagEnd = e,
         Diag[b + 2] = At(2), NEW modifier \in Modifiers, NEW arg \in 0 .. 9,
         NEW ss \in Seq(Seq(Chars)), \A i \in 1 .. Len(ss) : PassedOver(Diag, ss[i]),
         Stands(Diag, b, Braced(modifier, Joined(ss, "|"), arg)),
         NEW k \in Nat, k = b + Len(Braced(modifier, Joined(ss, "|"), arg)), k <= e
  PROVE  \E f \in Nat, end \in Nat : ClosedAt(k, Joined(ss, "|"), arg, f, end)
<1>1. "|" \in Chars
  BY CharsAre, Zenon
<1>2. PICK inside \in Seq(Chars) : inside = Joined(ss, "|")
  <2>1. Joined(ss, "|") \in Seq(Chars)
    BY <1>1, JoinedType
  <2> QED
    BY <2>1, Zenon
<1>3. PICK l \in Nat : l = Len(inside)
  BY LenProperties
<1>4. Stands(Diag, b, Braced(modifier, inside, arg))
  BY <1>2, Zenon
<1>5. BracedAt(Diag, b, modifier, inside, arg, l)
  BY <1>3, <1>4, BracedStands, Zenon
<1>6. /\ Diag[b + 2] = OpenBrace /\ Stands(Diag, b + 3, inside)
      /\ Diag[b + 3 + l] = CloseBrace /\ Diag[b + 3 + l + 1] = DigitChars[arg + 1]
  BY <1>5, Zenon DEF BracedAt
<1>7. PICK f \in Nat, end \in Nat : f = b + 3 /\ end = b + 3 + l
  <2>1. b + 3 \in Nat /\ b + 3 + l \in Nat
    OBVIOUS
  <2> QED
    BY <2>1, Zenon
<1>8. end = f + l /\ end + 2 = k /\ end < e
  <2>1. k = b + (l + 5)
    BY <1>2, <1>3, BracedIs
  <2>2. PlacesAgree(b, l, k, e, f, end)
    BY <1>7, <2>1, BracedPlaces, Zenon
  <2> QED
    BY <2>2, Zenon DEF PlacesAgree
<1>9. Skipped(Diag, f, f + Len(Joined(ss, "|")), {CloseBrace})
  <2>1. "|" \notin {CloseBrace} /\ "|" # "%" /\ "|" # CloseBrace /\ {CloseBrace} \subseteq Targets
    BY Zenon DEF CloseBrace, Targets
  <2>2. Stands(Diag, f, Joined(ss, "|"))
    BY <1>2, <1>6, <1>7, Zenon
  <2>3. \A i \in 1 .. Len(ss) : \A q : Stands(Diag, q, ss[i]) => Skipped(Diag, q, q + Len(ss[i]), Targets)
    BY Zenon DEF PassedOver
  <2> QED
    BY <1>1, <2>1, <2>2, <2>3, JoinedSkipped
<1>10. Skipped(Diag, f, end, {CloseBrace})
  BY <1>2, <1>3, <1>8, <1>9, Zenon
<1>11. StopsAt(Diag, end, e, CloseBrace)
  BY <1>6, <1>7, <1>8, Zenon DEF StopsAt
<1>12. ScanFormat(Diag, f, e, CloseBrace) = end
  BY <1>10, <1>11, CharsDiffer, ScanStops, Zenon
<1>13. ModifierEnd = end
  BY <1>6, <1>7, <1>12, Zenon DEF ModifierEnd
<1>14. ClosedAt(k, Joined(ss, "|"), arg, f, end)
  BY <1>2, <1>3, <1>6, <1>7, <1>8, <1>13, Zenon DEF ClosedAt
<1> QED
  BY <1>14, Zenon

LEMMA SimpleSays ==
  ASSUME SaysTheRest, ModifiedArgument, At(1) \in {"s", "ordinal"}
  PROVE  Holds(pieces', OutStr')
<1>1. PICK b \in Nat, e \in Nat : \E o \in Seq(Chars), s \in Seq(Chars) :
        \E c \in Nat : \E n \in GoodNodes(c), k \in Nat, r \in Seq(Chars) :
        \E m \in Nat, val \in Nat : ModifierAhead(b, e, o, s, c, n, k, r, m, val)
  BY NextModifier, Zenon
<1>2. PICK o \in Seq(Chars), s \in Seq(Chars), c \in Nat :
        \E n \in GoodNodes(c), k \in Nat, r \in Seq(Chars) :
        \E m \in Nat, val \in Nat : ModifierAhead(b, e, o, s, c, n, k, r, m, val)
  BY <1>1, Zenon
<1>3. PICK n \in GoodNodes(c), k \in Nat, r \in Seq(Chars), m \in Nat, val \in Nat :
        ModifierAhead(b, e, o, s, c, n, k, r, m, val)
  BY <1>2, Zenon
<1>4. /\ TopIs(b, e, o, s) /\ NodeAhead(b, e, o, c, n, k, r) /\ n.node = At(1) /\ Piece.DiagStr = b
      /\ Diag[b + 2] = At(2) /\ m = n.arg + 1 /\ n.arg \in 0 .. 9 /\ val = args[m].value
  BY <1>3, Zenon DEF ModifierAhead
<1>5. PICK x \in Seq(Chars) : x = NodeMeaning(n, args, Meaning[c][args])
  BY <1>4, Zenon DEF NodeAhead
<1>6. o = x \o r /\ PieceSays(Diag, args, k, e, r) /\ NodeStart(Diag, b, n, k)
  BY <1>4, <1>5, Zenon DEF NodeAhead
<1>7. Diag[b + 2] = DigitChars[n.arg + 1] /\ Diag[b + 2] # OpenBrace /\ k = b + 3
  BY <1>4, <1>6, Zenon DEF NodeStart
<1>8. ModifierEnd = b + 1
  BY <1>4, <1>7, Zenon DEF ModifierEnd
<1>9. ModifierEnd + 1 = b + 2 /\ ModifierEnd + 2 = k
  BY <1>7, <1>8
<1>10. ModifierVal = val
  BY <1>4, <1>7, <1>9, ValueIs, Zenon
<1>11. OutStr' = OutStr \o x /\ pieces' = GoOnAt(k) /\ pieces # << >>
  <2>0. OutStr \in Seq(Chars)
    BY Zenon DEF SaysTheRest, Holds
  <2>1. pieces # << >>
    BY ModifiedIs, Zenon
  <2>2. CASE At(1) = "s"
    <3>1. OutStr' = (IF val # 1 THEN Append(OutStr, "s") ELSE OutStr) /\ pieces' = GoOnAt(k)
      BY <1>9, <1>10, <2>2, ModifiedIs, Zenon
    <3>2. x = IF val = 1 THEN << >> ELSE <<"s">>
      BY <1>4, <1>5, <2>2, NodeMeaningIs, Zenon
    <3>3. Append(OutStr, "s") = OutStr \o <<"s">> /\ OutStr \o << >> = OutStr
      BY <2>0, CharsAre
    <3>4. CASE val = 1
      BY <2>1, <3>1, <3>2, <3>3, <3>4, Zenon
    <3>5. CASE val # 1
      BY <2>1, <3>1, <3>2, <3>3, <3>5, Zenon
    <3> QED
      BY <3>4, <3>5
  <2>3. CASE At(1) = "ordinal"
    <3>1. OutStr' = OutStr \o Append(Numeral[val], OrdinalSuffix(val)) /\ pieces' = GoOnAt(k)
      BY <1>9, <1>10, <2>3, ModifiedIs, Zenon
    <3>2. x = Append(Numeral[val], OrdinalSuffix(val))
      BY <1>4, <1>5, <2>3, NodeMeaningIs, Zenon
    <3> QED
      BY <2>1, <3>1, <3>2, Zenon
  <2> QED
    BY <2>2, <2>3
<1>12. Holds(<<[DiagStr |-> k, DiagEnd |-> e]>> \o Tail(pieces), OutStr \o x)
  BY <1>4, <1>6, WentOn
<1>13. GoOnAt(k) = <<[DiagStr |-> k, DiagEnd |-> e]>> \o Tail(pieces)
  BY <1>4, <1>11, GoOnIs
<1> QED
  BY <1>11, <1>12, <1>13, Zenon

LEMMA SelectSays ==
  ASSUME SaysTheRest, ModifiedArgument, At(1) = "select"
  PROVE  Holds(pieces', OutStr')
<1>1. PICK b \in Nat, e \in Nat : \E o \in Seq(Chars), s \in Seq(Chars) :
        \E c \in Nat : \E n \in GoodNodes(c), k \in Nat, r \in Seq(Chars) :
        \E m \in Nat, val \in Nat : ModifierAhead(b, e, o, s, c, n, k, r, m, val)
  BY NextModifier, Zenon
<1>2. PICK o \in Seq(Chars), s \in Seq(Chars), c \in Nat :
        \E n \in GoodNodes(c), k \in Nat, r \in Seq(Chars) :
        \E m \in Nat, val \in Nat : ModifierAhead(b, e, o, s, c, n, k, r, m, val)
  BY <1>1, Zenon
<1>3. PICK n \in GoodNodes(c), k \in Nat, r \in Seq(Chars), m \in Nat, val \in Nat :
        ModifierAhead(b, e, o, s, c, n, k, r, m, val)
  BY <1>2, Zenon
<1>4. /\ TopIs(b, e, o, s) /\ NodeAhead(b, e, o, c, n, k, r) /\ n.node = "select"
      /\ Piece.DiagStr = b /\ Piece.DiagEnd = e
      /\ Diag[b + 2] = At(2) /\ m = n.arg + 1 /\ n.arg \in 0 .. 9 /\ val = args[m].value
      /\ val < Len(n.options)
  BY <1>3, Zenon DEF ModifierAhead
<1>5. PICK x \in Seq(Chars) : x = NodeMeaning(n, args, Meaning[c][args])
  BY <1>4, Zenon DEF NodeAhead
<1>6. /\ o = x \o r /\ PieceSays(Diag, args, k, e, r) /\ k <= e /\ n \in Nodes(Trees[c])
      /\ Stands(Diag, b, SpellNode(n, Spell[c])) /\ k = b + Len(SpellNode(n, Spell[c]))
  BY <1>4, <1>5, Zenon DEF NodeAhead
<1>7. Diag \in Seq(Chars) /\ args \in Arguments /\ Spells(Trees[c], Spell[c])
      /\ \A u \in Trees[c] : PassedOver(Diag, Spell[c][u])
  <2>1. Diag \in Seq(Chars)
    BY Zenon DEF SaysTheRest
  <2> QED
    BY <2>1, SpellType, TreesSkipped, Zenon DEF SaysTheRest
<1>8. n.options \in Seq(Trees[c])
  BY <1>4, <1>6, NodeCases, Zenon
<1>9. PICK ss \in Seq(Seq(Chars)) : ss = SpelledOptions(n, Spell[c]) /\ Len(ss) = Len(n.options)
        /\ \A i \in 1 .. Len(n.options) : ss[i] = Spell[c][n.options[i]] /\ n.options[i] \in Trees[c]
  <2>1. /\ SpelledOptions(n, Spell[c]) \in Seq(Seq(Chars)) /\ Len(SpelledOptions(n, Spell[c])) = Len(n.options)
        /\ \A i \in 1 .. Len(n.options) :
             SpelledOptions(n, Spell[c])[i] = Spell[c][n.options[i]] /\ n.options[i] \in Trees[c]
    BY <1>7, <1>8, SpelledOptionsType
  <2> QED
    BY <2>1, Zenon
<1>10. \A i \in 1 .. Len(ss) : PassedOver(Diag, ss[i])
  BY <1>7, <1>9, Zenon
<1>11. SpellNode(n, Spell[c]) = Braced("select", Joined(ss, "|"), n.arg)
  BY <1>4, <1>9, SpellNodeIs, Zenon
<1>12. PICK f \in Nat, end \in Nat : ClosedAt(k, Joined(ss, "|"), n.arg, f, end)
  <2>1. "select" \in Modifiers /\ Stands(Diag, b, Braced("select", Joined(ss, "|"), n.arg))
        /\ k = b + Len(Braced("select", Joined(ss, "|"), n.arg))
    BY <1>6, <1>11, Zenon DEF Modifiers
  <2> QED
    BY <1>4, <1>6, <1>7, <1>10, <2>1, BracedEnds, Zenon
<1>13. /\ Stands(Diag, f, Joined(ss, "|")) /\ end = f + Len(Joined(ss, "|")) /\ f = Piece.DiagStr + 3
       /\ ModifierEnd = end /\ end + 2 = k /\ Diag[end + 1] = DigitChars[n.arg + 1]
  BY <1>12, Zenon DEF ClosedAt
<1>14. ModifierVal = val
  BY <1>4, <1>13, ValueIs, Zenon
<1>15. PICK p \in Nat, l \in Nat : ChosenAt(HandleSelectModifier(val, f, end), p, l, ss[val + 1])
  <2>1. val < Len(ss)
    BY <1>4, <1>9, Zenon
  <2> QED
    BY <1>7, <1>10, <1>13, <2>1, SelectStands, Zenon
<1>16. PICK u \in Trees[c] : u = n.options[val + 1] /\ ss[val + 1] = Spell[c][u]
  <2>0. PICK j \in Nat : j = Len(n.options)
    BY <1>9, LenProperties
  <2>1. val + 1 \in 1 .. Len(n.options)
    <3>1. val < j
      BY <1>4, <2>0, Zenon
    <3>2. val + 1 \in 1 .. j
      BY <3>1
    <3> QED
      BY <2>0, <3>2, Zenon
  <2> QED
    BY <1>9, <2>1, Zenon
<1>17. PICK q \in Nat : q = p + l
  OBVIOUS
<1>18. x = Meaning[c][args][u]
  BY <1>4, <1>5, <1>16, NodeMeaningIs, Zenon
<1>19. PieceSays(Diag, args, p, q, x)
  BY <1>15, <1>16, <1>17, <1>18, Zenon DEF PieceSays, ChosenAt
<1>20. pieces # << >> /\ pieces' = <<[DiagStr |-> p, DiagEnd |-> q]>> \o GoOnAt(k) /\ OutStr' = OutStr
  BY <1>13, <1>14, <1>15, <1>17, ModifiedIs, Zenon DEF ChosenAt
<1>21. Holds(<<[DiagStr |-> p, DiagEnd |-> q]>> \o (<<[DiagStr |-> k, DiagEnd |-> e]>> \o Tail(pieces)), OutStr)
  BY <1>4, <1>6, <1>19, WentInto
<1>22. GoOnAt(k) = <<[DiagStr |-> k, DiagEnd |-> e]>> \o Tail(pieces)
  BY <1>4, <1>20, GoOnIs
<1> QED
  BY <1>20, <1>21, <1>22, Zenon

LEMMA PluralSays ==
  ASSUME SaysTheRest, ModifiedArgument, At(1) = "plural"
  PROVE  Holds(pieces', OutStr')
<1>1. PICK b \in Nat, e \in Nat : \E o \in Seq(Chars), s \in Seq(Chars) :
        \E c \in Nat : \E n \in GoodNodes(c), k \in Nat, r \in Seq(Chars) :
        \E m \in Nat, val \in Nat : ModifierAhead(b, e, o, s, c, n, k, r, m, val)
  BY NextModifier, Zenon
<1>2. PICK o \in Seq(Chars), s \in Seq(Chars), c \in Nat :
        \E n \in GoodNodes(c), k \in Nat, r \in Seq(Chars) :
        \E m \in Nat, val \in Nat : ModifierAhead(b, e, o, s, c, n, k, r, m, val)
  BY <1>1, Zenon
<1>3. PICK n \in GoodNodes(c), k \in Nat, r \in Seq(Chars), m \in Nat, val \in Nat :
        ModifierAhead(b, e, o, s, c, n, k, r, m, val)
  BY <1>2, Zenon
<1>4. /\ TopIs(b, e, o, s) /\ NodeAhead(b, e, o, c, n, k, r) /\ n.node = "plural"
      /\ Piece.DiagStr = b /\ Piece.DiagEnd = e
      /\ Diag[b + 2] = At(2) /\ m = n.arg + 1 /\ n.arg \in 0 .. 9 /\ val = args[m].value
      /\ Fitting(n.options, val) # {}
  BY <1>3, Zenon DEF ModifierAhead
<1>5. PICK x \in Seq(Chars) : x = NodeMeaning(n, args, Meaning[c][args])
  BY <1>4, Zenon DEF NodeAhead
<1>6. /\ o = x \o r /\ PieceSays(Diag, args, k, e, r) /\ k <= e /\ n \in Nodes(Trees[c])
      /\ Stands(Diag, b, SpellNode(n, Spell[c])) /\ k = b + Len(SpellNode(n, Spell[c]))
  BY <1>4, <1>5, Zenon DEF NodeAhead
<1>7. Diag \in Seq(Chars) /\ args \in Arguments /\ Spells(Trees[c], Spell[c])
      /\ \A u \in Trees[c] : PassedOver(Diag, Spell[c][u])
  <2>1. Diag \in Seq(Chars)
    BY Zenon DEF SaysTheRest
  <2> QED
    BY <2>1, SpellType, TreesSkipped, Zenon DEF SaysTheRest
<1>8. n.options \in Seq(PluralForms(Trees[c]))
  BY <1>4, <1>6, NodeCases, Zenon
<1>9. PICK ss \in Seq(Seq(Chars)) : ss = SpelledForms(n, Spell[c]) /\ Len(ss) = Len(n.options)
        /\ \A i \in 1 .. Len(n.options) :
             ss[i] = SpellForm(n.options[i], Spell[c]) /\ n.options[i] \in PluralForms(Trees[c])
  <2>1. /\ SpelledForms(n, Spell[c]) \in Seq(Seq(Chars)) /\ Len(SpelledForms(n, Spell[c])) = Len(n.options)
        /\ \A i \in 1 .. Len(n.options) :
             SpelledForms(n, Spell[c])[i] = SpellForm(n.options[i], Spell[c])
             /\ n.options[i] \in PluralForms(Trees[c])
    BY <1>7, <1>8, SpelledFormsType
  <2> QED
    BY <2>1, Zenon
<1>10. \A i \in 1 .. Len(ss) : PassedOver(Diag, ss[i])
  <2>1. \A option \in PluralForms(Trees[c]) : PassedOver(Diag, SpellForm(option, Spell[c]))
    BY <1>7, FormSkipped, Zenon
  <2> QED
    BY <1>9, <2>1, Zenon
<1>11. SpellNode(n, Spell[c]) = Braced("plural", Joined(ss, "|"), n.arg)
  BY <1>4, <1>9, SpellNodeIs, Zenon
<1>12. PICK f \in Nat, end \in Nat : ClosedAt(k, Joined(ss, "|"), n.arg, f, end)
  <2>1. "plural" \in Modifiers /\ Stands(Diag, b, Braced("plural", Joined(ss, "|"), n.arg))
        /\ k = b + Len(Braced("plural", Joined(ss, "|"), n.arg))
    BY <1>6, <1>11, Zenon DEF Modifiers
  <2> QED
    BY <1>4, <1>6, <1>7, <1>10, <2>1, BracedEnds, Zenon
<1>13. /\ Stands(Diag, f, Joined(ss, "|")) /\ end = f + Len(Joined(ss, "|")) /\ f = Piece.DiagStr + 3
       /\ ModifierEnd = end /\ end + 2 = k /\ Diag[end + 1] = DigitChars[n.arg + 1]
  BY <1>12, Zenon DEF ClosedAt
<1>14. ModifierVal = val
  BY <1>4, <1>13, ValueIs, Zenon
<1>15. PICK j \in 1 .. Len(n.options), p \in Nat, l \in Nat :
         /\ j = Min(Fitting(n.options, val))
         /\ ChosenAt(HandlePluralModifier(val, f, end), p, l, Spell[c][n.options[j].form])
  <2>1. Stands(Diag, f, Joined(SpelledForms(n, Spell[c]), "|"))
        /\ end = f + Len(Joined(SpelledForms(n, Spell[c]), "|"))
    BY <1>9, <1>13, Zenon
  <2> QED
    BY <1>4, <1>7, <1>8, <2>1, PluralStands, Zenon
<1>16. PICK u \in Trees[c] : u = n.options[j].form
  <2>1. n.options[j] \in PluralForms(Trees[c])
    BY <1>9, Zenon
  <2>2. \A option \in PluralForms(Trees[c]) : option.form \in Trees[c]
    BY DEF PluralForms
  <2> QED
    BY <2>1, <2>2, Zenon
<1>17. PICK q \in Nat : q = p + l
  OBVIOUS
<1>18. x = Meaning[c][args][u]
  BY <1>4, <1>5, <1>15, <1>16, NodeMeaningIs, Zenon
<1>19. PieceSays(Diag, args, p, q, x)
  BY <1>15, <1>16, <1>17, <1>18, Zenon DEF PieceSays, ChosenAt
<1>20. pieces # << >> /\ pieces' = <<[DiagStr |-> p, DiagEnd |-> q]>> \o GoOnAt(k) /\ OutStr' = OutStr
  BY <1>13, <1>14, <1>15, <1>17, ModifiedIs, Zenon DEF ChosenAt
<1>21. Holds(<<[DiagStr |-> p, DiagEnd |-> q]>> \o (<<[DiagStr |-> k, DiagEnd |-> e]>> \o Tail(pieces)), OutStr)
  BY <1>4, <1>6, <1>19, WentInto
<1>22. GoOnAt(k) = <<[DiagStr |-> k, DiagEnd |-> e]>> \o Tail(pieces)
  BY <1>4, <1>20, GoOnIs
<1> QED
  BY <1>20, <1>21, <1>22, Zenon

LEMMA ModifiedSays ==
  ASSUME SaysTheRest, ModifiedArgument
  PROVE  Holds(pieces', OutStr')
<1>1. At(1) \in {"s", "ordinal"} \/ At(1) = "select" \/ At(1) = "plural"
  BY ModifiedIs, Zenon DEF Modifiers
<1> QED
  BY <1>1, SimpleSays, SelectSays, PluralSays, Zenon

LEMMA TurnSays ==
  ASSUME SaysTheRest, FormattingNext
  PROVE  SaysTheRest'
<1>1. Holds(pieces', OutStr')
  BY CopySays, EscapeSays, PlainSays, ModifiedSays, ReturnSays, Zenon DEF FormattingNext
<1>2. tree' = tree /\ Diag' = Diag /\ args' = args
  BY Zenon DEF FormattingNext, CopyText, Escape, PlainArgument, ModifiedArgument, ReturnFromPiece
<1>3. Whole' = Whole
  BY <1>2, Zenon DEF Whole
<1> QED
  BY <1>1, <1>2, <1>3, Zenon DEF SaysTheRest, Holds

(* Every description says what it means, whatever its words, its options   *)
(* and their nesting and whatever the arguments: a select finds its option *)
(* and a plural the first form that fits, in every text that is the        *)
(* spelling of a tree.                                                     *)
THEOREM FormattingCorrect == FormattingSpec => []SaysWhatIsDescribed
<1>1. FormattingInit => SaysTheRest
  BY InitSays
<1>2. SaysTheRest /\ [FormattingNext]_formattingVars => SaysTheRest'
  <2>1. CASE FormattingNext
    BY <2>1, TurnSays
  <2>2. CASE UNCHANGED formattingVars
    BY <2>2, Zenon DEF formattingVars, SaysTheRest, Holds, Whole
  <2> QED
    BY <2>1, <2>2
<1>3. SaysTheRest => SaysWhatIsDescribed
  BY AllSaid
<1> QED
  BY <1>1, <1>2, <1>3, PTL DEF FormattingSpec
=============================================================================
