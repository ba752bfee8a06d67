------------------------- MODULE VerifyConsumerProofs -------------------------
(***************************************************************************)
(* What holds of the verifier for files of any length, any directives and  *)
(* any diagnostics.                                                        *)
(***************************************************************************)
EXTENDS VerifyConsumer, TLAPS, SequenceTheorems, FiniteSetTheorems, WellFoundedInduction

-----------------------------------------------------------------------------
(* Sets of positions.                                                      *)

LEMMA GreatestElement ==
  ASSUME NEW n \in Nat, NEW S \in SUBSET (1 .. n), S # {}
  PROVE  \E x \in S : \A y \in S : y <= x
<1> DEFINE Below == {ss \in Nat \X Nat : ss[1] < ss[2]}
           T == {k \in Nat : \E x \in S : k = n - x}
<1>1. IsWellFoundedOn(Below, Nat)
  BY NatLessThanWellFounded DEF OpToRel
<1>2. PICK x0 \in S : TRUE
  OBVIOUS
<1>3. n - x0 \in T
  BY <1>2
<1>4. T \in SUBSET Nat /\ T # {}
  BY <1>3
<1> HIDE DEF T
<1>5. PICK k \in T : \A m \in T : ~(<<m, k>> \in Below)
  BY <1>1, <1>4, WFMin, Zenon
<1>6. PICK x \in S : k = n - x
  BY <1>5 DEF T
<1>7. ASSUME NEW y \in S PROVE y <= x
  <2>1. n - y \in T
    BY DEF T
  <2>2. ~(n - y < n - x)
    BY <2>1, <1>5, <1>6, <1>4 DEF T
  <2> QED
    BY <2>2
<1> QED
  BY <1>7

LEMMA DomainFinite ==
  ASSUME NEW s, NEW S, s \in Seq(S)
  PROVE  DOMAIN s = 1 .. Len(s) /\ Len(s) \in Nat /\ IsFiniteSet(DOMAIN s)
BY LenProperties, FS_Interval

LEMMA SubsetCardinality ==
  ASSUME NEW s, NEW S, s \in Seq(S), NEW T \in SUBSET DOMAIN s
  PROVE  IsFiniteSet(T) /\ Cardinality(T) \in Nat /\ (Cardinality(T) = 0 <=> T = {})
BY DomainFinite, FS_Subset, FS_CardinalityType, FS_EmptySet

-----------------------------------------------------------------------------
(* Directives.                                                             *)

LEMMA TextType ==
  ASSUME NEW content \in Seq(Words)
  PROVE  DirectiveText(content) \in Seq(Words)
<1> DEFINE nls == {i \in DOMAIN content : content[i] = "nl"}
<1>1. CASE nls = {}
  BY <1>1 DEF DirectiveText
<1>2. CASE nls # {}
  <2>1. nls \in SUBSET (1 .. Len(content)) /\ Len(content) \in Nat
    BY LenProperties
  <2>2. \E i \in nls : \A j \in nls : j <= i
    BY <1>2, <2>1, GreatestElement
  <2> DEFINE last == CHOOSE i \in nls : \A j \in nls : j <= i
  <2>3. last \in 1 .. Len(content)
    BY <2>1, <2>2
  <2>4. DirectiveText(content) = SubSeq(content, 1, last)
    BY <1>2 DEF DirectiveText
  <2> HIDE DEF last
  <2>5. SubSeq(content, 1, last) \in Seq(Words)
    BY <2>1, <2>3, SubSeqProperties
  <2> QED
    BY <2>4, <2>5
<1> QED
  BY <1>1, <1>2

(* A directive without an error has its type.                              *)
LEMMA DirectiveOK ==
  ASSUME NEW d \in Directives, NEW line \in Lines, ParseError(d, line) = "none"
  PROVE  Directive(d, line) \in DirectiveType /\ Directive(d, line).Min <= Directive(d, line).Max
<1>1. d.content \in Seq(Words)
  BY InputsAssumption
<1>2. d.count \in [form : {"none", "n", "range", "plus", "n_plus"}, n : Nat, m : Nat]
  BY InputsAssumption
<1>3. MinCount(d.count) \in Nat
  BY <1>2 DEF MinCount
<1>4. MaxCount(d.count) \in Nat
  BY <1>2, BoundsAssumption DEF MaxCount
<1>5. ExpectedLine(d.at, line) \in Lines
  BY DEF ParseError, ExpectedLine
<1>6. MinCount(d.count) <= MaxCount(d.count)
  BY <1>3, <1>4 DEF ParseError
<1>7. DirectiveText(d.content) \in Seq(Words)
  BY <1>1, TextType
<1> QED
  BY <1>1, <1>3, <1>4, <1>5, <1>6, <1>7 DEF Directive, DirectiveType

LEMMA ErrorOK ==
  ASSUME NEW d, NEW line, ParseError(d, line) # "none"
  PROVE  <<ParseError(d, line)>> \in Seq(Words)
<1>1. ParseError(d, line) \in Words
  BY DEF ParseError, ParseErrors, Words
<1> HIDE DEF Words
<1> QED
  BY <1>1

-----------------------------------------------------------------------------
(* Who owns which client at each point of the run.                         *)

Deleted(first, printer, verif) ==
  deleted["first"] = first /\ deleted["printer"] = printer /\ deleted["verifier"] = verif

Running(c) == IF verify THEN c = "verifier" /\ OwnsPrimaryClient ELSE c = "printer"

Owners ==
  /\ pc = "start" => Client = "first" /\ OwnsDiagClient /\ Deleted(0, 0, 0)
  /\ pc = "opened" => verify /\ Client = "printer" /\ OwnsDiagClient /\ Deleted(1, 0, 0)
  /\ pc = "source" => Running(Client) /\ OwnsDiagClient /\ Deleted(1, 0, 0)
  /\ pc \in Kinds \cup {"checked"} =>
       /\ verify /\ OwnsPrimaryClient /\ OwnsCurClient
       /\ Client = "printer" /\ ~OwnsDiagClient /\ Deleted(1, 0, 0)
  /\ pc = "finished" =>
       /\ OwnsDiagClient
       /\ \/ Client = "first" /\ Deleted(0, 0, 0)
          \/ Running(Client) /\ Deleted(1, 0, 0)
  /\ pc = "exited" =>
       \/ Client = "first" /\ Deleted(1, 0, 0)
       \/ Client = "printer" /\ ~verify /\ Deleted(1, 1, 0)
       \/ Client = "verifier" /\ verify /\ Deleted(1, 1, 1)

LEMMA OwnersImplyDeletedOnce ==
  ASSUME TypeOK, Owners PROVE ClientsDeletedOnce
BY DEF TypeOK, Owners, ClientsDeletedOnce, Deleted, Running, Clients, Kinds

IInv == TypeOK /\ Owners

LEMMA InitOK == Init => IInv
<1> SUFFICES ASSUME Init PROVE IInv
  OBVIOUS
<1>1. << >> \in Seq(DirectiveType) /\ << >> \in Seq(DiagType) /\ << >> \in Seq(SUBSET Nat)
  OBVIOUS
<1>2. ED \in [Kinds -> Seq(DirectiveType)] /\ Buffer \in [Kinds -> Seq(DiagType)]
  BY <1>1 DEF Init
<1>3. \A k \in Kinds : \A i \in DOMAIN ED[k] : ED[k][i].Min <= ED[k][i].Max
  BY DEF Init
<1>4. deleted \in [Clients -> Nat] /\ NumDiags \in [Clients -> Nat] /\ events \in [Events -> Nat]
  BY DEF Init
<1>5. TypeOK
  BY <1>1, <1>2, <1>3, <1>4 DEF Init, TypeOK, Statuses, Clients
<1>6. Owners
  BY DEF Init, Owners, Deleted, Clients, Kinds
<1> QED
  BY <1>5, <1>6 DEF IInv

(* What a report does to the types.                                        *)
LEMMA ReportOK ==
  ASSUME TypeOK, NEW kind \in Kinds, NEW line \in Nat, NEW text \in Seq(Words),
         Client = "verifier" => line \in Lines,
         Report(kind, line, text)
  PROVE  /\ Buffer' \in [Kinds -> Seq(DiagType)]
         /\ NumDiags' \in [Clients -> Nat]
<1>1. CASE Client = "verifier"
  <2> DEFINE diag == [line |-> line, text |-> text]
  <2>1. diag \in DiagType
    BY <1>1 DEF DiagType
  <2> HIDE DEF diag
  <2>2. Buffer[kind] \in Seq(DiagType)
    BY DEF TypeOK
  <2>3. Append(Buffer[kind], diag) \in Seq(DiagType)
    BY <2>1, <2>2, AppendProperties
  <2>4. Buffer' = [Buffer EXCEPT ![kind] = Append(Buffer[kind], diag)] /\ NumDiags' = NumDiags
    BY <1>1 DEF Report, diag
  <2> QED
    BY <2>3, <2>4 DEF TypeOK
<1>2. CASE Client # "verifier"
  <2> DEFINE one == IF kind = "error" THEN 1 ELSE 0
  <2>1. one \in Nat
    OBVIOUS
  <2> HIDE DEF one
  <2>2. NumDiags' = [NumDiags EXCEPT ![Client] = NumDiags[Client] + one] /\ Buffer' = Buffer
    BY <1>2 DEF Report, one
  <2> QED
    BY <2>1, <2>2 DEF TypeOK
<1> QED
  BY <1>1, <1>2

LEMMA HappensOK ==
  ASSUME TypeOK, NEW e \in Events, Happens(e)
  PROVE  events' \in [Events -> Nat]
BY DEF TypeOK, Happens

(* CheckLists works with finite sets of positions.                         *)
LEMMA RightOK ==
  ASSUME TypeOK, pc \in Kinds
  PROVE  /\ Right \in SUBSET DOMAIN Buffer[pc]
         /\ Cardinality(Right) \in Nat /\ (Cardinality(Right) = 0 <=> Right = {})
<1>1. Buffer[pc] \in Seq(DiagType)
  BY DEF TypeOK
<1>2. Right \in SUBSET DOMAIN Buffer[pc]
  BY DEF Right
<1> QED
  BY <1>1, <1>2, SubsetCardinality

(* What one trip through the outer loop of CheckLists adds.                *)
LEMMA CheckDirectiveOK ==
  ASSUME TypeOK, CheckDirective
  PROVE  /\ taken' \in Seq(SUBSET Nat) /\ missing' \in Nat
         /\ Len(taken') = Len(taken) + 1 /\ Len(taken) + 1 \in DOMAIN ED[pc]
         /\ \A j \in DOMAIN taken : taken'[j] = taken[j]
         /\ LET D == ED[pc][Len(taken) + 1]
                T == taken'[Len(taken) + 1]
            IN /\ T \in SUBSET Right /\ \A n \in T : Matches(D, Buffer[pc][n])
               /\ Cardinality(T) \in Nat /\ Cardinality(T) <= D.Max
               /\ missing' = 0 => missing = 0 /\ Cardinality(T) >= D.Min
<1> DEFINE D == ED[pc][Len(taken) + 1]
           found == {n \in Right : Matches(D, Buffer[pc][n])}
<1>1. PICK T \in SUBSET found :
        /\ Cardinality(T) <= D.Max
        /\ taken' = Append(taken, T)
        /\ missing' = missing + IF Cardinality(T) < D.Min THEN D.Min - Cardinality(T) ELSE 0
  BY DEF CheckDirective
<1>2. pc \in Kinds /\ Len(taken) < Len(ED[pc])
  BY DEF CheckDirective
<1>3. Right \in SUBSET DOMAIN Buffer[pc] /\ Buffer[pc] \in Seq(DiagType)
  BY <1>2, RightOK DEF TypeOK
<1>4. DOMAIN Buffer[pc] \in SUBSET Nat
  BY <1>3, DomainFinite
<1>5. T \in SUBSET Right /\ T \in SUBSET DOMAIN Buffer[pc] /\ T \in SUBSET Nat
      /\ \A n \in T : Matches(D, Buffer[pc][n])
  BY <1>3, <1>4
<1>6. Cardinality(T) \in Nat
  BY <1>3, <1>5, SubsetCardinality
<1>7. Len(taken) \in Nat /\ DOMAIN taken = 1 .. Len(taken) /\ taken \in Seq(SUBSET Nat)
  BY LenProperties DEF TypeOK
<1>8. /\ taken' \in Seq(SUBSET Nat) /\ Len(taken') = Len(taken) + 1
      /\ \A j \in 1 .. Len(taken) : taken'[j] = taken[j]
      /\ taken'[Len(taken) + 1] = T
  BY <1>1, <1>5, <1>7, AppendProperties
<1>9. ED[pc] \in Seq(DirectiveType)
  BY <1>2 DEF TypeOK
<1>10. Len(taken) + 1 \in DOMAIN ED[pc]
  BY <1>2, <1>7, <1>9, LenProperties
<1>11. D \in DirectiveType
  BY <1>9, <1>10, ElementOfSeq, LenProperties
<1> HIDE DEF D
<1>12. D.Min \in Nat
  BY <1>11 DEF DirectiveType
<1>13. missing' \in Nat /\ (missing' = 0 => missing = 0 /\ Cardinality(T) >= D.Min)
  BY <1>1, <1>6, <1>12 DEF TypeOK
<1> QED
  BY <1>1, <1>5, <1>6, <1>7, <1>8, <1>10, <1>13 DEF D

(* The counts of the printer and the verifier are set together.            *)
LEMMA SetCounts ==
  ASSUME NEW f \in [Clients -> Nat], NEW a \in Nat, NEW b \in Nat,
         NEW g, g = [f EXCEPT !["printer"] = a, !["verifier"] = b]
  PROVE  g \in [Clients -> Nat] /\ g["printer"] = a /\ g["verifier"] = b
<1> DEFINE h == [f EXCEPT !["printer"] = a]
<1>1. h \in [Clients -> Nat] /\ h["printer"] = a
  BY DEF Clients
<1>2. g = [h EXCEPT !["verifier"] = b]
  OBVIOUS
<1> HIDE DEF h
<1> QED
  BY <1>1, <1>2 DEF Clients

(* The step of one action: what it leaves alone keeps its type.            *)
LEMMA NextOK == IInv /\ [Next]_vars => IInv'
<1> SUFFICES ASSUME IInv, [Next]_vars PROVE IInv'
  OBVIOUS
<1> USE DEF IInv
<1>1. CASE NoFile
  BY <1>1 DEF NoFile, TypeOK, Owners, Deleted, Running, engine, verifier, checking, observer, Kinds
<1>2. CASE OpenFails
  <2>1. Client = "first" /\ 0 \in Nat /\ << >> \in Seq(Words) /\ "error" \in Kinds
    BY <1>2 DEF OpenFails, Owners, Kinds
  <2>2. Buffer' \in [Kinds -> Seq(DiagType)] /\ NumDiags' \in [Clients -> Nat]
    BY <2>1, <1>2, ReportOK DEF OpenFails
  <2>3. TypeOK'
    BY <1>2, <2>2 DEF OpenFails, TypeOK, engine, verifier, checking, observer
  <2>4. Owners'
    BY <1>2 DEF OpenFails, Owners, Deleted, Running, engine, verifier, checking, observer, Kinds
  <2> QED
    BY <2>3, <2>4
<1>3. CASE OpenFile
  BY <1>3 DEF OpenFile, setClient, TypeOK, Owners, Deleted, Running, verifier, checking, observer,
              Kinds, Clients
<1>4. CASE InstallVerifier
  BY <1>4 DEF InstallVerifier, replaceClient, TypeOK, Owners, Deleted, Running, checking, observer,
              Kinds, Clients
<1>5. ASSUME NEW r \in Reports, Diagnose(r) PROVE IInv'
  <2>1. r.kind \in Kinds /\ r.line \in Lines /\ r.text \in Seq(Words) /\ r.line \in Nat
    BY InputsAssumption, BoundsAssumption DEF Lines
  <2>2. Buffer' \in [Kinds -> Seq(DiagType)] /\ NumDiags' \in [Clients -> Nat]
    BY <2>1, <1>5, ReportOK DEF Diagnose
  <2>3. events' \in [Events -> Nat]
    BY <1>5, HappensOK DEF Diagnose, Events
  <2>4. TypeOK'
    BY <1>5, <2>2, <2>3 DEF Diagnose, TypeOK, engine, verifier, checking
  <2>5. Owners'
    BY <1>5 DEF Diagnose, Owners, Deleted, Running, engine, verifier, checking
  <2> QED
    BY <2>4, <2>5
<1>6. ASSUME NEW line \in Lines, ParseNoDiagnostics(line) PROVE IInv'
  <2>1. line \in Nat /\ "error" \in Kinds /\ <<"verify_invalid_no_diags">> \in Seq(Words)
    BY BoundsAssumption DEF Lines, Kinds, Words, ParseErrors
  <2>2. Buffer' \in [Kinds -> Seq(DiagType)] /\ NumDiags' \in [Clients -> Nat]
    BY <2>1, <1>6, ReportOK DEF ParseNoDiagnostics, TypeOK
  <2>3. events' \in [Events -> Nat]
    BY <1>6, HappensOK DEF ParseNoDiagnostics, Events
  <2>4. TypeOK'
    BY <1>6, <2>2, <2>3 DEF ParseNoDiagnostics, TypeOK, engine, checking, Statuses
  <2>5. Owners'
    BY <1>6 DEF ParseNoDiagnostics, Owners, Deleted, Running, engine, checking
  <2> QED
    BY <2>4, <2>5
<1>7. ASSUME NEW line \in Lines, NEW d \in Directives, ParseDirective(d, line) PROVE IInv'
  <2>1. line \in Nat /\ "error" \in Kinds /\ <<"verify_invalid_no_diags">> \in Seq(Words)
    BY BoundsAssumption DEF Lines, Kinds, Words, ParseErrors
  <2>2. Buffer' \in [Kinds -> Seq(DiagType)] /\ NumDiags' \in [Clients -> Nat]
    BY <2>1, <1>7, ReportOK, ErrorOK DEF ParseDirective, TypeOK
  <2>3. events' \in [Events -> Nat]
    BY <1>7, HappensOK DEF ParseDirective, Events
  <2>4. /\ ED' \in [Kinds -> Seq(DirectiveType)]
        /\ \A k \in Kinds : \A i \in DOMAIN ED'[k] : ED'[k][i].Min <= ED'[k][i].Max
    <3>1. CASE UNCHANGED ED
      BY <3>1 DEF TypeOK
    <3>2. CASE ParseError(d, line) = "none"
               /\ ED' = [ED EXCEPT ![d.kind] = Append(@, Directive(d, line))]
      <4> DEFINE D == Directive(d, line)
      <4>1. D \in DirectiveType /\ D.Min <= D.Max
        BY <3>2, DirectiveOK
      <4>2. d.kind \in Kinds
        BY InputsAssumption
      <4> HIDE DEF D
      <4>3. ED[d.kind] \in Seq(DirectiveType)
        BY <4>2 DEF TypeOK
      <4>4. /\ Append(ED[d.kind], D) \in Seq(DirectiveType)
            /\ Len(Append(ED[d.kind], D)) = Len(ED[d.kind]) + 1
            /\ \A i \in 1 .. Len(ED[d.kind]) : Append(ED[d.kind], D)[i] = ED[d.kind][i]
            /\ Append(ED[d.kind], D)[Len(ED[d.kind]) + 1] = D
        BY <4>1, <4>3, AppendProperties
      <4>5. /\ DOMAIN ED[d.kind] = 1 .. Len(ED[d.kind]) /\ Len(ED[d.kind]) \in Nat
            /\ DOMAIN Append(ED[d.kind], D) = 1 .. Len(ED[d.kind]) + 1
        BY <4>3, <4>4, LenProperties
      <4>6. \A i \in DOMAIN Append(ED[d.kind], D) :
              Append(ED[d.kind], D)[i].Min <= Append(ED[d.kind], D)[i].Max
        <5> TAKE i \in DOMAIN Append(ED[d.kind], D)
        <5>1. CASE i = Len(ED[d.kind]) + 1
          BY <5>1, <4>1, <4>4
        <5>2. CASE i \in 1 .. Len(ED[d.kind])
          BY <5>2, <4>2, <4>4, <4>5 DEF TypeOK
        <5> QED
          BY <4>5, <5>1, <5>2
      <4>7. ED' = [ED EXCEPT ![d.kind] = Append(ED[d.kind], D)]
        BY <3>2 DEF D
      <4> QED
        BY <4>2, <4>4, <4>6, <4>7 DEF TypeOK
    <3> QED
      BY <1>7, <3>1, <3>2 DEF ParseDirective
  <2>5. TypeOK'
    BY <1>7, <2>2, <2>3, <2>4 DEF ParseDirective, TypeOK, engine, checking, Statuses
  <2>6. Owners'
    BY <1>7 DEF ParseDirective, Owners, Deleted, Running, engine, checking
  <2> QED
    BY <2>5, <2>6
<1>8. CASE FinishPrinter
  BY <1>8 DEF FinishPrinter, TypeOK, Owners, Deleted, Running, engine, verifier, checking, observer,
              Kinds
<1>9. CASE CheckBegin
  <2>1. NumDiags' \in [Clients -> Nat] /\ Status' \in Statuses
    <3>1. CASE Status = "HasNoDirectives"
      <4>1. NumDiags["printer"] + 1 \in Nat /\ NumDiags["verifier"] + 1 \in Nat
        BY DEF TypeOK, Clients
      <4>2. NumDiags' = [NumDiags EXCEPT !["printer"] = NumDiags["printer"] + 1,
                                         !["verifier"] = NumDiags["verifier"] + 1]
        BY <1>9, <3>1 DEF CheckBegin
      <4> QED
        BY <4>1, <4>2, <1>9, <3>1, SetCounts DEF CheckBegin, TypeOK, Statuses
    <3>2. CASE Status # "HasNoDirectives"
      BY <1>9, <3>2 DEF CheckBegin, TypeOK
    <3> QED
      BY <3>1, <3>2
  <2>2. TypeOK'
    BY <1>9, <2>1 DEF CheckBegin, replaceClient, TypeOK, observer, Kinds, Clients
  <2>3. Owners'
    BY <1>9 DEF CheckBegin, replaceClient, Owners, Deleted, Running, Kinds
  <2> QED
    BY <2>2, <2>3
<1>10. CASE CheckDirective
  <2>1. taken' \in Seq(SUBSET Nat) /\ missing' \in Nat
    BY <1>10, CheckDirectiveOK
  <2>2. TypeOK'
    BY <1>10, <2>1 DEF CheckDirective, TypeOK, engine, verifier, observer
  <2>3. Owners'
    BY <1>10 DEF CheckDirective, Owners, Deleted, Running, engine, verifier
  <2> QED
    BY <2>2, <2>3
<1>11. CASE CheckListsEnd
  <2>1. Cardinality(Right) \in Nat /\ Printed \in Nat
    BY <1>11, RightOK DEF CheckListsEnd, Printed, TypeOK
  <2> DEFINE printer == NumDiags["printer"] + Printed
             verdict == NumDiags["verifier"] + missing + Cardinality(Right)
  <2>2. printer \in Nat /\ verdict \in Nat
    BY <2>1 DEF TypeOK, Clients
  <2>3. NumDiags' = [NumDiags EXCEPT !["printer"] = printer, !["verifier"] = verdict]
    BY <1>11 DEF CheckListsEnd
  <2> HIDE DEF printer, verdict
  <2>4. NumDiags' \in [Clients -> Nat] /\ << >> \in Seq(SUBSET Nat)
    BY <2>2, <2>3, SetCounts DEF TypeOK
  <2>5. TypeOK'
    BY <1>11, <2>4 DEF CheckListsEnd, TypeOK, engine, verifier, observer, Kinds
  <2>6. Owners'
    BY <1>11 DEF CheckListsEnd, Owners, Deleted, Running, engine, verifier, Kinds
  <2> QED
    BY <2>5, <2>6
<1>12. CASE CheckEnd
  <2>1. << >> \in Seq(DirectiveType) /\ << >> \in Seq(DiagType)
    OBVIOUS
  <2>2. /\ ED' \in [Kinds -> Seq(DirectiveType)] /\ Buffer' \in [Kinds -> Seq(DiagType)]
        /\ \A k \in Kinds : \A i \in DOMAIN ED'[k] : ED'[k][i].Min <= ED'[k][i].Max
    BY <1>12, <2>1 DEF CheckEnd
  <2>3. TypeOK'
    BY <1>12, <2>2 DEF CheckEnd, replaceClient, TypeOK, checking, Clients
  <2>4. Owners'
    BY <1>12 DEF CheckEnd, replaceClient, Owners, Deleted, Running, checking, Kinds
  <2> QED
    BY <2>3, <2>4
<1>13. CASE Exit
  <2>1. deleted' \in [Clients -> Nat]
    BY <1>13 DEF Exit, TypeOK, Clients
  <2>2. TypeOK'
    BY <1>13, <2>1 DEF Exit, TypeOK, verifier, checking, observer
  <2>3. Owners'
    BY <1>13 DEF Exit, TypeOK, Owners, Deleted, Running, verifier, checking, Kinds, Clients
  <2> QED
    BY <2>2, <2>3
<1>14. CASE UNCHANGED vars
  BY <1>14 DEF vars, TypeOK, Owners, Deleted, Running, engine, verifier, checking, observer
<1> QED
  BY <1>1, <1>2, <1>3, <1>4, <1>5, <1>6, <1>7, <1>8, <1>9, <1>10, <1>11, <1>12, <1>13, <1>14
     DEF Next, Exited

(* TypeOK holds of every run of the driver.                                *)
THEOREM TypeCorrect == Spec => []TypeOK
BY InitOK, NextOK, PTL DEF Spec, IInv

(* The engine, the verifier and CheckDiagnostics together delete each      *)
(* client exactly once.                                                    *)
THEOREM DeletionCorrect == Spec => []ClientsDeletedOnce
BY InitOK, NextOK, OwnersImplyDeletedOnce, PTL DEF Spec, IInv

-----------------------------------------------------------------------------
(* The verdict.  While CheckLists runs, the directives it has been through *)
(* hold disjoint sets of diagnostics that they match, no more than they    *)
(* allow and, if nothing is missing so far, no fewer.                      *)

Holds(j) ==
  /\ j \in DOMAIN ED[pc]
  /\ taken[j] \in SUBSET DOMAIN Buffer[pc]
  /\ \A n \in taken[j] : Matches(ED[pc][j], Buffer[pc][n])
  /\ Cardinality(taken[j]) \in Nat
  /\ Cardinality(taken[j]) <= ED[pc][j].Max
  /\ missing = 0 => Cardinality(taken[j]) >= ED[pc][j].Min

Matching ==
  /\ \A j \in DOMAIN taken : Holds(j)
  /\ \A i, j \in DOMAIN taken : i # j => taken[i] \cap taken[j] = {}

Passing == NumDiags["verifier"] = 0

Verdicts ==
  /\ pc \notin Kinds => taken = << >> /\ missing = 0
  /\ pc \in Kinds => Matching
  /\ Passing /\ pc \in {"note", "checked"} => Consistent(ED["error"], Buffer["error"])
  /\ Passing /\ pc = "checked" => Consistent(ED["note"], Buffer["note"])
  /\ Passing /\ pc \in {"finished", "exited"} /\ Client = "verifier" =>
       \A k \in Kinds : Consistent(processed.ED[k], processed.Buffer[k])
  /\ pc = "exited" /\ exitCode = 0 => NumDiags[Client] = 0

(* When CheckLists has been through all directives and is satisfied, what  *)
(* it has matched shows that the directives and the diagnostics fit.       *)
LEMMA MatchingIsConsistent ==
  ASSUME TypeOK, pc \in Kinds, Matching, Len(taken) = Len(ED[pc]), missing = 0, Right = {}
  PROVE  Consistent(ED[pc], Buffer[pc])
<1> DEFINE diags == Buffer[pc]
           dirs == ED[pc]
           f == [n \in DOMAIN diags |-> CHOOSE j \in DOMAIN taken : n \in taken[j]]
<1>1. dirs \in Seq(DirectiveType) /\ taken \in Seq(SUBSET Nat)
  BY DEF TypeOK
<1>2. DOMAIN taken = DOMAIN dirs
  BY <1>1, LenProperties
<1>3. \A n \in DOMAIN diags : f[n] \in DOMAIN taken /\ n \in taken[f[n]]
  BY DEF Right
<1>4. \A j \in DOMAIN taken : {n \in DOMAIN diags : f[n] = j} = taken[j]
  <2> TAKE j \in DOMAIN taken
  <2>1. taken[j] \in SUBSET DOMAIN diags
    BY DEF Matching, Holds
  <2>2. ASSUME NEW n \in taken[j] PROVE f[n] = j
    <3>1. n \in DOMAIN diags
      BY <2>1
    <3>2. f[n] \in DOMAIN taken /\ n \in taken[f[n]]
      BY <1>3, <3>1
    <3> HIDE DEF f
    <3> QED
      BY <3>2 DEF Matching
  <2> HIDE DEF f, diags
  <2> QED
    BY <1>3, <2>1, <2>2
<1>5. f \in [DOMAIN diags -> DOMAIN dirs]
  BY <1>2, <1>3
<1>6. \A n \in DOMAIN diags : Matches(dirs[f[n]], diags[n])
  BY <1>3 DEF Matching, Holds
<1>7. ASSUME NEW j \in DOMAIN dirs
      PROVE  Cardinality({n \in DOMAIN diags : f[n] = j}) \in dirs[j].Min .. dirs[j].Max
  <2>1. dirs[j] \in DirectiveType
    BY <1>1, LenProperties, ElementOfSeq
  <2>2. dirs[j].Min \in Nat /\ dirs[j].Max \in Nat
    BY <2>1 DEF DirectiveType
  <2>3. /\ Cardinality(taken[j]) \in Nat
        /\ dirs[j].Min <= Cardinality(taken[j]) /\ Cardinality(taken[j]) <= dirs[j].Max
    BY <1>2 DEF Matching, Holds
  <2> DEFINE own == {n \in DOMAIN diags : f[n] = j}
  <2>4. own = taken[j]
    BY <1>2, <1>4, Zenon
  <2> HIDE DEF own, f, diags, dirs
  <2>5. Cardinality(own) \in dirs[j].Min .. dirs[j].Max
    BY <2>2, <2>3, <2>4
  <2> QED
    BY <2>5 DEF own
<1> HIDE DEF f, diags, dirs
<1>8. Consistent(dirs, diags)
  BY <1>5, <1>6, <1>7 DEF Consistent
<1> QED
  BY <1>8 DEF diags, dirs

LEMMA InitVerdicts == Init => Verdicts
BY DEF Init, Verdicts, Kinds

LEMMA NextVerdicts == IInv /\ Verdicts /\ [Next]_vars => Verdicts'
<1> SUFFICES ASSUME IInv, Verdicts, [Next]_vars PROVE Verdicts'
  OBVIOUS
<1>1. TypeOK /\ Owners
  BY DEF IInv
<1>2. CASE UNCHANGED <<pc, Client, NumDiags, exitCode, taken, missing, ED, Buffer, processed>>
  BY <1>2 DEF Verdicts, Passing, Matching, Holds, Right
<1>3. CASE pc \in {"start", "opened", "source"} /\ pc' \in {"start", "opened", "source"}
           /\ UNCHANGED <<taken, missing>>
  BY <1>3 DEF Verdicts, Kinds
<1>4. CASE NoFile \/ OpenFails \/ FinishPrinter
  <2>1. Client' # "verifier" /\ pc' = "finished" /\ pc \notin Kinds /\ UNCHANGED <<taken, missing>>
    BY <1>1, <1>4 DEF NoFile, OpenFails, FinishPrinter, Owners, Running, engine, checking, Kinds
  <2> QED
    BY <2>1 DEF Verdicts, Kinds
<1>5. CASE CheckBegin
  BY <1>5 DEF CheckBegin, Verdicts, Matching, Kinds
<1>6. CASE CheckDirective
  <2>1. pc \in Kinds /\ UNCHANGED <<pc, ED, Buffer, NumDiags, Client, exitCode, processed>>
    BY <1>6 DEF CheckDirective, engine, verifier, observer
  <2> DEFINE j0 == Len(taken) + 1
             T == taken'[j0]
             D == ED[pc][j0]
  <2>2. /\ taken' \in Seq(SUBSET Nat)
        /\ Len(taken') = Len(taken) + 1 /\ j0 \in DOMAIN ED[pc]
        /\ \A j \in DOMAIN taken : taken'[j] = taken[j]
        /\ T \in SUBSET Right /\ \A n \in T : Matches(D, Buffer[pc][n])
        /\ Cardinality(T) \in Nat /\ Cardinality(T) <= D.Max
        /\ missing' = 0 => missing = 0 /\ Cardinality(T) >= D.Min
    BY <1>1, <1>6, CheckDirectiveOK
  <2>3. DOMAIN taken' = DOMAIN taken \cup {j0} /\ j0 \notin DOMAIN taken
    <3>1. Len(taken) \in Nat /\ DOMAIN taken = 1 .. Len(taken)
      BY <1>1, LenProperties DEF TypeOK
    <3>2. DOMAIN taken' = 1 .. Len(taken')
      BY <2>2, LenProperties
    <3> QED
      BY <2>2, <3>1, <3>2
  <2> HIDE DEF j0
  <2>4. ASSUME NEW j \in DOMAIN taken' PROVE Holds(j)'
    <3>1. CASE j \in DOMAIN taken
      BY <3>1, <2>1, <2>2 DEF Verdicts, Matching, Holds
    <3>2. CASE j = j0
      <4>1. T \in SUBSET DOMAIN Buffer[pc]
        BY <2>2 DEF Right
      <4> QED
        BY <3>2, <4>1, <2>1, <2>2 DEF Holds
    <3> QED
      BY <2>3, <3>1, <3>2
  <2>5. ASSUME NEW i \in DOMAIN taken', NEW j \in DOMAIN taken', i # j
        PROVE  taken'[i] \cap taken'[j] = {}
    <3>1. \A l \in DOMAIN taken : T \cap taken[l] = {}
      BY <2>2 DEF Right
    <3> QED
      BY <2>1, <2>2, <2>3, <2>5, <3>1 DEF Verdicts, Matching
  <2> QED
    BY <2>1, <2>4, <2>5 DEF Verdicts, Matching, Passing, Kinds
<1>7. CASE CheckListsEnd
  <2>1. pc \in Kinds /\ Len(taken) = Len(ED[pc]) /\ UNCHANGED <<ED, Buffer>>
        /\ taken' = << >> /\ missing' = 0
        /\ pc' = (IF pc = "error" THEN "note" ELSE "checked")
    BY <1>7 DEF CheckListsEnd, verifier
  <2>2. Passing' => Passing /\ missing = 0 /\ Right = {}
    <3>1. Cardinality(Right) \in Nat /\ (Cardinality(Right) = 0 <=> Right = {})
          /\ Printed \in Nat
      BY <1>1, <2>1, RightOK DEF Printed
    <3>2. missing \in Nat /\ NumDiags["verifier"] \in Nat /\ NumDiags["printer"] \in Nat
      BY <1>1 DEF TypeOK, Clients
    <3> DEFINE printer == NumDiags["printer"] + Printed
               verdict == NumDiags["verifier"] + missing + Cardinality(Right)
    <3>3. NumDiags' = [NumDiags EXCEPT !["printer"] = printer, !["verifier"] = verdict]
      BY <1>7 DEF CheckListsEnd
    <3>4. printer \in Nat /\ verdict \in Nat
      BY <3>1, <3>2
    <3>5. NumDiags'["verifier"] = verdict
      <4> HIDE DEF printer, verdict
      <4> QED
        BY <1>1, <3>3, <3>4, SetCounts DEF TypeOK
    <3> QED
      BY <3>1, <3>2, <3>5 DEF Passing
  <2>3. Passing' => Consistent(ED[pc], Buffer[pc])
    BY <1>1, <2>1, <2>2, MatchingIsConsistent DEF Verdicts
  <2>4. Passing' /\ pc = "note" => Consistent(ED["error"], Buffer["error"])
    BY <2>2 DEF Verdicts
  <2> QED
    BY <2>1, <2>3, <2>4 DEF Verdicts, Kinds, Matching
<1>8. CASE CheckEnd
  <2>1. /\ pc = "checked" /\ pc' = "finished" /\ UNCHANGED <<NumDiags, taken, missing>>
        /\ processed' = [ED |-> ED, Buffer |-> Buffer]
    BY <1>8 DEF CheckEnd, checking
  <2>2. Passing' => \A k \in Kinds : Consistent(processed'.ED[k], processed'.Buffer[k])
    BY <2>1 DEF Verdicts, Passing, Kinds
  <2> QED
    BY <2>1, <2>2 DEF Verdicts, Kinds
<1>9. CASE Exit
  <2>1. /\ pc = "finished" /\ pc' = "exited"
        /\ UNCHANGED <<NumDiags, taken, missing, Client, processed>>
        /\ exitCode' = (IF NumDiags[Client] > 0 THEN 1 ELSE 0)
    BY <1>9 DEF Exit, checking, observer
  <2>2. exitCode' = 0 => NumDiags[Client] = 0
    BY <1>1, <2>1 DEF TypeOK
  <2> QED
    BY <2>1, <2>2 DEF Verdicts, Passing, Kinds
<1>10. OpenFile \/ InstallVerifier \/ (\E r \in Reports : Diagnose(r))
         \/ (\E line \in Lines : ParseNoDiagnostics(line)
                                 \/ \E d \in Directives : ParseDirective(d, line))
       => pc \in {"start", "opened", "source"} /\ pc' \in {"start", "opened", "source"}
          /\ UNCHANGED <<taken, missing>>
  BY DEF OpenFile, InstallVerifier, Diagnose, ParseNoDiagnostics, ParseDirective, checking
<1>11. UNCHANGED vars \/ Exited
       => UNCHANGED <<pc, Client, NumDiags, exitCode, taken, missing, ED, Buffer, processed>>
  BY DEF vars, Exited, engine, verifier, checking, observer
<1> QED
  BY <1>2, <1>3, <1>4, <1>5, <1>6, <1>7, <1>8, <1>9, <1>10, <1>11 DEF Next

LEMMA VerdictsImplySound ==
  ASSUME Verdicts PROVE VerdictSound
BY DEF Verdicts, VerdictSound, Verdict, Passing

(* A test that passes is right to: whatever the file says and whatever is  *)
(* reported, exit code 0 means that directives and diagnostics fit.        *)
THEOREM VerdictCorrect == Spec => []VerdictSound
<1>1. Init => IInv /\ Verdicts
  BY InitOK, InitVerdicts
<1>2. IInv /\ Verdicts /\ [Next]_vars => (IInv /\ Verdicts)'
  BY NextOK, NextVerdicts
<1>3. IInv /\ Verdicts => VerdictSound
  BY VerdictsImplySound
<1> QED
  BY <1>1, <1>2, <1>3, PTL DEF Spec
-----------------------------------------------------------------------------
(* The verdict is counted twice, by the printer, which is given an error,  *)
(* and by the verifier, whose count decides; and the file has said         *)
(* something unless its silence has been counted.                          *)

Checked ==
  \/ pc \in Kinds \cup {"checked"}
  \/ pc \in {"finished", "exited"} /\ Client = "verifier"
Said == events["directive"] + events["no-diagnostics"] > 0

Counts ==
  /\ verify /\ pc \in {"start", "opened", "source"} =>
       NumDiags["printer"] = 0 /\ NumDiags["verifier"] = 0
  /\ Checked => (NumDiags["printer"] > 0 <=> NumDiags["verifier"] > 0)
  /\ Checked => Status # "HasNoDirectives"
  /\ Status = "HasNoDirectivesReported" => NumDiags["verifier"] > 0
  /\ Status \notin {"HasNoDirectives", "HasNoDirectivesReported"} => Said
  /\ pc = "exited" => (exitCode = 0 <=> NumDiags[Client] = 0)

LEMMA InitCounts == Init => Counts
BY DEF Init, Counts, Checked, Kinds, Clients

(* A report of the front end while the verifier listens counts nowhere.    *)
LEMMA ReportCounts ==
  ASSUME TypeOK, Counts, pc = "source", Owners,
         NEW kind, NEW line, NEW text, Report(kind, line, text)
  PROVE  /\ verify => NumDiags' = NumDiags
         /\ NumDiags'["verifier"] = NumDiags["verifier"]
BY DEF TypeOK, Owners, Running, Report, Clients

LEMMA SaidOnce ==
  ASSUME TypeOK, NEW e \in {"directive", "no-diagnostics"}, Happens(e)
  PROVE  Said'
BY DEF TypeOK, Happens, Said, Events

LEMMA NextCounts == IInv /\ IInv' /\ Verdicts /\ Counts /\ [Next]_vars => Counts'
<1> SUFFICES ASSUME IInv, IInv', Verdicts, Counts, [Next]_vars PROVE Counts'
  OBVIOUS
<1>1. TypeOK /\ Owners /\ TypeOK' /\ Owners'
  BY DEF IInv
<1>2. CASE UNCHANGED <<pc, verify, Client, NumDiags, Status, events, exitCode>>
  BY <1>2 DEF Counts, Checked, Said
<1>3. CASE NoFile \/ FinishPrinter
  BY <1>1, <1>3 DEF NoFile, FinishPrinter, Counts, Checked, Said, Owners, Running, engine, verifier,
                    observer, Kinds
<1>4. CASE OpenFails
  <2>1. Client = "first" /\ Client' = "first" /\ Status' = Status /\ events' = events
        /\ pc' = "finished" /\ NumDiags' \in [Clients -> Nat]
    BY <1>1, <1>4 DEF OpenFails, Owners, engine, verifier, observer, TypeOK
  <2>2. NumDiags'["verifier"] = NumDiags["verifier"]
    BY <1>1, <1>4, <2>1 DEF OpenFails, Report, TypeOK, Clients
  <2> QED
    BY <2>1, <2>2 DEF Counts, Checked, Said, Kinds
<1>5. CASE OpenFile \/ InstallVerifier
  <2>1. /\ pc \in {"start", "opened"} /\ pc' \in {"opened", "source"}
        /\ UNCHANGED <<verify, NumDiags, Status, events>>
    BY <1>5 DEF OpenFile, InstallVerifier, verifier, observer
  <2> QED
    BY <2>1 DEF Counts, Checked, Said, Kinds
<1>6. ASSUME NEW r \in Reports, Diagnose(r) PROVE Counts'
  <2>1. pc = "source" /\ pc' = pc /\ Status' = Status /\ verify' = verify
    BY <1>6 DEF Diagnose, verifier
  <2>2. (verify => NumDiags' = NumDiags) /\ NumDiags'["verifier"] = NumDiags["verifier"]
    BY <1>1, <1>6, <2>1, ReportCounts DEF Diagnose
  <2>3. /\ events'["directive"] = events["directive"]
        /\ events'["no-diagnostics"] = events["no-diagnostics"]
    BY <1>1, <1>6 DEF Diagnose, Happens, TypeOK, Events
  <2> QED
    BY <2>1, <2>2, <2>3 DEF Counts, Checked, Said, Kinds
<1>7. ASSUME NEW line \in Lines,
             ParseNoDiagnostics(line) \/ \E d \in Directives : ParseDirective(d, line)
      PROVE  Counts'
  <2>1. pc = "source" /\ verify /\ pc' = pc /\ verify' = verify
        /\ (Status' = Status \/ Status' \in {"HasExpectedNoDiagnostics",
                                             "HasOtherExpectedDirectives"})
    BY <1>7 DEF ParseNoDiagnostics, ParseDirective
  <2>2. NumDiags' = NumDiags
    BY <1>1, <1>7, <2>1, ReportCounts DEF ParseNoDiagnostics, ParseDirective
  <2>3. Said'
    BY <1>1, <1>7, SaidOnce DEF ParseNoDiagnostics, ParseDirective
  <2> QED
    BY <2>1, <2>2, <2>3 DEF Counts, Checked, Kinds
<1>8. CASE CheckBegin
  <2>1. /\ pc = "source" /\ verify /\ pc' = "error" /\ events' = events
        /\ IF Status = "HasNoDirectives"
             THEN /\ Status' = "HasNoDirectivesReported"
                  /\ NumDiags' = [NumDiags EXCEPT !["printer"] = @ + 1, !["verifier"] = @ + 1]
             ELSE UNCHANGED <<Status, NumDiags>>
    BY <1>8 DEF CheckBegin, observer
  <2>2. NumDiags["printer"] = 0 /\ NumDiags["verifier"] = 0
    BY <2>1 DEF Counts
  <2>3. Status # "HasNoDirectives" => Status # "HasNoDirectivesReported" /\ Said
    BY <2>1, <2>2 DEF Counts
  <2>4. CASE Status = "HasNoDirectives"
    <3>1. NumDiags' = [NumDiags EXCEPT !["printer"] = 1, !["verifier"] = 1]
      BY <2>1, <2>2, <2>4
    <3>2. NumDiags'["printer"] = 1 /\ NumDiags'["verifier"] = 1
      <4>1. NumDiags \in [Clients -> Nat]
        BY <1>1 DEF TypeOK
      <4> QED
        BY <3>1, <4>1, SetCounts
    <3> QED
      BY <2>1, <2>4, <3>2 DEF Counts, Checked, Kinds
  <2>5. CASE Status # "HasNoDirectives"
    BY <2>1, <2>2, <2>3, <2>5 DEF Counts, Checked, Said, Kinds
  <2> QED
    BY <2>4, <2>5
<1>9. CASE CheckListsEnd
  <2>1. pc \in Kinds /\ pc' \in {"note", "checked"} /\ Status' = Status /\ events' = events
    BY <1>9 DEF CheckListsEnd, verifier, observer
  <2>2. Cardinality(Right) \in Nat /\ (Cardinality(Right) = 0 <=> Right = {}) /\ missing \in Nat
        /\ NumDiags["printer"] \in Nat /\ NumDiags["verifier"] \in Nat
    BY <1>1, <2>1, RightOK DEF TypeOK, Clients
  <2>3. Printed \in Nat /\ (Printed > 0 <=> missing + Cardinality(Right) > 0)
    BY <2>2 DEF Printed
  <2> DEFINE printer == NumDiags["printer"] + Printed
             verdict == NumDiags["verifier"] + missing + Cardinality(Right)
  <2>4. printer \in Nat /\ verdict \in Nat
    BY <2>2, <2>3
  <2>5. NumDiags' = [NumDiags EXCEPT !["printer"] = printer, !["verifier"] = verdict]
    BY <1>9 DEF CheckListsEnd
  <2>6. NumDiags'["printer"] = printer /\ NumDiags'["verifier"] = verdict
    <3>1. NumDiags \in [Clients -> Nat]
      BY <1>1 DEF TypeOK
    <3> HIDE DEF printer, verdict
    <3> QED
      BY <3>1, <2>4, <2>5, SetCounts
  <2>7. NumDiags["printer"] > 0 <=> NumDiags["verifier"] > 0
    BY <2>1 DEF Counts, Checked
  <2>8. /\ NumDiags'["printer"] > 0 <=> NumDiags'["verifier"] > 0
        /\ NumDiags["verifier"] > 0 => NumDiags'["verifier"] > 0
    BY <2>2, <2>3, <2>6, <2>7
  <2> QED
    BY <2>1, <2>8 DEF Counts, Checked, Said, Kinds
<1>10. CASE CheckEnd
  BY <1>10 DEF CheckEnd, Counts, Checked, Said, Kinds
<1>11. CASE Exit
  <2>1. /\ pc = "finished" /\ pc' = "exited" /\ UNCHANGED <<NumDiags, Client, Status, events>>
        /\ exitCode' = (IF NumDiags[Client] > 0 THEN 1 ELSE 0)
    BY <1>11 DEF Exit, verifier, observer
  <2>2. exitCode' = 0 <=> NumDiags[Client] = 0
    BY <1>1, <2>1 DEF TypeOK
  <2> QED
    BY <2>1, <2>2 DEF Counts, Checked, Said, Kinds
<1>12. UNCHANGED vars \/ Exited \/ CheckDirective
       => UNCHANGED <<pc, verify, Client, NumDiags, Status, events, exitCode>>
  BY DEF vars, Exited, CheckDirective, engine, verifier, observer
<1> QED
  BY <1>2, <1>3, <1>4, <1>5, <1>6, <1>7, <1>8, <1>9, <1>10, <1>11, <1>12 DEF Next

LEMMA CountsImply ==
  ASSUME TypeOK, Counts PROVE VerdictExplained /\ SilentFileFails
<1>1. VerdictExplained
  BY DEF TypeOK, Counts, Checked, VerdictExplained, Clients
<1>2. SilentFileFails
  BY DEF TypeOK, Counts, Checked, Said, SilentFileFails, Verdict, Statuses
<1> QED
  BY <1>1, <1>2

LEMMA CountsInvariant == Spec => [](IInv /\ Verdicts /\ Counts)
<1>1. Init => IInv /\ Verdicts /\ Counts
  BY InitOK, InitVerdicts, InitCounts
<1>2. IInv /\ Verdicts /\ Counts /\ [Next]_vars => (IInv /\ Verdicts /\ Counts)'
  BY NextOK, NextVerdicts, NextCounts
<1> QED
  BY <1>1, <1>2, PTL DEF Spec

(* The printer has been given an error exactly when the verdict is failure. *)
THEOREM ExplanationCorrect == Spec => []VerdictExplained
<1>1. IInv /\ Verdicts /\ Counts => VerdictExplained
  BY CountsImply DEF IInv
<1> QED
  BY <1>1, CountsInvariant, PTL

(* A file without directives fails.                                        *)
THEOREM SilenceCorrect == Spec => []SilentFileFails
<1>1. IInv /\ Verdicts /\ Counts => SilentFileFails
  BY CountsImply DEF IInv
<1> QED
  BY <1>1, CountsInvariant, PTL
-----------------------------------------------------------------------------
(* What a test says.  Each directive has been accepted or has left an      *)
(* error in the buffer; and `expected-no-diagnostics' leaves no directive  *)
(* accepted, unless the two together have left an error.                   *)

NoDirectives(ed) == \A k \in Kinds : ed[k] = << >>
Contradicted(buffer) == Errors(buffer, {"verify_invalid_no_diags"}) # {}

Kept ==
  /\ pc \in {"start", "opened"} => events["directive"] = 0 /\ events["no-diagnostics"] = 0
  /\ verify /\ pc \in {"start", "opened", "source"} =>
       events["directive"] <= Len(ED["error"]) + Len(ED["note"])
                                + Cardinality(Errors(Buffer, ParseErrors))
  /\ Status # "HasOtherExpectedDirectives" => NoDirectives(ED)
  /\ verify /\ pc \in {"source", "checked"} \cup Kinds /\ events["no-diagnostics"] > 0 =>
       Status = "HasExpectedNoDiagnostics" \/ Contradicted(Buffer)
  /\ Client = "verifier" /\ pc \in {"finished", "exited"} =>
       /\ processed.Buffer \in [Kinds -> Seq(DiagType)]
       /\ events["no-diagnostics"] > 0 =>
            NoDirectives(processed.ED) \/ Contradicted(processed.Buffer)

LEMMA InitKept == Init => Kept
<1> SUFFICES ASSUME Init PROVE Kept
  OBVIOUS
<1>1. Errors(Buffer, ParseErrors) = {} /\ Cardinality(Errors(Buffer, ParseErrors)) = 0
  BY FS_EmptySet DEF Init, Errors, Kinds
<1>2. NoDirectives(ED)
  BY DEF Init, NoDirectives
<1>3. Len(ED["error"]) = 0 /\ Len(ED["note"]) = 0
  BY DEF Init, Kinds
<1>4. events["directive"] = 0 /\ events["no-diagnostics"] = 0 /\ pc = "start"
  BY DEF Init, Events
<1> QED
  BY <1>1, <1>2, <1>3, <1>4 DEF Kept, Kinds

(* A report to the verifier never takes an error away, and an error about  *)
(* a directive is one more.                                                *)
LEMMA ReportKeepsErrors ==
  ASSUME TypeOK, Client = "verifier", NEW kind \in Kinds, NEW line \in Lines,
         NEW text \in Seq(Words), Report(kind, line, text), NEW W
  PROVE  /\ Errors(Buffer, W) \subseteq Errors(Buffer', W)
         /\ IsFiniteSet(Errors(Buffer, W)) /\ IsFiniteSet(Errors(Buffer', W))
         /\ kind = "error" /\ (\E e \in W : text = <<e>>) =>
              /\ Errors(Buffer', W) # {}
              /\ Cardinality(Errors(Buffer', W)) = Cardinality(Errors(Buffer, W)) + 1
<1> DEFINE diag == [line |-> line, text |-> text]
           old == Buffer["error"]
           new == Buffer'["error"]
<1>1. diag \in DiagType /\ "error" \in Kinds
  BY DEF DiagType, Kinds
<1>2. old \in Seq(DiagType) /\ Buffer[kind] \in Seq(DiagType)
  BY <1>1 DEF TypeOK
<1>3. Buffer' = [Buffer EXCEPT ![kind] = Append(Buffer[kind], diag)]
  BY DEF Report
<1>4. new = IF kind = "error" THEN Append(old, diag) ELSE old
  BY <1>1, <1>3 DEF TypeOK
<1> HIDE DEF diag, new
<1>5. DOMAIN old = 1 .. Len(old) /\ Len(old) \in Nat
  BY <1>2, LenProperties
<1>6. Append(old, diag) \in Seq(DiagType) /\ Len(Append(old, diag)) = Len(old) + 1
      /\ (\A i \in 1 .. Len(old) : Append(old, diag)[i] = old[i])
      /\ Append(old, diag)[Len(old) + 1] = diag
  BY <1>1, <1>2, AppendProperties
<1>7. DOMAIN Append(old, diag) = 1 .. Len(old) + 1
  BY <1>6, LenProperties
<1>8. new \in Seq(DiagType)
  BY <1>2, <1>4, <1>6
<1>9. DOMAIN old \subseteq DOMAIN new /\ \A i \in DOMAIN old : new[i] = old[i]
  BY <1>4, <1>5, <1>6, <1>7
<1>10. Errors(Buffer, W) = {n \in DOMAIN old : \E e \in W : old[n].text = <<e>>}
       /\ Errors(Buffer', W) = {n \in DOMAIN new : \E e \in W : new[n].text = <<e>>}
  BY DEF Errors, new
<1>11. Errors(Buffer, W) \subseteq Errors(Buffer', W)
  BY <1>9, <1>10
<1>12. IsFiniteSet(Errors(Buffer, W)) /\ IsFiniteSet(Errors(Buffer', W))
  BY <1>2, <1>8, <1>10, SubsetCardinality
<1>13. ASSUME kind = "error", \E e \in W : text = <<e>>
       PROVE  /\ Errors(Buffer', W) # {}
              /\ Cardinality(Errors(Buffer', W)) = Cardinality(Errors(Buffer, W)) + 1
  <2>1. new = Append(old, diag) /\ diag.text = text
    BY <1>4, <1>13 DEF diag
  <2>2. Errors(Buffer', W) = Errors(Buffer, W) \cup {Len(old) + 1}
    <3>1. Len(old) + 1 \in Errors(Buffer', W)
      BY <1>5, <1>6, <1>7, <1>10, <1>13, <2>1
    <3>2. ASSUME NEW n \in Errors(Buffer', W), n # Len(old) + 1 PROVE n \in Errors(Buffer, W)
      <4>1. n \in 1 .. Len(old) + 1
        BY <1>7, <1>10, <2>1
      <4>2. n \in DOMAIN old
        BY <1>5, <3>2, <4>1
      <4> QED
        BY <1>9, <1>10, <4>2
    <3> QED
      BY <1>11, <3>1, <3>2
  <2>3. Len(old) + 1 \notin Errors(Buffer, W)
    BY <1>5, <1>10
  <2> QED
    BY <1>12, <2>2, <2>3, FS_AddElement
<1> QED
  BY <1>11, <1>12, <1>13

LEMMA AcceptedCount ==
  ASSUME TypeOK PROVE Len(ED["error"]) + Len(ED["note"]) \in Nat
BY LenProperties DEF TypeOK, Kinds

(* An accepted directive makes its list one longer.                        *)
LEMMA AcceptLengthens ==
  ASSUME TypeOK, NEW kind \in Kinds, NEW D \in DirectiveType,
         ED' = [ED EXCEPT ![kind] = Append(@, D)]
  PROVE  Len(ED'["error"]) + Len(ED'["note"]) = Len(ED["error"]) + Len(ED["note"]) + 1
<1>1. \A k \in Kinds : ED[k] \in Seq(DirectiveType) /\ Len(ED[k]) \in Nat
  BY LenProperties DEF TypeOK
<1>2. \A k \in Kinds : Len(Append(ED[k], D)) = Len(ED[k]) + 1
  BY <1>1, AppendProperties
<1>3. \A k \in Kinds : Len(ED'[k]) = IF k = kind THEN Len(ED[k]) + 1 ELSE Len(ED[k])
  BY <1>2 DEF TypeOK
<1> DEFINE L(k) == Len(ED[k])
           M(k) == Len(ED'[k])
<1>4. /\ L("error") \in Nat /\ L("note") \in Nat
      /\ M("error") = IF kind = "error" THEN L("error") + 1 ELSE L("error")
      /\ M("note") = IF kind = "note" THEN L("note") + 1 ELSE L("note")
      /\ kind = "error" \/ kind = "note"
  BY <1>1, <1>3 DEF Kinds
<1> HIDE DEF L, M
<1>5. M("error") + M("note") = L("error") + L("note") + 1
  BY <1>4
<1> QED
  BY <1>5 DEF L, M

LEMMA HappensOnce ==
  ASSUME TypeOK, NEW e \in Events, Happens(e)
  PROVE  /\ events'[e] = events[e] + 1 /\ \A o \in Events \ {e} : events'[o] = events[o]
         /\ events[e] \in Nat /\ processed' = processed
BY DEF TypeOK, Happens

LEMMA NextKept == IInv /\ Kept /\ [Next]_vars => Kept'
<1> SUFFICES ASSUME IInv, Kept, [Next]_vars PROVE Kept'
  OBVIOUS
<1>1. TypeOK /\ Owners /\ "error" \in Kinds
  BY DEF IInv, Kinds
<1>2. CASE UNCHANGED <<pc, verify, Client, Status, ED, Buffer, events, processed>>
  BY <1>2 DEF Kept, NoDirectives
<1>3. CASE NoFile \/ OpenFails \/ FinishPrinter
  <2>1. /\ Client' # "verifier" /\ pc' = "finished"
        /\ UNCHANGED <<Status, ED>>
    BY <1>1, <1>3 DEF NoFile, OpenFails, FinishPrinter, Owners, Running, engine, verifier, observer
  <2>2. (Status # "HasOtherExpectedDirectives" => NoDirectives(ED))'
    BY <2>1 DEF Kept, NoDirectives
  <2> QED
    BY <2>1, <2>2 DEF Kept, Kinds
<1>4. CASE OpenFile \/ InstallVerifier
  <2>1. /\ pc \in {"start", "opened"} /\ pc' \in {"opened", "source"}
        /\ UNCHANGED <<verify, Status, ED, Buffer, events, processed>>
    BY <1>4 DEF OpenFile, InstallVerifier, verifier, observer
  <2>2. events'["no-diagnostics"] = 0 /\ events'["directive"] = 0
    BY <2>1 DEF Kept
  <2>3. (Status # "HasOtherExpectedDirectives" => NoDirectives(ED))'
    BY <2>1 DEF Kept, NoDirectives
  <2>4. verify' => events'["directive"] <= Len(ED'["error"]) + Len(ED'["note"])
                                + Cardinality(Errors(Buffer', ParseErrors))
    BY <2>1 DEF Kept
  <2>5. ~(events'["no-diagnostics"] > 0) /\ pc' \notin {"finished", "exited"}
    BY <2>1, <2>2
  <2> QED
    BY <2>2, <2>3, <2>4, <2>5 DEF Kept
<1>5. ASSUME NEW r \in Reports, Diagnose(r) PROVE Kept'
  <2>1. /\ pc = "source" /\ pc' = pc /\ UNCHANGED <<verify, Client, Status, ED>>
        /\ Happens("diagnostic") /\ "diagnostic" \in Events
        /\ Report(r.kind, r.line, r.text)
    BY <1>5 DEF Diagnose, engine, verifier, Events
  <2>2. /\ UNCHANGED processed
        /\ events'["directive"] = events["directive"]
        /\ events'["no-diagnostics"] = events["no-diagnostics"]
    BY <1>1, <2>1, HappensOnce DEF Events
  <2>3. r.kind \in Kinds /\ r.line \in Lines /\ r.text \in Seq(Words)
    BY InputsAssumption
  <2>4. ASSUME verify PROVE Client = "verifier"
    BY <1>1, <2>1, <2>4 DEF Owners, Running
  <2>5. ASSUME verify, NEW W
        PROVE  /\ Errors(Buffer, W) \subseteq Errors(Buffer', W)
               /\ IsFiniteSet(Errors(Buffer, W)) /\ IsFiniteSet(Errors(Buffer', W))
    BY <1>1, <2>1, <2>3, <2>4, <2>5, ReportKeepsErrors
  <2>6. ASSUME verify
        PROVE  /\ Cardinality(Errors(Buffer, ParseErrors)) \in Nat
               /\ Cardinality(Errors(Buffer', ParseErrors)) \in Nat
               /\ Cardinality(Errors(Buffer, ParseErrors)) <= Cardinality(Errors(Buffer', ParseErrors))
    BY <2>5, <2>6, FS_Subset, FS_CardinalityType
  <2>7. ASSUME verify
        PROVE  events'["directive"] <= Len(ED'["error"]) + Len(ED'["note"])
                                + Cardinality(Errors(Buffer', ParseErrors))
    <3>1. events["directive"] \in Nat /\ Len(ED["error"]) \in Nat /\ Len(ED["note"]) \in Nat
      BY <1>1, LenProperties DEF TypeOK, Events, Kinds
    <3>2. events["directive"] <= Len(ED["error"]) + Len(ED["note"])
                                + Cardinality(Errors(Buffer, ParseErrors))
      BY <2>1, <2>7 DEF Kept
    <3> DEFINE a == Len(ED["error"]) + Len(ED["note"])
               b == Cardinality(Errors(Buffer, ParseErrors))
               c == Cardinality(Errors(Buffer', ParseErrors))
    <3>3. b \in Nat /\ c \in Nat /\ b <= c
      BY <2>6, <2>7
    <3>5. a \in Nat
      BY <1>1, AcceptedCount
    <3>6. events["directive"] <= a + b
      BY <3>2
    <3> HIDE DEF a, b, c
    <3>4. events["directive"] <= a + c
      BY <3>1, <3>3, <3>5, <3>6
    <3> QED
      BY <3>4, <2>1, <2>2 DEF a, c
  <2>8. ASSUME verify, events["no-diagnostics"] > 0
        PROVE  Status = "HasExpectedNoDiagnostics" \/ Contradicted(Buffer')
    BY <2>1, <2>5, <2>8 DEF Kept, Contradicted
  <2> QED
    BY <2>1, <2>2, <2>7, <2>8 DEF Kept, NoDirectives, Kinds
<1>6. ASSUME NEW line \in Lines, ParseNoDiagnostics(line) PROVE Kept'
  <2>1. /\ pc = "source" /\ pc' = pc /\ verify /\ UNCHANGED <<verify, Client, ED>>
        /\ Happens("no-diagnostics") /\ "no-diagnostics" \in Events
    BY <1>6 DEF ParseNoDiagnostics, engine, Events
  <2>2. UNCHANGED processed /\ events'["directive"] = events["directive"]
    BY <1>1, <2>1, HappensOnce DEF Events
  <2>3. Client = "verifier" /\ <<"verify_invalid_no_diags">> \in Seq(Words)
        /\ "verify_invalid_no_diags" \in ParseErrors
    BY <1>1, <2>1 DEF Owners, Running, Words, ParseErrors
  <2>4. CASE /\ Status = "HasOtherExpectedDirectives"
             /\ Report("error", line, <<"verify_invalid_no_diags">>) /\ UNCHANGED Status
    <3>1. Contradicted(Buffer')
      BY <1>1, <2>3, <2>4, ReportKeepsErrors DEF Contradicted
    <3>2. /\ IsFiniteSet(Errors(Buffer, ParseErrors))
          /\ Cardinality(Errors(Buffer', ParseErrors)) = Cardinality(Errors(Buffer, ParseErrors)) + 1
      <4> HIDE DEF ParseErrors
      <4> QED
        BY <1>1, <2>3, <2>4, ReportKeepsErrors
    <3> DEFINE a == Len(ED["error"]) + Len(ED["note"])
               b == Cardinality(Errors(Buffer, ParseErrors))
               c == Cardinality(Errors(Buffer', ParseErrors))
    <3>3. a \in Nat /\ b \in Nat /\ c = b + 1 /\ events["directive"] \in Nat
          /\ events["directive"] <= a + b
      BY <1>1, <2>1, <3>2, FS_CardinalityType, LenProperties DEF TypeOK, Kept, Events, Kinds
    <3> HIDE DEF a, b, c
    <3>4. events["directive"] <= a + c
      BY <3>3
    <3> HIDE DEF Contradicted
    <3>5. events'["directive"] <= Len(ED'["error"]) + Len(ED'["note"])
                                + Cardinality(Errors(Buffer', ParseErrors))
      BY <2>1, <2>2, <3>4 DEF a, c
    <3> QED
      BY <2>1, <2>2, <2>4, <3>1, <3>5 DEF Kept, NoDirectives, Kinds
  <2>5. CASE /\ Status # "HasOtherExpectedDirectives" /\ Status' = "HasExpectedNoDiagnostics"
             /\ UNCHANGED Buffer
    BY <2>1, <2>2, <2>5 DEF Kept, NoDirectives, Kinds
  <2> QED
    BY <1>6, <2>4, <2>5 DEF ParseNoDiagnostics
<1>7. ASSUME NEW line \in Lines, NEW d \in Directives, ParseDirective(d, line) PROVE Kept'
  <2>1. /\ pc = "source" /\ pc' = pc /\ verify /\ UNCHANGED <<verify, Client>>
        /\ Happens("directive") /\ "directive" \in Events
    BY <1>7 DEF ParseDirective, engine, Events
  <2>2. UNCHANGED processed /\ events'["no-diagnostics"] = events["no-diagnostics"]
        /\ events'["directive"] = events["directive"] + 1 /\ events["directive"] \in Nat
    BY <1>1, <2>1, HappensOnce DEF Events
  <2>3. Client = "verifier"
    BY <1>1, <2>1 DEF Owners, Running
  <2> DEFINE a == Len(ED["error"]) + Len(ED["note"])
             b == Cardinality(Errors(Buffer, ParseErrors))
             a1 == Len(ED'["error"]) + Len(ED'["note"])
             b1 == Cardinality(Errors(Buffer', ParseErrors))
             Reported(e) == Report("error", line, <<e>>) /\ e \in ParseErrors
             Accepted == /\ Status # "HasExpectedNoDiagnostics" /\ UNCHANGED Buffer
                         /\ ParseError(d, line) = "none" /\ d.kind \in Kinds
                         /\ ED' = [ED EXCEPT ![d.kind] = Append(@, Directive(d, line))]
  <2>4. /\ a \in Nat /\ b \in Nat /\ events["directive"] <= a + b
        /\ \A W : IsFiniteSet(Errors(Buffer, W))
    <3>1. Len(ED["error"]) \in Nat /\ Len(ED["note"]) \in Nat
      BY <1>1, LenProperties DEF TypeOK, Kinds
    <3>2. \A W : IsFiniteSet(Errors(Buffer, W))
      <4> TAKE W
      <4>1. Buffer["error"] \in Seq(DiagType)
        BY <1>1 DEF TypeOK
      <4>2. Errors(Buffer, W) \in SUBSET DOMAIN Buffer["error"]
        BY DEF Errors
      <4> QED
        BY <4>1, <4>2, SubsetCardinality
    <3>3. b \in Nat
      BY <3>2, FS_CardinalityType
    <3>4. events["directive"] <= a + b
      BY <2>1 DEF Kept
    <3>5. a \in Nat
      BY <1>1, AcceptedCount
    <3> QED
      BY <3>2, <3>3, <3>4, <3>5
  <2>5. \/ Reported("verify_invalid_no_diags") /\ Status = "HasExpectedNoDiagnostics"
           /\ UNCHANGED <<Status, ED>>
        \/ Reported(ParseError(d, line)) /\ Status # "HasExpectedNoDiagnostics"
           /\ Status' = "HasOtherExpectedDirectives" /\ UNCHANGED ED
        \/ Accepted /\ Status' = "HasOtherExpectedDirectives"
    <3>1. ParseError(d, line) # "none" => ParseError(d, line) \in ParseErrors
      BY DEF ParseError, ParseErrors
    <3>2. "verify_invalid_no_diags" \in ParseErrors /\ d.kind \in Kinds
      BY InputsAssumption DEF ParseErrors
    <3> QED
      BY <1>7, <3>1, <3>2 DEF ParseDirective
  <2>6. ASSUME NEW e \in ParseErrors, Reported(e)
        PROVE  b1 = b + 1 /\ \A W : Errors(Buffer, W) \subseteq Errors(Buffer', W)
    <3>1. <<e>> \in Seq(Words) /\ "error" \in Kinds
      BY DEF Words, Kinds
    <3> QED
      BY <1>1, <2>3, <2>6, <3>1, ReportKeepsErrors
  <2>7. Accepted => b1 = b /\ a1 = a + 1
    <3>1. Accepted => Directive(d, line) \in DirectiveType
      BY DirectiveOK
    <3> QED
      BY <1>1, <3>1, AcceptLengthens
  <2>8. ED' = ED => a1 = a
    OBVIOUS
  <2>9. events'["directive"] <= a1 + b1
    <3> HIDE DEF a, b, a1, b1
    <3> QED
      BY <2>2, <2>4, <2>5, <2>6, <2>7, <2>8
  <2>10. Contradicted(Buffer) => Contradicted(Buffer')
    <3>1. Errors(Buffer, {"verify_invalid_no_diags"}) \subseteq Errors(Buffer', {"verify_invalid_no_diags"})
      BY <2>5, <2>6
    <3> QED
      BY <3>1 DEF Contradicted
  <2> HIDE DEF Accepted, Reported
  <2>11. /\ Status' = "HasOtherExpectedDirectives" \/ UNCHANGED <<Status, ED>>
         /\ Status = "HasExpectedNoDiagnostics" => Status' = "HasExpectedNoDiagnostics"
    BY <2>5 DEF Accepted
  <2>12. Status' # "HasOtherExpectedDirectives" => NoDirectives(ED')
    BY <2>11 DEF Kept, NoDirectives
  <2> QED
    BY <2>1, <2>2, <2>9, <2>10, <2>11, <2>12 DEF Kept, Kinds
<1>8. CASE CheckBegin
  <2>1. /\ pc = "source" /\ pc' = "error" /\ verify /\ Client' = "printer"
        /\ UNCHANGED <<verify, ED, Buffer, events, processed>>
        /\ Status' = Status \/ (Status = "HasNoDirectives" /\ Status' = "HasNoDirectivesReported")
    BY <1>8 DEF CheckBegin, replaceClient, observer
  <2> QED
    BY <2>1 DEF Kept, NoDirectives, Kinds
<1>9. CASE CheckDirective \/ CheckListsEnd
  <2>1. /\ pc \in Kinds /\ pc' \in Kinds \cup {"checked"}
        /\ UNCHANGED <<verify, Client, Status, ED, Buffer, events, processed>>
    BY <1>9 DEF CheckDirective, CheckListsEnd, engine, verifier, observer, Kinds
  <2>2. verify
    BY <1>1, <2>1 DEF Owners
  <2> QED
    BY <2>1, <2>2 DEF Kept, NoDirectives, Kinds
<1>10. CASE CheckEnd
  <2>1. /\ pc = "checked" /\ pc' = "finished" /\ verify
        /\ processed' = [ED |-> ED, Buffer |-> Buffer] /\ ED' = [k \in Kinds |-> << >>]
        /\ UNCHANGED <<Status, verify, events>>
    BY <1>1, <1>10 DEF CheckEnd, Owners
  <2>2. Status = "HasExpectedNoDiagnostics" => NoDirectives(ED)
    BY DEF Kept
  <2>3. processed'.ED = ED /\ processed'.Buffer = Buffer /\ NoDirectives(ED')
    BY <2>1 DEF NoDirectives
  <2> QED
    BY <1>1, <2>1, <2>2, <2>3 DEF Kept, Kinds, TypeOK
<1>11. CASE Exit
  <2>1. /\ pc = "finished" /\ pc' = "exited"
        /\ UNCHANGED <<Client, Status, verify, events, processed, ED>>
    BY <1>11 DEF Exit, verifier, observer
  <2> QED
    BY <2>1 DEF Kept, NoDirectives, Kinds
<1>12. UNCHANGED vars \/ Exited
       => UNCHANGED <<pc, verify, Client, Status, ED, Buffer, events, processed>>
  BY DEF vars, Exited, engine, verifier, observer
<1> QED
  BY <1>2, <1>3, <1>4, <1>5, <1>6, <1>7, <1>8, <1>9, <1>10, <1>11, <1>12 DEF Next

(* Diagnostics that fit together with no directives are none.              *)
LEMMA NothingExpected ==
  ASSUME NEW diags \in Seq(DiagType), Consistent(<< >>, diags)
  PROVE  diags = << >>
<1>1. PICK f \in [DOMAIN diags -> DOMAIN << >>] : TRUE
  BY DEF Consistent
<1>2. \A n \in DOMAIN diags : f[n] \in {}
  BY <1>1
<1>3. 1 .. Len(diags) = {} /\ Len(diags) \in Nat
  BY <1>2, LenProperties
<1>4. Len(diags) = 0
  <2>1. CASE Len(diags) > 0
    <3>1. 1 \in 1 .. Len(diags)
      BY <1>3, <2>1
    <3> QED
      BY <1>3, <3>1
  <2> QED
    BY <1>3, <2>1
<1> QED
  BY <1>4, EmptySeq

LEMMA KeptImplies ==
  ASSUME Verdicts, Kept PROVE NothingSaidIsLost
<1>1. pc = "source" /\ verify =>
       events["directive"] <= Len(ED["error"]) + Len(ED["note"])
                                + Cardinality(Errors(Buffer, ParseErrors))
  BY DEF Kept
<1>2. ASSUME Verdict(0), events["no-diagnostics"] > 0,
             Errors(processed.Buffer, {"verify_invalid_no_diags"}) = {}
      PROVE  \A k \in Kinds : processed.Buffer[k] = << >>
  <2>1. /\ NoDirectives(processed.ED) /\ processed.Buffer \in [Kinds -> Seq(DiagType)]
        /\ \A k \in Kinds : Consistent(processed.ED[k], processed.Buffer[k])
    BY <1>2 DEF Verdict, Verdicts, Passing, Kept, Contradicted
  <2> QED
    BY <2>1, NothingExpected DEF NoDirectives
<1> QED
  BY <1>1, <1>2 DEF NothingSaidIsLost

(* Nothing a test says is dropped without a trace, however much it says.   *)
THEOREM NothingLostCorrect == Spec => []NothingSaidIsLost
<1>1. Init => IInv /\ Verdicts /\ Kept
  BY InitOK, InitVerdicts, InitKept
<1>2. IInv /\ Verdicts /\ Kept /\ [Next]_vars => (IInv /\ Verdicts /\ Kept)'
  BY NextOK, NextVerdicts, NextKept
<1>3. IInv /\ Verdicts /\ Kept => NothingSaidIsLost
  BY KeptImplies
<1> QED
  BY <1>1, <1>2, <1>3, PTL DEF Spec

-----------------------------------------------------------------------------
(* Counting.  The greedy assignment of CheckLists is compared with another *)
(* assignment class by class, by counting what each directive holds.       *)

LEMMA SmallerInjects ==
  ASSUME NEW A, NEW B, IsFiniteSet(A), IsFiniteSet(B), Cardinality(A) <= Cardinality(B)
  PROVE  \E h \in [A -> B] : \A x, y \in A : h[x] = h[y] => x = y
<1>1. /\ Cardinality(A) \in Nat /\ ExistsBijection(1 .. Cardinality(A), A)
      /\ Cardinality(B) \in Nat /\ ExistsBijection(1 .. Cardinality(B), B)
  BY FS_CardinalityType
<1> DEFINE p == Cardinality(A)
           q == Cardinality(B)
<1>2. PICK a \in [1 .. p -> A] : \A x \in A : \E i \in 1 .. p : a[i] = x
  BY <1>1 DEF ExistsBijection, Bijection, Surjection
<1>3. PICK b \in [1 .. q -> B] : \A i, j \in 1 .. q : b[i] = b[j] => i = j
  BY <1>1 DEF ExistsBijection, Bijection, Injection, IsInjective
<1> HIDE DEF p, q
<1> DEFINE at(x) == CHOOSE i \in 1 .. p : a[i] = x
           h == [x \in A |-> b[at(x)]]
<1>4. \A x \in A : at(x) \in 1 .. p /\ a[at(x)] = x
  BY <1>2
<1>5. 1 .. p \subseteq 1 .. q
  BY <1>1 DEF p, q
<1> HIDE DEF at
<1>6. h \in [A -> B]
  BY <1>3, <1>4, <1>5
<1>7. \A x, y \in A : h[x] = h[y] => x = y
  BY <1>3, <1>4, <1>5
<1> QED
  BY <1>6, <1>7

(* A family of sets, each no larger than its partner in a family of        *)
(* disjoint sets, has together no more elements.                           *)
Together(C, A) == UNION {A[j] : j \in C}
Partners(C, A, B) ==
  /\ \A j \in C : /\ IsFiniteSet(A[j]) /\ IsFiniteSet(B[j])
                   /\ Cardinality(A[j]) <= Cardinality(B[j])
  /\ \A i, j \in C : i # j => B[i] \cap B[j] = {}
  /\ IsFiniteSet(Together(C, B))

LEMMA SmallerFamily ==
  ASSUME NEW C, NEW A, NEW B, Partners(C, A, B)
  PROVE  Cardinality(Together(C, A)) <= Cardinality(Together(C, B))
<1> DEFINE As == Together(C, A)
           Bs == Together(C, B)
<1> DEFINE Good(j, h) == h \in [A[j] -> B[j]] /\ \A x, y \in A[j] : h[x] = h[y] => x = y
           H == [j \in C |-> CHOOSE h : Good(j, h)]
<1>1. \A j \in C : \E h : Good(j, h)
  BY SmallerInjects DEF Partners
<1>2. \A j \in C : Good(j, H[j])
  BY <1>1
<1> HIDE DEF H
<1> DEFINE of(x) == CHOOSE j \in C : x \in A[j]
           g == [x \in As |-> H[of(x)][x]]
<1>3. \A x \in As : of(x) \in C /\ x \in A[of(x)]
  BY DEF Together
<1> HIDE DEF of
<1>4. \A x \in As : g[x] \in B[of(x)]
  BY <1>2, <1>3
<1>5. g \in [As -> Bs]
  BY <1>3, <1>4 DEF Together
<1>6. ASSUME NEW x \in As, NEW y \in As, g[x] = g[y] PROVE x = y
  <2>1. of(x) = of(y)
    BY <1>3, <1>4, <1>6 DEF Partners
  <2>2. H[of(x)][x] = H[of(x)][y] /\ x \in A[of(x)] /\ y \in A[of(x)] /\ Good(of(x), H[of(x)])
    BY <1>2, <1>3, <1>6, <2>1
  <2> QED
    BY <2>2
<1> HIDE DEF g
<1>7. g \in Injection(As, Bs)
  BY <1>5, <1>6 DEF Injection, IsInjective
<1>8. IsFiniteSet(Bs)
  BY DEF Partners
<1> QED
  BY <1>7, <1>8, FS_Injection

-----------------------------------------------------------------------------
(* CheckLists blames a file only for cause: if the diagnostics and the     *)
(* directives fit together and no two directives compete, then the greedy  *)
(* assignment leaves nothing over.                                         *)

Greedy(dirs, diags, T) ==
  /\ \A j \in DOMAIN dirs :
       /\ T[j] \in SUBSET DOMAIN diags
       /\ \A n \in T[j] : Matches(dirs[j], diags[n])
       /\ Cardinality(T[j]) <= dirs[j].Max
       /\ Cardinality(T[j]) < dirs[j].Max =>
            \A n \in DOMAIN diags : Matches(dirs[j], diags[n]) =>
              \E i \in DOMAIN dirs : n \in T[i]
  /\ \A i, j \in DOMAIN dirs : i # j => T[i] \cap T[j] = {}

(* Directives with the same line and text match the same diagnostics.      *)
LEMMA SameMatches ==
  ASSUME NEW d, NEW e, d.line = e.line, d.text = e.text, NEW diag, Matches(d, diag)
  PROVE  Matches(e, diag)
BY DEF Matches

LEMMA CompetitorsMatchAlike ==
  ASSUME NEW dirs, NEW diags, Unambiguous(dirs, diags),
         NEW i \in DOMAIN dirs, NEW j \in DOMAIN dirs,
         NEW x \in DOMAIN diags, Matches(dirs[i], diags[x]), Matches(dirs[j], diags[x]),
         NEW n \in DOMAIN diags, Matches(dirs[i], diags[n])
  PROVE  Matches(dirs[j], diags[n])
<1>1. dirs[i].line = dirs[j].line
  BY DEF Matches
<1>2. i # j => dirs[i].text = dirs[j].text
  BY DEF Unambiguous
<1> QED
  BY <1>1, <1>2, SameMatches

LEMMA BoundsType ==
  ASSUME NEW dirs \in Seq(DirectiveType), NEW j \in DOMAIN dirs
  PROVE  dirs[j].Min \in Nat /\ dirs[j].Max \in Nat
<1>1. dirs[j] \in DirectiveType
  BY ElementOfSeq, LenProperties
<1> QED
  BY <1>1 DEF DirectiveType

LEMMA GreedyLeavesNoDiagnostic ==
  ASSUME NEW dirs \in Seq(DirectiveType), NEW diags \in Seq(DiagType), NEW T,
         Greedy(dirs, diags, T), Consistent(dirs, diags), Unambiguous(dirs, diags),
         NEW n \in DOMAIN diags
  PROVE  \E j \in DOMAIN dirs : n \in T[j]
<1> SUFFICES ASSUME \A j \in DOMAIN dirs : n \notin T[j] PROVE FALSE
  OBVIOUS
<1>1. PICK f \in [DOMAIN diags -> DOMAIN dirs] :
        /\ \A x \in DOMAIN diags : Matches(dirs[f[x]], diags[x])
        /\ \A j \in DOMAIN dirs :
             Cardinality({x \in DOMAIN diags : f[x] = j}) \in dirs[j].Min .. dirs[j].Max
  BY DEF Consistent
<1> DEFINE C == {j \in DOMAIN dirs : Matches(dirs[j], diags[n])}
           A == [j \in C |-> {x \in DOMAIN diags : f[x] = j}]
           As == Together(C, A)
           Bs == Together(C, T)
<1> USE DEF Together
<1>2. ASSUME NEW j \in C
      PROVE  /\ IsFiniteSet(A[j]) /\ IsFiniteSet(T[j])
             /\ Cardinality(A[j]) <= Cardinality(T[j])
  <2>1. IsFiniteSet(A[j]) /\ IsFiniteSet(T[j]) /\ Cardinality(T[j]) \in Nat
        /\ Cardinality(A[j]) \in Nat
    <3>1. A[j] \in SUBSET DOMAIN diags /\ T[j] \in SUBSET DOMAIN diags
      BY DEF Greedy
    <3> QED
      BY <3>1, SubsetCardinality
  <2>2. ~(Cardinality(T[j]) < dirs[j].Max)
    BY DEF Greedy
  <2>3. dirs[j].Min \in Nat /\ dirs[j].Max \in Nat
    BY BoundsType
  <2>4. Cardinality(A[j]) \in dirs[j].Min .. dirs[j].Max
    BY <1>1
  <2> HIDE DEF A
  <2> QED
    BY <2>1, <2>2, <2>3, <2>4
<1>3. Bs \subseteq As
  <2> SUFFICES ASSUME NEW j \in C, NEW x \in T[j] PROVE x \in As
    OBVIOUS
  <2>1. x \in DOMAIN diags /\ Matches(dirs[j], diags[x])
    BY DEF Greedy
  <2>2. f[x] \in DOMAIN dirs /\ Matches(dirs[f[x]], diags[x])
    BY <1>1, <2>1
  <2>3. Matches(dirs[f[x]], diags[n])
    BY <2>1, <2>2, CompetitorsMatchAlike
  <2> QED
    BY <2>1, <2>2, <2>3
<1>4. n \in As /\ n \notin Bs
  BY <1>1
<1>5. IsFiniteSet(As) /\ IsFiniteSet(Bs)
  <2>1. As \in SUBSET DOMAIN diags /\ Bs \in SUBSET DOMAIN diags
    BY <1>3
  <2> QED
    BY <2>1, SubsetCardinality
<1>6. \A i, j \in C : i # j => T[i] \cap T[j] = {}
  BY DEF Greedy
<1>7. Cardinality(As) <= Cardinality(Bs)
  <2>1. Partners(C, A, T)
    BY <1>2, <1>5, <1>6 DEF Partners
  <2> HIDE DEF A, C, Together
  <2> QED
    BY <2>1, SmallerFamily
<1> HIDE DEF As, Bs
<1>8. Cardinality(Bs) <= Cardinality(As) /\ Cardinality(As) # Cardinality(Bs)
      /\ Cardinality(As) \in Nat /\ Cardinality(Bs) \in Nat
  BY <1>3, <1>4, <1>5, FS_Subset, FS_CardinalityType
<1> QED
  BY <1>7, <1>8

LEMMA GreedySatisfiesAll ==
  ASSUME NEW dirs \in Seq(DirectiveType), NEW diags \in Seq(DiagType), NEW T,
         Greedy(dirs, diags, T), Consistent(dirs, diags), Unambiguous(dirs, diags),
         NEW j0 \in DOMAIN dirs
  PROVE  Cardinality(T[j0]) >= dirs[j0].Min
<1> SUFFICES ASSUME ~(Cardinality(T[j0]) >= dirs[j0].Min) PROVE FALSE
  OBVIOUS
<1>1. PICK f \in [DOMAIN diags -> DOMAIN dirs] :
        /\ \A x \in DOMAIN diags : Matches(dirs[f[x]], diags[x])
        /\ \A j \in DOMAIN dirs :
             Cardinality({x \in DOMAIN diags : f[x] = j}) \in dirs[j].Min .. dirs[j].Max
  BY DEF Consistent
<1> DEFINE own(j) == {x \in DOMAIN diags : f[x] = j}
<1>2. ASSUME NEW j \in DOMAIN dirs
      PROVE  /\ IsFiniteSet(own(j)) /\ IsFiniteSet(T[j])
             /\ Cardinality(T[j]) \in Nat /\ Cardinality(own(j)) \in Nat
             /\ dirs[j].Min \in Nat /\ dirs[j].Max \in Nat
             /\ dirs[j].Min <= Cardinality(own(j)) /\ Cardinality(own(j)) <= dirs[j].Max
             /\ Cardinality(T[j]) <= dirs[j].Max
  <2>1. IsFiniteSet(own(j)) /\ IsFiniteSet(T[j]) /\ Cardinality(T[j]) \in Nat
        /\ Cardinality(own(j)) \in Nat
    <3>1. own(j) \in SUBSET DOMAIN diags /\ T[j] \in SUBSET DOMAIN diags
      BY DEF Greedy
    <3> HIDE DEF own
    <3> QED
      BY <3>1, SubsetCardinality
  <2>2. dirs[j].Min \in Nat /\ dirs[j].Max \in Nat
    BY BoundsType
  <2>3. Cardinality(own(j)) \in dirs[j].Min .. dirs[j].Max
    BY <1>1
  <2>4. Cardinality(T[j]) <= dirs[j].Max
    BY DEF Greedy
  <2> HIDE DEF own
  <2> QED
    BY <2>1, <2>2, <2>3, <2>4
<1>3. ~(own(j0) \subseteq T[j0])
  <2> HIDE DEF own
  <2>1. own(j0) \in SUBSET T[j0] => Cardinality(own(j0)) <= Cardinality(T[j0])
    BY <1>2, FS_Subset
  <2> QED
    BY <1>2, <2>1
<1>4. PICK x \in DOMAIN diags : f[x] = j0 /\ x \notin T[j0]
  BY <1>3
<1>5. Matches(dirs[j0], diags[x])
  BY <1>1, <1>4
<1>6. \A y \in DOMAIN diags : \E i \in DOMAIN dirs : y \in T[i]
  BY GreedyLeavesNoDiagnostic
<1>7. PICK i \in DOMAIN dirs : x \in T[i] /\ i # j0 /\ Matches(dirs[i], diags[x])
  BY <1>4, <1>6 DEF Greedy
<1> DEFINE C == {j \in DOMAIN dirs : Matches(dirs[j], diags[x])}
           B == [j \in C |-> own(j) \ {x}]
           As == Together(C, T)
           Bs == Together(C, B)
<1> USE DEF Together
<1>8. ASSUME NEW j \in C
      PROVE  /\ IsFiniteSet(T[j]) /\ IsFiniteSet(B[j])
             /\ Cardinality(T[j]) <= Cardinality(B[j])
  <2>1. /\ IsFiniteSet(own(j)) /\ IsFiniteSet(T[j])
        /\ Cardinality(T[j]) \in Nat /\ Cardinality(own(j)) \in Nat
        /\ dirs[j].Min \in Nat /\ dirs[j].Max \in Nat
        /\ dirs[j].Min <= Cardinality(own(j)) /\ Cardinality(own(j)) <= dirs[j].Max
        /\ Cardinality(T[j]) <= dirs[j].Max
    BY <1>2
  <2>2. B[j] = own(j) \ {x}
    OBVIOUS
  <2>3. IsFiniteSet(B[j])
        /\ Cardinality(B[j]) = IF x \in own(j) THEN Cardinality(own(j)) - 1 ELSE Cardinality(own(j))
    <3>1. \A S : IsFiniteSet(S) =>
            /\ IsFiniteSet(S \ {x})
            /\ Cardinality(S \ {x}) = IF x \in S THEN Cardinality(S) - 1 ELSE Cardinality(S)
      BY FS_RemoveElement
    <3> HIDE DEF own, B
    <3> QED
      BY <2>1, <2>2, <3>1
  <2>4. x \in own(j) <=> j = j0
    BY <1>4
  <2>5. CASE j = j0
    <3> HIDE DEF own, B
    <3> QED
      BY <2>1, <2>3, <2>4, <2>5
  <2>6. CASE j # j0
    <3>1. dirs[j].Min = dirs[j].Max
      BY <1>5, <2>6 DEF Unambiguous
    <3> HIDE DEF own, B
    <3> QED
      BY <2>1, <2>3, <2>4, <2>6, <3>1
  <2> QED
    BY <2>5, <2>6
<1>9. \A j, l \in C : j # l => B[j] \cap B[l] = {}
  OBVIOUS
<1>10. Bs \subseteq As
  <2> SUFFICES ASSUME NEW j \in C, NEW y \in own(j) PROVE y \in As
    OBVIOUS
  <2>1. y \in DOMAIN diags /\ Matches(dirs[j], diags[y]) /\ Matches(dirs[j], diags[x])
    BY <1>1
  <2>2. PICK l \in DOMAIN dirs : y \in T[l]
    BY <1>6
  <2>3. Matches(dirs[l], diags[y])
    BY <2>2 DEF Greedy
  <2>4. Matches(dirs[l], diags[x])
    BY <2>1, <2>3, CompetitorsMatchAlike
  <2> QED
    BY <2>2, <2>4
<1>11. x \in As /\ x \notin Bs
  BY <1>7
<1>12. IsFiniteSet(As) /\ IsFiniteSet(Bs)
  <2>1. As \in SUBSET DOMAIN diags
    BY DEF Greedy
  <2>2. Bs \in SUBSET DOMAIN diags
    OBVIOUS
  <2> QED
    BY <2>1, <2>2, SubsetCardinality
<1>13. Cardinality(As) <= Cardinality(Bs)
  <2>1. Partners(C, T, B)
    BY <1>8, <1>9, <1>12 DEF Partners
  <2> HIDE DEF B, C, Together
  <2> QED
    BY <2>1, SmallerFamily
<1> HIDE DEF As, Bs
<1>14. Cardinality(Bs) <= Cardinality(As) /\ Cardinality(As) # Cardinality(Bs)
      /\ Cardinality(As) \in Nat /\ Cardinality(Bs) \in Nat
  BY <1>10, <1>11, <1>12, FS_Subset, FS_CardinalityType
<1> QED
  BY <1>13, <1>14

-----------------------------------------------------------------------------
(* While CheckLists runs, a directive that has taken fewer diagnostics     *)
(* than it allows has left none that it matches, and one is missing some   *)
(* if anything is missing; the verifier's count rises for cause only.      *)

Blamed(ed, buffer) ==
  \/ Status = "HasNoDirectivesReported"
  \/ \E k \in Kinds : ~Consistent(ed[k], buffer[k]) \/ ~Unambiguous(ed[k], buffer[k])

TakesAll(j) ==
  Cardinality(taken[j]) < ED[pc][j].Max =>
    \A n \in DOMAIN Buffer[pc] : Matches(ED[pc][j], Buffer[pc][n]) =>
      \E i \in DOMAIN taken : n \in taken[i]

Cause ==
  /\ pc \in Kinds =>
       /\ \A j \in DOMAIN taken : TakesAll(j)
       /\ missing > 0 => \E j \in DOMAIN taken : Cardinality(taken[j]) < ED[pc][j].Min
  /\ pc \in Kinds \cup {"checked"} /\ ~Passing => Blamed(ED, Buffer)
  /\ Client = "verifier" /\ pc \in {"finished", "exited"} /\ ~Passing =>
       Blamed(processed.ED, processed.Buffer)

LEMMA InitCause == Init => Cause
BY DEF Init, Cause, Kinds

LEMMA GreedyStep ==
  ASSUME TypeOK, CheckDirective
  PROVE  LET D == ED[pc][Len(taken) + 1]
             T == taken'[Len(taken) + 1]
         IN /\ Cardinality(T) < D.Max =>
                 \A n \in Right : Matches(D, Buffer[pc][n]) => n \in T
            /\ missing' > 0 => missing > 0 \/ Cardinality(T) < D.Min
<1> DEFINE D == ED[pc][Len(taken) + 1]
           found == {n \in Right : Matches(D, Buffer[pc][n])}
<1>1. PICK T \in SUBSET found :
        /\ T = found \/ Cardinality(T) = D.Max
        /\ taken' = Append(taken, T)
        /\ missing' = missing + IF Cardinality(T) < D.Min THEN D.Min - Cardinality(T) ELSE 0
  BY DEF CheckDirective
<1>2. pc \in Kinds /\ taken \in Seq(SUBSET Nat)
  BY DEF CheckDirective, TypeOK
<1>3. Right \in SUBSET DOMAIN Buffer[pc] /\ Buffer[pc] \in Seq(DiagType)
  BY <1>2, RightOK DEF TypeOK
<1>4. T \in SUBSET DOMAIN Buffer[pc]
  BY <1>3
<1>5. T \in SUBSET Nat /\ Cardinality(T) \in Nat
  BY <1>3, <1>4, DomainFinite, SubsetCardinality
<1>6. taken'[Len(taken) + 1] = T
  BY <1>1, <1>2, <1>5, AppendProperties
<1>7. Cardinality(T) < D.Max => \A n \in Right : Matches(D, Buffer[pc][n]) => n \in T
  <2>1. Cardinality(T) = D.Max => ~(Cardinality(T) < D.Max)
    BY <1>5
  <2> QED
    BY <1>1, <2>1
<1> HIDE DEF D
<1>8. missing' > 0 => missing > 0 \/ Cardinality(T) < D.Min
  BY <1>1 DEF TypeOK
<1> QED
  BY <1>6, <1>7, <1>8 DEF D

(* At the end of CheckLists, what is left over is to blame on the file.    *)
LEMMA LeftoversAreBlamed ==
  ASSUME TypeOK, pc \in Kinds, Matching, Cause, Len(taken) = Len(ED[pc]),
         missing > 0 \/ Right # {}
  PROVE  Blamed(ED, Buffer)
<1> SUFFICES ASSUME Consistent(ED[pc], Buffer[pc]), Unambiguous(ED[pc], Buffer[pc]) PROVE FALSE
  BY DEF Blamed
<1> DEFINE dirs == ED[pc]
           diags == Buffer[pc]
<1>1. dirs \in Seq(DirectiveType) /\ diags \in Seq(DiagType) /\ taken \in Seq(SUBSET Nat)
  BY DEF TypeOK
<1>2. DOMAIN taken = DOMAIN dirs
  BY <1>1, LenProperties
<1>3. Greedy(dirs, diags, taken)
  BY <1>2 DEF Greedy, Matching, Holds, Cause, TakesAll
<1>4. \A n \in DOMAIN diags : \E j \in DOMAIN dirs : n \in taken[j]
  BY <1>1, <1>3, GreedyLeavesNoDiagnostic
<1>5. Right = {}
  BY <1>2, <1>4 DEF Right
<1>6. PICK j \in DOMAIN dirs : Cardinality(taken[j]) < dirs[j].Min
  BY <1>2, <1>5 DEF Cause
<1>7. Cardinality(taken[j]) >= dirs[j].Min /\ dirs[j].Min \in Nat
  BY <1>1, <1>3, GreedySatisfiesAll, BoundsType
<1>8. Cardinality(taken[j]) \in Nat
  BY <1>2 DEF Matching, Holds
<1> HIDE DEF dirs
<1> QED
  BY <1>6, <1>7, <1>8

LEMMA NextCause == IInv /\ Verdicts /\ Counts /\ Cause /\ [Next]_vars => Cause'
<1> SUFFICES ASSUME IInv, Verdicts, Counts, Cause, [Next]_vars PROVE Cause'
  OBVIOUS
<1>1. TypeOK /\ Owners
  BY DEF IInv
<1>2. CASE UNCHANGED <<pc, Client, Status, NumDiags, taken, missing, ED, Buffer, processed>>
  BY <1>2 DEF Cause, TakesAll, Passing, Blamed
<1>3. CASE pc' \in {"opened", "source"} \/ (pc' = "finished" /\ Client' # "verifier")
  BY <1>3 DEF Cause, Kinds
<1>4. CASE CheckBegin
  <2>1. /\ pc = "source" /\ verify /\ pc' = "error" /\ Client' = "printer"
        /\ UNCHANGED <<taken, missing, ED, Buffer>>
        /\ Status' = "HasNoDirectivesReported" \/ UNCHANGED NumDiags
    BY <1>4 DEF CheckBegin, replaceClient
  <2>2. taken = << >> /\ missing = 0 /\ NumDiags["verifier"] = 0
    BY <2>1 DEF Verdicts, Counts, Kinds
  <2> QED
    BY <2>1, <2>2 DEF Cause, Passing, Blamed, Kinds
<1>5. CASE CheckDirective
  <2>1. pc \in Kinds /\ UNCHANGED <<pc, Status, ED, Buffer, NumDiags, Client, processed>>
    BY <1>5 DEF CheckDirective, engine, verifier, observer
  <2> DEFINE j0 == Len(taken) + 1
             T == taken'[j0]
             D == ED[pc][j0]
  <2>2. /\ \A j \in DOMAIN taken : taken'[j] = taken[j]
        /\ Cardinality(T) < D.Max =>
             \A n \in Right : Matches(D, Buffer[pc][n]) => n \in T
        /\ missing' > 0 => missing > 0 \/ Cardinality(T) < D.Min
    BY <1>1, <1>5, CheckDirectiveOK, GreedyStep
  <2>3. DOMAIN taken' = DOMAIN taken \cup {j0}
    <3>1. Len(taken) \in Nat /\ DOMAIN taken = 1 .. Len(taken)
      BY <1>1, LenProperties DEF TypeOK
    <3>2. taken' \in Seq(SUBSET Nat) /\ Len(taken') = Len(taken) + 1
      BY <1>1, <1>5, CheckDirectiveOK
    <3>3. DOMAIN taken' = 1 .. Len(taken')
      BY <3>2, LenProperties
    <3> QED
      BY <3>1, <3>2, <3>3
  <2> HIDE DEF j0
  <2>4. ASSUME NEW j \in DOMAIN taken' PROVE TakesAll(j)'
    <3>1. CASE j \in DOMAIN taken
      BY <3>1, <2>1, <2>2, <2>3 DEF Cause, TakesAll
    <3>2. CASE j = j0
      BY <3>2, <2>1, <2>2, <2>3 DEF TakesAll, Right
    <3> QED
      BY <2>3, <3>1, <3>2
  <2>5. missing' > 0 => \E j \in DOMAIN taken' : Cardinality(taken'[j]) < ED'[pc'][j].Min
    BY <2>1, <2>2, <2>3 DEF Cause
  <2>6. ~Passing' => Blamed(ED, Buffer)'
    BY <2>1 DEF Cause, Passing, Blamed
  <2> QED
    BY <2>1, <2>4, <2>5, <2>6 DEF Cause, Kinds
<1>6. CASE CheckListsEnd
  <2>1. /\ pc \in Kinds /\ pc' \in {"note", "checked"} /\ Len(taken) = Len(ED[pc])
        /\ UNCHANGED <<Status, ED, Buffer>> /\ taken' = << >> /\ missing' = 0
    BY <1>6 DEF CheckListsEnd, verifier
  <2>2. ~Passing' => ~Passing \/ missing > 0 \/ Right # {}
    <3>1. Cardinality(Right) \in Nat /\ (Cardinality(Right) = 0 <=> Right = {})
          /\ Printed \in Nat /\ missing \in Nat
          /\ NumDiags["verifier"] \in Nat /\ NumDiags["printer"] \in Nat
      BY <1>1, <2>1, RightOK DEF Printed, TypeOK, Clients
    <3> DEFINE printer == NumDiags["printer"] + Printed
               verdict == NumDiags["verifier"] + missing + Cardinality(Right)
    <3>2. NumDiags' = [NumDiags EXCEPT !["printer"] = printer, !["verifier"] = verdict]
      BY <1>6 DEF CheckListsEnd
    <3>3. printer \in Nat /\ verdict \in Nat
      BY <3>1
    <3>4. NumDiags'["verifier"] = verdict
      <4> HIDE DEF printer, verdict
      <4> QED
        BY <1>1, <3>2, <3>3, SetCounts DEF TypeOK
    <3> QED
      BY <3>1, <3>4 DEF Passing
  <2>3. ~Passing' => Blamed(ED, Buffer)
    BY <1>1, <2>1, <2>2, LeftoversAreBlamed DEF Cause, Verdicts
  <2>4. Blamed(ED, Buffer) => Blamed(ED, Buffer)'
    BY <2>1 DEF Blamed
  <2> QED
    <3>1. Client' # "verifier"
      BY <1>1, <1>6, <2>1 DEF CheckListsEnd, Owners, engine
    <3> QED
      BY <2>1, <2>3, <2>4, <3>1 DEF Cause
<1>7. CASE CheckEnd
  <2>1. /\ pc = "checked" /\ pc' = "finished" /\ UNCHANGED <<NumDiags, Status>>
        /\ processed'.ED = ED /\ processed'.Buffer = Buffer
    BY <1>7 DEF CheckEnd
  <2> QED
    BY <2>1 DEF Cause, Passing, Blamed, Kinds
<1>8. CASE Exit
  <2>1. /\ pc = "finished" /\ pc' = "exited" /\ UNCHANGED <<NumDiags, Status, Client, processed>>
    BY <1>8 DEF Exit, verifier, observer
  <2> QED
    BY <2>1 DEF Cause, Passing, Blamed, Kinds
<1>9. NoFile \/ OpenFails \/ OpenFile \/ InstallVerifier \/ FinishPrinter
        \/ (\E r \in Reports : Diagnose(r))
        \/ (\E line \in Lines : ParseNoDiagnostics(line)
                                \/ \E d \in Directives : ParseDirective(d, line))
       => pc' \in {"opened", "source"} \/ (pc' = "finished" /\ Client' # "verifier")
  BY <1>1 DEF NoFile, OpenFails, OpenFile, InstallVerifier, FinishPrinter, Diagnose,
              ParseNoDiagnostics, ParseDirective, Owners, Running, engine
<1>10. UNCHANGED vars \/ Exited
       => UNCHANGED <<pc, Client, Status, NumDiags, taken, missing, ED, Buffer, processed>>
  BY DEF vars, Exited, engine, verifier, checking, observer
<1> QED
  BY <1>2, <1>3, <1>4, <1>5, <1>6, <1>7, <1>8, <1>9, <1>10 DEF Next

LEMMA CauseImplies ==
  ASSUME TypeOK, Counts, Cause PROVE VerdictExact
BY DEF Counts, Cause, Passing, Blamed, VerdictExact, Verdict

(* A test that fails is right to, unless its directives compete, however   *)
(* many directives and diagnostics there are.                              *)
THEOREM ExactnessCorrect == Spec => []VerdictExact
<1>1. Init => IInv /\ Verdicts /\ Counts /\ Cause
  BY InitOK, InitVerdicts, InitCounts, InitCause
<1>2. IInv /\ Verdicts /\ Counts /\ Cause /\ [Next]_vars => (IInv /\ Verdicts /\ Counts /\ Cause)'
  BY NextOK, NextVerdicts, NextCounts, NextCause
<1>3. IInv /\ Verdicts /\ Counts /\ Cause => VerdictExact
  BY CauseImplies DEF IInv
<1> QED
  BY <1>1, <1>2, <1>3, PTL DEF Spec
=============================================================================
