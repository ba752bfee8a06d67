--------------------------- MODULE VerifyConsumer ----------------------------
(***************************************************************************)
(* One run of the driver (tools/driver/driver.cpp) over one file, and the  *)
(* consumer behind its -verify flag (lib/Frontend/                         *)
(* VerifyDiagnosticConsumer.cpp), which every test of the front end relies *)
(* on: it is given the comments of the file, parses `expected-...`         *)
(* directives out of them, withholds all diagnostics, and at the end       *)
(* compares the two.                                                       *)
(*                                                                         *)
(* The lexer, parser and Sema are the environment: any sequence of         *)
(* comments and diagnostics.  A report is one step, see Diagnostics.       *)
(* Texts are sequences of words.  A comment holds one directive; the       *)
(* search for the word "expected" and for kinds that do not exist, which   *)
(* are skipped, is left out.                                               *)
(***************************************************************************)
EXTENDS Integers, Sequences, FiniteSets

CONSTANTS
  Vocabulary,  (* the words of directives and diagnostics                  *)
  Directives,  (* the directives the comments may hold                     *)
  Reports,     (* the diagnostics the front end may report                 *)
  LastLine,    (* number of lines of the file                              *)
  UINT_MAX,    (* MaxCount, the upper bound written "+"                    *)
  MaxEvents    (* bound: comments and diagnostics in one run               *)

ASSUME BoundsAssumption ==
  LastLine \in Nat \ {0} /\ UINT_MAX \in Nat /\ MaxEvents \in Nat

Kinds    == {"error", "note"}
Lines    == 1 .. LastLine

(* What can be wrong with a directive; reported as text of one word.       *)
ParseErrors ==
  {"verify_missing_line", "verify_invalid_range", "verify_missing_start",
   "verify_missing_end", "verify_invalid_content", "verify_invalid_no_diags"}
Words == Vocabulary \cup {"nl"} \cup ParseErrors  \* "nl": the escape \n

ASSUME InputsAssumption ==
  /\ Reports \subseteq [kind : Kinds, line : Lines, text : Seq(Words)]
  /\ Directives \subseteq
       [kind : Kinds,
        at : [ref : {"here", "abs", "plus", "minus"}, n : Nat],
        count : [form : {"none", "n", "range", "plus", "n_plus"}, n : Nat, m : Nat],
        content : Seq(Words),
        braces : {"ok", "no_start", "no_end", "bad_regex"}]

Clients  == {"first", "printer", "verifier"}
Events   == {"diagnostic", "no-diagnostics", "directive"}
Statuses == {"HasNoDirectives", "HasNoDirectivesReported",
             "HasExpectedNoDiagnostics", "HasOtherExpectedDirectives"}

VARIABLES
  pc,                (* see TypeOK                                         *)
  verify,            (* -verify was given                                  *)
  Client,            (* DiagnosticsEngine: who gets the diagnostics        *)
  OwnsDiagClient,    (* DiagnosticsEngine: deletes its client              *)
  OwnsPrimaryClient, (* the verifier deletes the client it replaced        *)
  OwnsCurClient,     (* local of CheckDiagnostics                          *)
  deleted,           (* how often each client has been deleted             *)
  NumDiags,          (* each client's count of what it was given to print  *)
  Status,            (* of the directives found so far                     *)
  ED,                (* ExpectedData: accepted directives, by kind         *)
  Buffer,            (* TextDiagnosticBuffer, by kind                      *)
  taken,             (* CheckLists: buffered diagnostics each directive    *)
                     (* has been matched with                              *)
  missing,           (* CheckLists: length of LeftOnly                     *)
  exitCode,
  events,            (* observer: how many comments and diagnostics        *)
  processed          (* observer: what ED and Buffer held when they were   *)
                     (* cleared                                            *)

engine == <<Client, OwnsDiagClient, deleted>>
verifier == <<OwnsPrimaryClient, Status, ED>>
checking == <<OwnsCurClient, taken, missing>>
observer == <<events, processed>>
vars == <<pc, verify, engine, NumDiags, verifier, Buffer, checking, exitCode,
          observer>>

-----------------------------------------------------------------------------
(* The engine and its clients.                                             *)

setClient(c, own) ==
  /\ deleted' = IF OwnsDiagClient THEN [deleted EXCEPT ![Client] = @ + 1] ELSE deleted
  /\ Client' = c
  /\ OwnsDiagClient' = own

(* setClient after takeClient has given up the old client.                 *)
replaceClient(c, own) ==
  /\ Client' = c
  /\ OwnsDiagClient' = own
  /\ UNCHANGED deleted

(* handleDiagnostic of the three clients.  The verifier counts nothing.    *)
Report(kind, line, text) ==
  IF Client = "verifier"
    THEN /\ Buffer' = [Buffer EXCEPT ![kind] = Append(@, [line |-> line, text |-> text])]
         /\ UNCHANGED NumDiags
    ELSE /\ NumDiags' = [NumDiags EXCEPT ![Client] = @ + IF kind = "error" THEN 1 ELSE 0]
         /\ UNCHANGED Buffer

-----------------------------------------------------------------------------
(* Directives.                                                             *)

(* @N, @+N and @-N; 0 for a line that does not exist.  "@" without a       *)
(* number reads as @0.                                                     *)
ExpectedLine(at, line) ==
  LET n == CASE at.ref = "here"  -> line
             [] at.ref = "abs"   -> at.n
             [] at.ref = "plus"  -> line + at.n
             [] at.ref = "minus" -> IF at.n < line THEN line - at.n ELSE 0
  IN IF n \in Lines THEN n ELSE 0

(* Counts: none, "N", "N+", "N-M" and "+".                                 *)
MinCount(c) == IF c.form \in {"none", "plus"} THEN 1 ELSE c.n
MaxCount(c) ==
  CASE c.form = "none"  -> 1
    [] c.form = "n"     -> c.n
    [] c.form = "range" -> c.m
    [] c.form \in {"plus", "n_plus"} -> UINT_MAX

(* "convert \n to newlines": the text up to the last \n is copied, and the *)
(* rest only if there is no \n at all.                                     *)
DirectiveText(content) ==
  LET nls == {i \in DOMAIN content : content[i] = "nl"}
  IN IF nls = {} THEN content
     ELSE SubSeq(content, 1, CHOOSE i \in nls : \A j \in nls : j <= i)

(* The first thing wrong with a directive, in the order it is parsed.      *)
(* Mutant: a range may run backwards.                                      *)
ParseError_AnyRange(d, line) ==
  IF ExpectedLine(d.at, line) = 0 THEN "verify_missing_line"
  ELSE IF d.braces = "no_start" THEN "verify_missing_start"
  ELSE IF d.braces = "no_end" THEN "verify_missing_end"
  ELSE IF d.braces = "bad_regex" THEN "verify_invalid_content"
  ELSE "none"
ParseError(d, line) ==
  IF ExpectedLine(d.at, line) = 0 THEN "verify_missing_line"
  ELSE IF MaxCount(d.count) < MinCount(d.count) THEN "verify_invalid_range"
  ELSE IF d.braces = "no_start" THEN "verify_missing_start"
  ELSE IF d.braces = "no_end" THEN "verify_missing_end"
  ELSE IF d.braces = "bad_regex" THEN "verify_invalid_content"
  ELSE "none"

Directive(d, line) ==
  [line |-> ExpectedLine(d.at, line), text |-> DirectiveText(d.content),
   Min |-> MinCount(d.count), Max |-> MaxCount(d.count), content |-> d.content]

(* Directive::match on the same line: the text occurs in the diagnostic's. *)
Matches(dir, diag) ==
  /\ dir.line = diag.line
  /\ \E i \in 0 .. Len(diag.text) - Len(dir.text) :
       SubSeq(diag.text, i + 1, i + Len(dir.text)) = dir.text

-----------------------------------------------------------------------------
(* The actions, in the order main() performs them.                         *)

Init ==
  /\ pc = "start"
  /\ verify \in BOOLEAN
  /\ Client = "first" /\ OwnsDiagClient = TRUE
  /\ OwnsPrimaryClient = FALSE /\ OwnsCurClient = FALSE
  /\ deleted = [c \in Clients |-> 0]
  /\ NumDiags = [c \in Clients |-> 0]
  /\ Status = "HasNoDirectives"
  /\ ED = [k \in Kinds |-> << >>]
  /\ Buffer = [k \in Kinds |-> << >>]
  /\ taken = << >>
  /\ missing = 0
  /\ exitCode = 0
  /\ events = [e \in Events |-> 0]
  /\ processed = [ED |-> ED, Buffer |-> Buffer]

(* No file is named, or it cannot be read: drv_generic_error.              *)
NoFile ==
  /\ pc = "start"
  /\ pc' = "finished"
  /\ UNCHANGED <<verify, engine, NumDiags, verifier, Buffer, checking, exitCode, observer>>

OpenFails ==
  /\ pc = "start"
  /\ Report("error", 0, << >>)
  /\ pc' = "finished"
  /\ UNCHANGED <<verify, engine, verifier, checking, exitCode, observer>>

OpenFile ==
  /\ pc = "start"
  /\ setClient("printer", TRUE)
  /\ pc' = IF verify THEN "opened" ELSE "source"
  /\ UNCHANGED <<verify, NumDiags, verifier, Buffer, checking, exitCode, observer>>

(* The verifier takes over the printer, if the engine owned it, and the    *)
(* engine takes ownership of the verifier.  Mutant: the engine keeps its   *)
(* claim on the printer.                                                   *)
InstallVerifier_NoTakeClient ==
  /\ pc = "opened"
  /\ OwnsPrimaryClient' = OwnsDiagClient
  /\ setClient("verifier", TRUE)
  /\ pc' = "source"
  /\ UNCHANGED <<verify, NumDiags, Status, ED, Buffer, checking, exitCode, observer>>
InstallVerifier ==
  /\ pc = "opened"
  /\ OwnsPrimaryClient' = OwnsDiagClient
  /\ replaceClient("verifier", TRUE)
  /\ pc' = "source"
  /\ UNCHANGED <<verify, NumDiags, Status, ED, Buffer, checking, exitCode, observer>>

(* The bound on what the front end does to the file.                       *)
Happens(e) ==
  /\ events["diagnostic"] + events["no-diagnostics"] + events["directive"] < MaxEvents
  /\ events' = [events EXCEPT ![e] = @ + 1]
  /\ UNCHANGED processed

(* The front end reports a diagnostic.                                     *)
Diagnose(r) ==
  /\ pc = "source"
  /\ Report(r.kind, r.line, r.text)
  /\ Happens("diagnostic")
  /\ UNCHANGED <<pc, verify, engine, verifier, checking, exitCode>>

(* handleComment and ParseDirective, for `expected-no-diagnostics' ...     *)
ParseNoDiagnostics(line) ==
  /\ pc = "source" /\ verify
  /\ \/ /\ Status = "HasOtherExpectedDirectives"
        /\ Report("error", line, <<"verify_invalid_no_diags">>)
        /\ UNCHANGED Status
     \/ /\ Status # "HasOtherExpectedDirectives"
        /\ Status' = "HasExpectedNoDiagnostics"
        /\ UNCHANGED <<NumDiags, Buffer>>
  /\ Happens("no-diagnostics")
  /\ UNCHANGED <<pc, verify, engine, OwnsPrimaryClient, ED, checking, exitCode>>

(* ... and for `expected-diag' and `expected-note'.  Mutant: a directive   *)
(* with an error in it is dropped without a report.                        *)
ParseDirective_Silent(d, line) ==
  /\ pc = "source" /\ verify
  /\ \/ /\ Status = "HasExpectedNoDiagnostics"
        /\ Report("error", line, <<"verify_invalid_no_diags">>)
        /\ UNCHANGED <<Status, ED>>
     \/ /\ Status # "HasExpectedNoDiagnostics"
        /\ Status' = "HasOtherExpectedDirectives"
        /\ ED' = IF ParseError(d, line) # "none" THEN ED
                 ELSE [ED EXCEPT ![d.kind] = Append(@, Directive(d, line))]
        /\ UNCHANGED <<NumDiags, Buffer>>
  /\ Happens("directive")
  /\ UNCHANGED <<pc, verify, engine, OwnsPrimaryClient, checking, exitCode>>
ParseDirective(d, line) ==
  /\ pc = "source" /\ verify
  /\ \/ /\ Status = "HasExpectedNoDiagnostics"
        /\ Report("error", line, <<"verify_invalid_no_diags">>)
        /\ UNCHANGED <<Status, ED>>
     \/ /\ Status # "HasExpectedNoDiagnostics"
        /\ Status' = "HasOtherExpectedDirectives"
        /\ \/ /\ ParseError(d, line) # "none"
              /\ Report("error", line, <<ParseError(d, line)>>)
              /\ UNCHANGED ED
           \/ /\ ParseError(d, line) = "none"
              /\ ED' = [ED EXCEPT ![d.kind] = Append(@, Directive(d, line))]
              /\ UNCHANGED <<NumDiags, Buffer>>
  /\ Happens("directive")
  /\ UNCHANGED <<pc, verify, engine, OwnsPrimaryClient, checking, exitCode>>

(* Diags.getClient()->finish() of a client without a finish of its own.    *)
FinishPrinter ==
  /\ pc = "source" /\ ~verify
  /\ pc' = "finished"
  /\ UNCHANGED <<verify, engine, NumDiags, verifier, Buffer, checking, exitCode, observer>>

(* CheckDiagnostics up to CheckResults: diagnostics go to the printer.     *)
(* Mutant: a file without directives is accepted.                          *)
CheckBegin_AcceptsEmpty ==
  /\ pc = "source" /\ verify
  /\ OwnsCurClient' = OwnsDiagClient
  /\ replaceClient("printer", FALSE)
  /\ pc' = "error"
  /\ UNCHANGED <<verify, NumDiags, verifier, Buffer, taken, missing, exitCode, observer>>
CheckBegin ==
  /\ pc = "source" /\ verify
  /\ OwnsCurClient' = OwnsDiagClient
  /\ replaceClient("printer", FALSE)
  /\ IF Status = "HasNoDirectives"
       THEN /\ Status' = "HasNoDirectivesReported"
            /\ NumDiags' = [NumDiags EXCEPT !["printer"] = @ + 1, !["verifier"] = @ + 1]
       ELSE UNCHANGED <<Status, NumDiags>>
  /\ pc' = "error"
  /\ UNCHANGED <<verify, OwnsPrimaryClient, ED, Buffer, taken, missing, exitCode, observer>>

(* Right: the diagnostics of the current kind no directive has taken.      *)
Right == DOMAIN Buffer[pc] \ UNION {taken[j] : j \in DOMAIN taken}

(* One trip through the outer loop of CheckLists.  The inner loop takes    *)
(* the first Max diagnostics that match, or all of them, and adds the      *)
(* directive to LeftOnly once for each one short of Min.  Mutants: a       *)
(* diagnostic can be found twice; each one short of Max is added.          *)
CheckDirective_FindsTwice ==
  /\ pc \in Kinds
  /\ Len(taken) < Len(ED[pc])
  /\ LET D == ED[pc][Len(taken) + 1]
         found == {n \in DOMAIN Buffer[pc] : Matches(D, Buffer[pc][n])}
     IN \E T \in SUBSET found :
          /\ Cardinality(T) <= D.Max
          /\ T = found \/ Cardinality(T) = D.Max
          /\ \A t \in T, n \in found \ T : t < n
          /\ taken' = Append(taken, T)
          /\ missing' = missing + IF Cardinality(T) < D.Min THEN D.Min - Cardinality(T) ELSE 0
  /\ UNCHANGED <<pc, verify, engine, NumDiags, verifier, Buffer, OwnsCurClient, exitCode,
                 observer>>
CheckDirective_NoMin ==
  /\ pc \in Kinds
  /\ Len(taken) < Len(ED[pc])
  /\ LET D == ED[pc][Len(taken) + 1]
         found == {n \in Right : Matches(D, Buffer[pc][n])}
     IN \E T \in SUBSET found :
          /\ Cardinality(T) <= D.Max
          /\ T = found \/ Cardinality(T) = D.Max
          /\ \A t \in T, n \in found \ T : t < n
          /\ taken' = Append(taken, T)
          /\ missing' = missing + (D.Max - Cardinality(T))
  /\ UNCHANGED <<pc, verify, engine, NumDiags, verifier, Buffer, OwnsCurClient, exitCode,
                 observer>>
CheckDirective ==
  /\ pc \in Kinds
  /\ Len(taken) < Len(ED[pc])
  /\ LET D == ED[pc][Len(taken) + 1]
         found == {n \in Right : Matches(D, Buffer[pc][n])}
     IN \E T \in SUBSET found :
          /\ Cardinality(T) <= D.Max
          /\ T = found \/ Cardinality(T) = D.Max
          /\ \A t \in T, n \in found \ T : t < n
          /\ taken' = Append(taken, T)
          /\ missing' = missing + IF Cardinality(T) < D.Min THEN D.Min - Cardinality(T) ELSE 0
  /\ UNCHANGED <<pc, verify, engine, NumDiags, verifier, Buffer, OwnsCurClient, exitCode,
                 observer>>

(* The end of CheckLists: PrintExpected and PrintUnexpected give the       *)
(* printer one error each, if there is cause, and return how many          *)
(* differences they saw.  Mutant: the second count replaces the first.     *)
Printed == (IF missing > 0 THEN 1 ELSE 0) + (IF Right # {} THEN 1 ELSE 0)
CheckListsEnd_LosesCount ==
  /\ pc \in Kinds
  /\ Len(taken) = Len(ED[pc])
  /\ NumDiags' = [NumDiags EXCEPT !["printer"] = @ + Printed,
                                  !["verifier"] = @ + Cardinality(Right)]
  /\ taken' = << >>
  /\ missing' = 0
  /\ pc' = IF pc = "error" THEN "note" ELSE "checked"
  /\ UNCHANGED <<verify, engine, verifier, Buffer, OwnsCurClient, exitCode, observer>>
CheckListsEnd ==
  /\ pc \in Kinds
  /\ Len(taken) = Len(ED[pc])
  /\ NumDiags' = [NumDiags EXCEPT !["printer"] = @ + Printed,
                                  !["verifier"] = @ + missing + Cardinality(Right)]
  /\ taken' = << >>
  /\ missing' = 0
  /\ pc' = IF pc = "error" THEN "note" ELSE "checked"
  /\ UNCHANGED <<verify, engine, verifier, Buffer, OwnsCurClient, exitCode, observer>>

(* CheckDiagnostics after CheckResults.                                    *)
CheckEnd ==
  /\ pc = "checked"
  /\ replaceClient("verifier", OwnsCurClient)
  /\ Buffer' = [k \in Kinds |-> << >>]
  /\ ED' = [k \in Kinds |-> << >>]
  /\ processed' = [ED |-> ED, Buffer |-> Buffer]
  /\ pc' = "finished"
  /\ UNCHANGED <<verify, NumDiags, OwnsPrimaryClient, Status, checking, exitCode, events>>

(* The end of main(): the exit code is the client's verdict; then the      *)
(* engine, and with it the verifier and the client the verifier replaced,  *)
(* are destroyed.                                                          *)
Exit ==
  /\ pc = "finished"
  /\ exitCode' = IF NumDiags[Client] > 0 THEN 1 ELSE 0
  /\ deleted' = [c \in Clients |->
                   deleted[c] + (IF OwnsDiagClient /\ c = Client THEN 1 ELSE 0)
                     + (IF /\ OwnsDiagClient /\ Client = "verifier"
                           /\ OwnsPrimaryClient /\ c = "printer" THEN 1 ELSE 0)]
  /\ pc' = "exited"
  /\ UNCHANGED <<verify, Client, OwnsDiagClient, NumDiags, verifier, Buffer, checking,
                 observer>>

Exited == pc = "exited" /\ UNCHANGED vars

Next ==
  \/ NoFile \/ OpenFails \/ OpenFile \/ InstallVerifier
  \/ \E r \in Reports : Diagnose(r)
  \/ \E line \in Lines :
       ParseNoDiagnostics(line) \/ \E d \in Directives : ParseDirective(d, line)
  \/ FinishPrinter \/ CheckBegin \/ CheckDirective \/ CheckListsEnd \/ CheckEnd
  \/ Exit \/ Exited

Spec == Init /\ [][Next]_vars

-----------------------------------------------------------------------------
(* What the verifier promises.                                             *)

DirectiveType == [line : Lines, text : Seq(Words), content : Seq(Words),
                  Min : Nat, Max : Nat]
DiagType == [line : Lines, text : Seq(Words)]

(* The type of every variable.  An accepted directive asks for a line of   *)
(* the file and a count that exists.                                       *)
TypeOK ==
  /\ pc \in {"start", "opened", "source", "checked", "finished", "exited"} \cup Kinds
  /\ verify \in BOOLEAN
  /\ Client \in Clients
  /\ OwnsDiagClient \in BOOLEAN /\ OwnsPrimaryClient \in BOOLEAN /\ OwnsCurClient \in BOOLEAN
  /\ deleted \in [Clients -> Nat]
  /\ NumDiags \in [Clients -> Nat]
  /\ Status \in Statuses
  /\ ED \in [Kinds -> Seq(DirectiveType)]
  /\ Buffer \in [Kinds -> Seq(DiagType)]
  /\ \A k \in Kinds : \A i \in DOMAIN ED[k] : ED[k][i].Min <= ED[k][i].Max
  /\ taken \in Seq(SUBSET Nat)
  /\ missing \in Nat
  /\ exitCode \in {0, 1}
  /\ events \in [Events -> Nat]

Verdict(code) == pc = "exited" /\ verify /\ Client = "verifier" /\ exitCode = code

(* These diagnostics and directives fit together: each diagnostic has a    *)
(* directive that matches it, and each directive has a number of           *)
(* diagnostics that it allows.                                             *)
Consistent(dirs, diags) ==
  \E f \in [DOMAIN diags -> DOMAIN dirs] :
    /\ \A n \in DOMAIN diags : Matches(dirs[f[n]], diags[n])
    /\ \A j \in DOMAIN dirs :
         Cardinality({n \in DOMAIN diags : f[n] = j}) \in dirs[j].Min .. dirs[j].Max

(* A test that passes is right to: exit code 0 means that the diagnostics  *)
(* and the directives fit together, whatever order they came in and        *)
(* however the directives overlap.                                         *)
VerdictSound ==
  Verdict(0) => \A k \in Kinds : Consistent(processed.ED[k], processed.Buffer[k])

(* No two different directives compete for a diagnostic, and those that    *)
(* share one are exact about their number.                                 *)
Unambiguous(dirs, diags) ==
  \A i, j \in DOMAIN dirs, n \in DOMAIN diags :
    i # j /\ Matches(dirs[i], diags[n]) /\ Matches(dirs[j], diags[n]) =>
      /\ dirs[i].text = dirs[j].text
      /\ dirs[i].Min = dirs[i].Max /\ dirs[j].Min = dirs[j].Max

(* A test that fails is right to, unless its directives compete: CheckLists *)
(* is greedy, and a directive may take what only another could have used.  *)
VerdictExact ==
  Verdict(1) =>
    \/ Status = "HasNoDirectivesReported"
    \/ \E k \in Kinds : \/ ~Consistent(processed.ED[k], processed.Buffer[k])
                        \/ ~Unambiguous(processed.ED[k], processed.Buffer[k])

(* The printer has been given an error exactly when the verdict is failure: *)
(* no failure goes unexplained, and no complaint is followed by success.   *)
VerdictExplained ==
  pc = "exited" /\ Client = "verifier" => (exitCode = 1 <=> NumDiags["printer"] > 0)

(* A test must say something: a file without directives fails.             *)
SilentFileFails ==
  Verdict(0) => events["directive"] + events["no-diagnostics"] > 0

(* Nothing a test says is dropped without a trace: each directive has been *)
(* accepted or has left an error in the buffer; and where a test that      *)
(* passes says `expected-no-diagnostics', there was none, even if it also  *)
(* has other directives (an exception is a file that expects the very      *)
(* error about having both).                                               *)
Errors(buffer, what) ==
  {n \in DOMAIN buffer["error"] : \E e \in what : buffer["error"][n].text = <<e>>}
NothingSaidIsLost ==
  /\ pc = "source" /\ verify =>
       events["directive"] <= Len(ED["error"]) + Len(ED["note"])
                                + Cardinality(Errors(Buffer, ParseErrors))
  /\ Verdict(0) /\ events["no-diagnostics"] > 0 =>
       \/ \A k \in Kinds : processed.Buffer[k] = << >>
       \/ Errors(processed.Buffer, {"verify_invalid_no_diags"}) # {}

(* Each client is deleted exactly once, when nobody uses it any more,      *)
(* although three objects take turns at owning them.                       *)
ClientsDeletedOnce ==
  IF pc = "exited"
    THEN \A c \in Clients :
           deleted[c] = IF \/ c # "first" /\ Client = "first"
                           \/ c = "verifier" /\ ~verify
                        THEN 0 ELSE 1
    ELSE /\ deleted[Client] = 0 /\ deleted["verifier"] = 0
         /\ deleted["printer"] = 0
=============================================================================
