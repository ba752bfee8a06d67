---------------------------- MODULE Diagnostics -----------------------------
(***************************************************************************)
(* The diagnostics engine of include/gong/Basic/Diagnostic.h: one slot for *)
(* the diagnostic in flight, DiagnosticBuilder objects that hold the right *)
(* to add arguments to it and emit it when they are destroyed, the table   *)
(* of custom diagnostic IDs, and TextDiagnosticBuffer, which stores        *)
(* diagnostics and replays them into an engine.                            *)
(*                                                                         *)
(* A report site of the front end is `Diag(Loc, ID) << A << B;`: Report    *)
(* makes a builder, which may be copied out of the functions that return   *)
(* it, takes arguments, and dies at the end of the statement.  Any such    *)
(* sequence is a behaviour here; that nothing is reported while a builder  *)
(* is active is asserted by Report, and is the guard of Report.            *)
(***************************************************************************)
EXTENDS Integers, Sequences, FiniteSets

CONSTANTS
  Builders,      (* storage for DiagnosticBuilder objects                  *)
  NoteIDs,       (* built-in diagnostics of CLASS_NOTE                     *)
  ErrorIDs,      (* built-in diagnostics of CLASS_ERROR                    *)
  MaxArguments,  (* capacity of the engine's argument arrays               *)
  NoID,          (* ~0U: nothing in flight                                 *)
  MaxReports     (* bound: reports made in one behaviour                   *)

BuiltinIDs == NoteIDs \cup ErrorIDs

ASSUME BoundsAssumption == MaxArguments \in Nat /\ MaxReports \in Nat
(* Custom IDs, numbers here, lie above DIAG_UPPER_LIMIT.                    *)
ASSUME IDsAssumption == /\ NoteIDs \cap ErrorIDs = {}
                        /\ BuiltinIDs \cap Nat = {}
                        /\ NoID \notin BuiltinIDs \cup Nat

VARIABLES
  CurDiagID,     (* ID of the diagnostic in flight                         *)
  DiagArguments, (* the argument arrays, shared by all diagnostics         *)
  builder,       (* the DiagnosticBuilder objects                          *)
  DiagInfo,      (* CustomDiagInfo: custom ID -> level and message         *)
  DiagIDs,       (* CustomDiagInfo: level and message -> custom ID         *)
  Client,        (* "buffer" or "printer"                                  *)
  Buffered,      (* TextDiagnosticBuffer: Errors and Notes, by level       *)
  flushing,      (* number of buffered diagnostics already replayed, or -1 *)
  reports,       (* the reports made: what each is expected to say         *)
  emitted        (* what the clients were given                            *)

vars == <<CurDiagID, DiagArguments, builder, DiagInfo, DiagIDs, Client,
          Buffered, flushing, reports, emitted>>

Levels  == {"Note", "Error"}
States  == {"none", "active", "cleared"}
Builder == [state : States, NumArgs : 0 .. MaxArguments]

-----------------------------------------------------------------------------
(* DiagnosticIDs.  A built-in ID stands for itself; custom IDs number the  *)
(* entries of DiagInfo.                                                    *)

DiagDesc(level, message) == [level |-> level, message |-> message]

getDiagnosticLevel(id) ==
  IF id \in NoteIDs THEN "Note"
  ELSE IF id \in ErrorIDs THEN "Error" ELSE DiagInfo[id].level

(* The description of a custom ID is never looked up in DiagInfo.          *)
getDescription(id) == IF id \in BuiltinIDs THEN <<id>> ELSE << >>

(* getCustomDiagID                                                         *)
getCustomDiagID(level, message) ==
  IF DiagDesc(level, message) \in DOMAIN DiagIDs
    THEN DiagIDs[DiagDesc(level, message)]
    ELSE Len(DiagInfo) + 1

RegisterCustomDiag(level, message) ==
  LET id == getCustomDiagID(level, message)
      d  == DiagDesc(level, message)
  IN /\ DiagInfo' = IF id > Len(DiagInfo) THEN Append(DiagInfo, d) ELSE DiagInfo
     /\ DiagIDs'  = IF id > Len(DiagInfo)
                      THEN [x \in DOMAIN DiagIDs \cup {d} |->
                              IF x = d THEN id ELSE DiagIDs[x]]
                      ELSE DiagIDs

-----------------------------------------------------------------------------
(* EmitCurrentDiagnostic: the client formats the diagnostic from the       *)
(* engine's state while handling it.                                       *)

FormatDiagnostic(id, args) == getDescription(id) \o args

handleDiagnostic(id, level, text) ==
  /\ emitted' = Append(emitted, [id |-> id, level |-> level, text |-> text])
  /\ Buffered' = IF Client = "buffer"
                   THEN [Buffered EXCEPT ![level] = Append(@, text)]
                   ELSE Buffered

EmitCurrentDiagnostic(NumArgs) ==
  /\ handleDiagnostic(CurDiagID, getDiagnosticLevel(CurDiagID),
                      FormatDiagnostic(CurDiagID, SubSeq(DiagArguments, 1, NumArgs)))
  /\ CurDiagID' = NoID
-----------------------------------------------------------------------------
(* The actions of a program that reports diagnostics.  reports holds what  *)
(* each report asks to be said: its description and then the arguments     *)
(* added to it, each named by its report and its place in that report.     *)

Init ==
  /\ CurDiagID = NoID
  /\ DiagArguments = [i \in 1 .. MaxArguments |-> <<0, 0>>]
  /\ builder = [b \in Builders |-> [state |-> "none", NumArgs |-> 0]]
  /\ DiagInfo = << >>
  /\ DiagIDs = << >>
  /\ Client = "buffer"
  /\ Buffered = [l \in Levels |-> << >>]
  /\ flushing = -1
  /\ reports = << >>
  /\ emitted = << >>

unchangedIDs == UNCHANGED <<DiagInfo, DiagIDs>>

(* Report, and a mutant without its assertion.                             *)
Report_Overlapping(b, id) ==
  /\ flushing = -1
  /\ Len(reports) < MaxReports
  /\ builder[b].state = "none"
  /\ CurDiagID' = id
  /\ builder' = [builder EXCEPT ![b] = [state |-> "active", NumArgs |-> 0]]
  /\ reports' = Append(reports, getDescription(id))
  /\ UNCHANGED <<DiagArguments, Client, Buffered, flushing, emitted>>
  /\ unchangedIDs
Report(b, id) ==
  /\ flushing = -1
  /\ Len(reports) < MaxReports
  /\ CurDiagID = NoID
  /\ builder[b].state = "none"
  /\ CurDiagID' = id
  /\ builder' = [builder EXCEPT ![b] = [state |-> "active", NumArgs |-> 0]]
  /\ reports' = Append(reports, getDescription(id))
  /\ UNCHANGED <<DiagArguments, Client, Buffered, flushing, emitted>>
  /\ unchangedIDs

(* operator<<, and a mutant that does not check the capacity.              *)
AddTaggedVal_Unchecked(b) ==
  LET n == builder[b].NumArgs + 1
      r == Len(reports)
  IN /\ builder[b].state = "active"
     /\ n <= MaxArguments + 1
     /\ DiagArguments' = [DiagArguments EXCEPT ![n] = <<r, Len(reports[r])>>]
     /\ builder' = [builder EXCEPT ![b].NumArgs = n]
     /\ reports' = [reports EXCEPT ![r] = Append(@, <<r, Len(@)>>)]
     /\ UNCHANGED <<CurDiagID, Client, Buffered, flushing, emitted>>
     /\ unchangedIDs
AddTaggedVal(b) ==
  LET n == builder[b].NumArgs + 1
      r == Len(reports)
      arg == <<r, Len(reports[r])>>
  IN /\ builder[b].state = "active"
     /\ n <= MaxArguments
     /\ DiagArguments' = [DiagArguments EXCEPT ![n] = arg]
     /\ builder' = [builder EXCEPT ![b].NumArgs = n]
     /\ reports' = [reports EXCEPT ![r] = Append(@, arg)]
     /\ UNCHANGED <<CurDiagID, Client, Buffered, flushing, emitted>>
     /\ unchangedIDs

(* The copy constructor: the copy takes over, the original is cleared.     *)
(* Mutants: the original stays active; it is cleared, with its counts,     *)
(* before they are read.                                                   *)
CopyBuilder_KeepsSource(b, c) ==
  /\ builder[b].state # "none"
  /\ builder[c].state = "none"
  /\ builder' = [builder EXCEPT ![c] = builder[b]]
  /\ UNCHANGED <<CurDiagID, DiagArguments, Client, Buffered, flushing, reports, emitted>>
  /\ unchangedIDs
CopyBuilder_LosesCounts(b, c) ==
  /\ builder[b].state # "none"
  /\ builder[c].state = "none"
  /\ builder' = [builder EXCEPT ![b].state = "cleared", ![b].NumArgs = 0,
                                ![c] = [state |-> builder[b].state, NumArgs |-> 0]]
  /\ UNCHANGED <<CurDiagID, DiagArguments, Client, Buffered, flushing, reports, emitted>>
  /\ unchangedIDs
CopyBuilder(b, c) ==
  /\ builder[b].state # "none"
  /\ builder[c].state = "none"
  /\ builder' = [builder EXCEPT ![b].state = "cleared", ![c] = builder[b]]
  /\ UNCHANGED <<CurDiagID, DiagArguments, Client, Buffered, flushing, reports, emitted>>
  /\ unchangedIDs

(* The destructor emits what is still to be emitted.                        *)
DestroyBuilder(b) ==
  /\ builder[b].state # "none"
  /\ builder' = [builder EXCEPT ![b].state = "none"]
  /\ \/ /\ builder[b].state = "active"
        /\ EmitCurrentDiagnostic(builder[b].NumArgs)
     \/ /\ builder[b].state = "cleared"
        /\ UNCHANGED <<CurDiagID, Buffered, emitted>>
  /\ UNCHANGED <<DiagArguments, Client, flushing, reports>>
  /\ unchangedIDs

setClient(c) ==
  /\ flushing = -1
  /\ CurDiagID = NoID
  /\ Client' = c
  /\ UNCHANGED <<CurDiagID, DiagArguments, builder, Buffered, flushing, reports, emitted>>
  /\ unchangedIDs

(* FlushDiagnostics replays the buffer into the engine, errors first, each *)
(* under a custom ID made of its text.  The loop must not be run with the  *)
(* buffer itself as the client.                                            *)
Replay == [i \in DOMAIN Buffered["Error"] |-> DiagDesc("Error", Buffered["Error"][i])]
            \o [i \in DOMAIN Buffered["Note"] |-> DiagDesc("Note", Buffered["Note"][i])]

FlushBegin ==
  /\ flushing = -1
  /\ Client = "printer"
  /\ CurDiagID = NoID
  /\ Len(reports) + Len(Replay) <= MaxReports
  /\ flushing' = 0
  /\ UNCHANGED <<CurDiagID, DiagArguments, builder, Client, Buffered, reports, emitted>>
  /\ unchangedIDs

(* One trip through its loops: the builder dies at once.                   *)
FlushOne ==
  /\ flushing \in 0 .. Len(Replay) - 1
  /\ LET d == Replay[flushing + 1]
         id == getCustomDiagID(d.level, d.message)
     IN /\ RegisterCustomDiag(d.level, d.message)
        /\ emitted' = Append(emitted, [id |-> id, level |-> DiagInfo'[id].level,
                                       text |-> FormatDiagnostic(id, << >>)])
        /\ reports' = Append(reports, d.message)
  /\ flushing' = flushing + 1
  /\ UNCHANGED <<CurDiagID, DiagArguments, builder, Client, Buffered>>

FlushEnd ==
  /\ flushing = Len(Replay)
  /\ flushing' = -1
  /\ UNCHANGED <<CurDiagID, DiagArguments, builder, Client, Buffered, reports, emitted>>
  /\ unchangedIDs

Next ==
  \/ \E b \in Builders :
       \/ \E id \in BuiltinIDs : Report(b, id)
       \/ AddTaggedVal(b)
       \/ \E c \in Builders : CopyBuilder(b, c)
       \/ DestroyBuilder(b)
  \/ \E c \in {"buffer", "printer"} : setClient(c)
  \/ FlushBegin \/ FlushOne \/ FlushEnd

Spec == Init /\ [][Next]_vars

-----------------------------------------------------------------------------
(* What the engine promises.                                               *)

Active == {b \in Builders : builder[b].state = "active"}
Custom == DOMAIN DiagInfo

Word     == BuiltinIDs \cup (Nat \X Nat)
Text     == Seq(Word)
Emission == [id : BuiltinIDs \cup Nat, level : Levels, text : Text]

TypeOK ==
  /\ CurDiagID \in BuiltinIDs \cup {NoID}
  /\ DiagArguments \in [1 .. MaxArguments -> Nat \X Nat]
  /\ builder \in [Builders -> Builder]
  /\ DiagInfo \in Seq([level : Levels, message : Text])
  /\ DOMAIN DiagIDs \subseteq [level : Levels, message : Text]
  /\ \A d \in DOMAIN DiagIDs : DiagIDs[d] \in DOMAIN DiagInfo
  /\ Client \in {"buffer", "printer"}
  /\ Buffered \in [Levels -> Seq(Text)]
  /\ flushing \in Nat \cup {-1}
  /\ reports \in Seq(Text)
  /\ emitted \in Seq(Emission)

(* A diagnostic is in flight exactly while one builder may still add to    *)
(* it, however often builders were copied; never two.                      *)
OneInFlight ==
  /\ CurDiagID = NoID => Active = {}
  /\ CurDiagID # NoID => \E b \in Active : Active = {b}

(* Every report is emitted exactly once, in the order the reports were     *)
(* made, and nothing else is emitted: at any time all reports have been    *)
(* emitted except the one in flight.                                       *)
EmittedOnce ==
  Len(emitted) = Len(reports) - (IF CurDiagID = NoID THEN 0 ELSE 1)

(* A diagnostic that does not go through the buffer says what its report   *)
(* asked for: its own description and all its arguments in order, none     *)
(* left over from an earlier diagnostic in the shared arrays.              *)
SaysWhatWasReported ==
  \A i \in DOMAIN emitted :
    emitted[i].id \in BuiltinIDs => emitted[i].text = reports[i]
=============================================================================
