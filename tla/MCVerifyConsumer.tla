-------------------------- MODULE MCVerifyConsumer --------------------------
(* Files of two lines whose directives overlap in all the ways that        *)
(* matter: equal, one inside the other, with every form of count.          *)
EXTENDS VerifyConsumer

Here == [ref |-> "here", n |-> 0]
Count(form, n, m) == [form |-> form, n |-> n, m |-> m]
Once == Count("none", 0, 0)
WellFormed(kind, at, count, content) ==
  [kind |-> kind, at |-> at, count |-> count, content |-> content, braces |-> "ok"]

(* Directives that differ in what they match and how often.                *)
MCOverlapping ==
  {WellFormed("error", Here, c, t) :
     c \in {Once, Count("n", 2, 0), Count("range", 0, 1)}, t \in {<<"a">>, <<"a", "b">>}}
  \cup {WellFormed("error", Here, Count("n_plus", 0, 0), <<"a">>),
        WellFormed("error", [ref |-> "plus", n |-> 1], Once, <<"b">>),
        WellFormed("note", Here, Count("plus", 0, 0), << >>)}
MCDiagnostics ==
  {[kind |-> "error", line |-> 1, text |-> t] : t \in {<<"a">>, <<"a", "b">>}}
  \cup {[kind |-> "error", line |-> 2, text |-> <<"b">>],
        [kind |-> "note", line |-> 1, text |-> <<"a">>]}

(* Directives with something wrong, among others that are right and may    *)
(* expect the error about them.                                            *)
MCFaulty ==
  {[WellFormed("error", Here, Once, <<"a">>) EXCEPT !.braces = b] :
     b \in {"ok", "no_start", "no_end", "bad_regex"}}
  \cup {WellFormed("error", at, Once, <<"verify_missing_line">>) :
          at \in {[ref |-> r, n |-> n] : r \in {"abs", "plus", "minus"}, n \in {0, 1}}}
  \cup {WellFormed("note", Here, Count("range", 2, 1), <<"a">>),
        WellFormed("error", Here, Once, <<"verify_invalid_no_diags">>)}

MCDirectives == MCOverlapping \cup MCFaulty
=============================================================================
