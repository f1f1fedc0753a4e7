----------------------------- MODULE Ownership -----------------------------
(***************************************************************************)
(* The ownership marker in the names of daemon streams: managed_name and   *)
(* parse_managed_name.                                                     *)
(*                                                                         *)
(* A string is a sequence of symbols.  The keywords of the marker are one  *)
(* symbol each; every character the code searches for is one of its own.   *)
(***************************************************************************)
EXTENDS Naturals, Sequences

CONSTANTS
  Symbols,    \* the symbols names are made of
  Unmanaged   \* std::nullopt

Space == "space"   \* the character ' '

Side == {"sender", "receiver"}

Keywords == {"NMOS", "(", ")", "[", "]", "/", Space}

ASSUME SymbolsAssumption ==
  /\ Keywords \cup Side \subseteq Symbols
  /\ Unmanaged \notin [ns : Seq(Symbols), side : Side, nmos_id : Seq(Symbols)]

Strings == Seq(Symbols)

(***************************************************************************)
(* std::string::find and substr                                            *)
(***************************************************************************)
OccursAt(text, str, i) ==
  /\ i + Len(text) <= Len(str) + 1
  /\ SubSeq(str, i, i + Len(text) - 1) = text

Occurrences(text, str, from) == {i \in from..Len(str) : OccursAt(text, str, i)}

First(positions) == CHOOSE i \in positions : \A j \in positions : i <= j

\* name.rfind(text, 0) == 0
StartsWith(str, text) == OccursAt(text, str, 1)

Before(str, i) == SubSeq(str, 1, i - 1)
After(str, i) == SubSeq(str, i, Len(str))

(***************************************************************************)
(* The three spellings of the namespace: what opens it, what ends it.      *)
(***************************************************************************)
CurrentForm == [open |-> <<"NMOS", "(">>, close |-> <<")", "/">>]
LegacyForm == [open |-> <<"NMOS", "[">>, close |-> <<"]", "/">>]
StrippedForm == [open |-> <<"NMOS">>, close |-> <<"/">>]

Marked(form, ns, side, nmos_id) ==
  form.open \o ns \o form.close \o <<side, "/">> \o nmos_id

\* Variant for validation: the label follows the id without a separator.
UnseparatedName(ns, side, nmos_id, label) ==
  Marked(CurrentForm, ns, side, nmos_id) \o label

\* Variant for validation: names are still written in the older spelling.
LegacyName(ns, side, nmos_id, label) ==
  Marked(LegacyForm, ns, side, nmos_id)
    \o (IF label = <<>> THEN <<>> ELSE <<Space>> \o label)

managed_name(ns, side, nmos_id, label) ==
  Marked(CurrentForm, ns, side, nmos_id)
    \o (IF label = <<>> THEN <<>> ELSE <<Space>> \o label)

\* The first spelling whose prefix matches; the shortest prefix comes last.
FormOf(name) ==
  IF StartsWith(name, CurrentForm.open) THEN CurrentForm
  ELSE IF StartsWith(name, LegacyForm.open) THEN LegacyForm
  ELSE StrippedForm

\* The id ends at the first space.
IdIn(text) ==
  LET spaces == Occurrences(<<Space>>, text, 1)
  IN IF spaces = {} THEN text ELSE Before(text, First(spaces))

\* Variant for validation: an empty namespace or id is accepted.
ParseRestUnchecked(ns, rest) ==
  LET slashes == Occurrences(<<"/">>, rest, 1)
      side == Before(rest, First(slashes))
  IN IF slashes = {} \/ side \notin {<<sd>> : sd \in Side}
     THEN Unmanaged
     ELSE [ns |-> ns, side |-> side[1],
           nmos_id |-> IdIn(After(rest, First(slashes) + 1))]

\* <side>/<nmos_id> <label>
ParseRest(ns, rest) ==
  LET slashes == Occurrences(<<"/">>, rest, 1)
      side == Before(rest, First(slashes))
      nmos_id == IdIn(After(rest, First(slashes) + 1))
  IN IF \/ slashes = {}
        \/ side \notin {<<sd>> : sd \in Side}
        \/ ns = <<>> \/ nmos_id = <<>>
     THEN Unmanaged
     ELSE [ns |-> ns, side |-> side[1], nmos_id |-> nmos_id]

\* Variant for validation: the legacy spelling is not told from a stripped one.
ParseWithoutLegacy(name) ==
  LET form == IF StartsWith(name, CurrentForm.open) THEN CurrentForm ELSE StrippedForm
      start == Len(form.open) + 1
      ends == Occurrences(form.close, name, start)
      end == First(ends)
  IN IF ~StartsWith(name, form.open) \/ ends = {}
     THEN Unmanaged
     ELSE ParseRest(SubSeq(name, start, end - 1), After(name, end + Len(form.close)))

parse_managed_name(name) ==
  LET form == FormOf(name)
      start == Len(form.open) + 1
      ends == Occurrences(form.close, name, start)
      end == First(ends)
  IN IF ~StartsWith(name, form.open) \/ ends = {}
     THEN Unmanaged
     ELSE ParseRest(SubSeq(name, start, end - 1), After(name, end + Len(form.close)))

\* What is left of str, after each of its symbols, when those in dropped go:
\* SelectSeq as a recursive function, whose definition the prover can use.
Kept(str, dropped) ==
  LET kept[i \in 0..Len(str)] ==
        IF i = 0 THEN <<>>
        ELSE IF str[i] \in dropped THEN kept[i - 1] ELSE Append(kept[i - 1], str[i])
  IN kept

Without(str, dropped) == Kept(str, dropped)[Len(str)]

\* The daemon's sanitizing of names that the stripped spelling is for.
Brackets == {"(", ")", "[", "]"}
Sanitized(str) == Without(str, Brackets)

\* What the daemon keeps of a name it is sent: it drops square brackets.
Stored(str) == Without(str, {"[", "]"})

-----------------------------------------------------------------------------
Contains(str, text) == Occurrences(text, str, 1) # {}

\* Names the marker can carry: the namespace must not end early, the id must
\* be there and end where it ends.
Plain(ns, nmos_id) ==
  /\ ns # <<>> /\ ~Contains(ns, <<")", "/">>)
  /\ nmos_id # <<>> /\ ~Contains(nmos_id, <<Space>>)

\* The parser reads back what managed_name wrote.
RoundTrips(ns, side, nmos_id, label) ==
  parse_managed_name(managed_name(ns, side, nmos_id, label))
    = [ns |-> ns, side |-> side, nmos_id |-> nmos_id]

\* A name with ownership o: one of the spellings, then nothing or a label.
Carries(name, o) ==
  \E form \in {CurrentForm, LegacyForm, StrippedForm} :
    LET marker == Marked(form, o.ns, o.side, o.nmos_id)
    IN StartsWith(name, marker) /\ (Len(name) > Len(marker) => name[Len(marker) + 1] = Space)
=============================================================================
