-------------------------- MODULE OwnershipProofs --------------------------
(***************************************************************************)
(* The ownership marker for strings of every length: what managed_name     *)
(* writes is read back, and only what spells an ownership is read as one.  *)
(***************************************************************************)
EXTENDS MCOwnership, OrderLemmas, SequenceTheorems

-----------------------------------------------------------------------------
(***************************************************************************)
(* find, substr and concatenation, position by position.                   *)
(***************************************************************************)
LEMMA OccurrencePointwise ==
  ASSUME NEW text \in Strings, NEW str \in Strings, NEW i \in Nat \ {0}
  PROVE  OccursAt(text, str, i) <=>
           /\ i + Len(text) <= Len(str) + 1
           /\ \A j \in 1..Len(text) : str[i + j - 1] = text[j]
<1> USE DEF Strings
<1>1. Len(text) \in Nat /\ Len(str) \in Nat
  BY LenProperties
<1> SUFFICES ASSUME i + Len(text) <= Len(str) + 1
             PROVE  SubSeq(str, i, i + Len(text) - 1) = text
                      <=> \A j \in 1..Len(text) : str[i + j - 1] = text[j]
  BY DEF OccursAt
<1> DEFINE last == i + Len(text) - 1
           sub == SubSeq(str, i, last)
<1>2. last \in Int /\ last - i + 1 = Len(text)
  BY <1>1
<1>3. \A j \in i..last : str[j] \in Symbols
  <2>1. \A j \in i..last : j \in 1..Len(str)
    BY <1>1
  <2> QED
    BY <2>1, ElementOfSeq
<1>4. /\ sub \in Seq(Symbols)
      /\ Len(sub) = IF i <= last THEN last - i + 1 ELSE 0
      /\ \A j \in 1..(last - i + 1) : sub[j] = str[i + j - 1]
  BY <1>2, <1>3, SubSeqProperties
<1>5. Len(sub) = Len(text)
  BY <1>1, <1>2, <1>4
<1> HIDE DEF sub, last
<1>6. (\A j \in 1..Len(text) : sub[j] = text[j]) => sub = text
  BY <1>4, <1>5, SeqEqual
<1> QED
  BY <1>2, <1>4, <1>6 DEF sub, last

LEMMA SliceOf ==
  ASSUME NEW str \in Strings, NEW i \in Nat \ {0}, NEW j \in Int, j <= Len(str)
  PROVE  /\ SubSeq(str, i, j) \in Strings
         /\ Len(SubSeq(str, i, j)) = IF i <= j THEN j - i + 1 ELSE 0
         /\ \A k \in 1..(j - i + 1) : SubSeq(str, i, j)[k] = str[i + k - 1]
<1>1. \A k \in i..j : str[k] \in Symbols
  <2>1. Len(str) \in Nat
    BY LenProperties DEF Strings
  <2>2. \A k \in i..j : k \in 1..Len(str)
    BY <2>1
  <2> QED
    BY <2>2, ElementOfSeq DEF Strings
<1> QED
  BY <1>1, SubSeqProperties DEF Strings

LEMMA AfterOf ==
  ASSUME NEW str \in Strings, NEW i \in 1..(Len(str) + 1)
  PROVE  /\ After(str, i) \in Strings
         /\ Len(After(str, i)) = Len(str) - i + 1
         /\ \A k \in 1..(Len(str) - i + 1) : After(str, i)[k] = str[i + k - 1]
<1>1. Len(str) \in Nat
  BY LenProperties DEF Strings
<1>2. i \in Nat \ {0} /\ Len(str) \in Int /\ Len(str) <= Len(str) /\ i <= Len(str) + 1
  BY <1>1
<1> DEFINE n == Len(str)
<1>3. n \in Int /\ n <= Len(str) /\ i <= n + 1
  BY <1>2
<1> HIDE DEF n
<1>4. /\ SubSeq(str, i, n) \in Strings
      /\ Len(SubSeq(str, i, n)) = IF i <= n THEN n - i + 1 ELSE 0
      /\ \A k \in 1..(n - i + 1) : SubSeq(str, i, n)[k] = str[i + k - 1]
  BY <1>2, <1>3, SliceOf
<1>5. Len(SubSeq(str, i, n)) = n - i + 1
  BY <1>2, <1>3, <1>4
<1> QED
  BY <1>4, <1>5 DEF n, After

LEMMA FirstIsLeast ==
  ASSUME NEW T \in SUBSET Nat, T # {}
  PROVE  First(T) \in T /\ \A j \in T : First(T) <= j
BY LeastElement DEF First

LEMMA FirstIs ==
  ASSUME NEW T \in SUBSET Nat, NEW i \in T, \A j \in T : i <= j
  PROVE  First(T) = i
<1>1. First(T) \in T /\ First(T) <= i
  BY FirstIsLeast
<1>2. First(T) \in Nat /\ i \in Nat /\ i <= First(T)
  BY <1>1
<1> QED
  BY <1>1, <1>2

LEMMA OccurrencesAreNumbers ==
  ASSUME NEW text, NEW str \in Strings, NEW from \in Nat
  PROVE  Occurrences(text, str, from) \in SUBSET Nat
BY LenProperties DEF Strings, Occurrences

LEMMA KeywordsAre ==
  {"NMOS", "(", ")", "[", "]", "/", Space, "sender", "receiver"} \subseteq Symbols
BY SymbolsAssumption DEF Keywords, Side

LEMMA EmptyString == << >> \in Strings /\ Len(<< >>) = 0
BY DEF Strings

LEMMA OneSymbolString ==
  ASSUME NEW a \in Symbols
  PROVE  <<a>> \in Strings /\ Len(<<a>>) = 1 /\ <<a>>[1] = a
BY DEF Strings

LEMMA TwoSymbolString ==
  ASSUME NEW a \in Symbols, NEW b \in Symbols
  PROVE  <<a, b>> \in Strings /\ Len(<<a, b>>) = 2 /\ <<a, b>>[1] = a /\ <<a, b>>[2] = b
BY DEF Strings

LEMMA Concatenation ==
  ASSUME NEW s \in Strings, NEW t \in Strings
  PROVE  /\ s \o t \in Strings
         /\ Len(s \o t) = Len(s) + Len(t)
         /\ \A i \in 1..Len(s) : (s \o t)[i] = s[i]
         /\ \A i \in 1..Len(t) : (s \o t)[Len(s) + i] = t[i]
<1> USE DEF Strings
<1>1. Len(s) \in Nat /\ Len(t) \in Nat
  BY LenProperties
<1>2. /\ s \o t \in Strings
      /\ Len(s \o t) = Len(s) + Len(t)
      /\ \A i \in 1 .. Len(s) + Len(t) :
           (s \o t)[i] = IF i <= Len(s) THEN s[i] ELSE t[i - Len(s)]
  BY ConcatProperties
<1>3. ASSUME NEW i \in 1..Len(s)
      PROVE  (s \o t)[i] = s[i]
  <2>1. i \in 1 .. Len(s) + Len(t) /\ i <= Len(s)
    BY <1>1
  <2> QED
    BY <1>2, <2>1
<1>4. ASSUME NEW i \in 1..Len(t)
      PROVE  (s \o t)[Len(s) + i] = t[i]
  <2>1. Len(s) + i \in 1 .. Len(s) + Len(t) /\ ~(Len(s) + i <= Len(s)) /\ (Len(s) + i) - Len(s) = i
    BY <1>1
  <2> QED
    BY <1>2, <2>1
<1> QED
  BY <1>2, <1>3, <1>4

LEMMA EqualSymbolBySymbol ==
  ASSUME NEW s \in Strings, NEW t \in Strings, Len(s) = Len(t),
         \A i \in 1..Len(s) : s[i] = t[i]
  PROVE  s = t
BY SeqEqual DEF Strings

-----------------------------------------------------------------------------
(***************************************************************************)
(* A marked name, symbol by symbol.                                        *)
(***************************************************************************)
Forms == {CurrentForm, LegacyForm, StrippedForm}

LEMMA FormsAre ==
  ASSUME NEW form \in Forms
  PROVE  /\ form.open \in Strings /\ Len(form.open) \in {1, 2} /\ form.open[1] = "NMOS"
         /\ form.close \in Strings /\ Len(form.close) \in {1, 2}
         /\ form.close[Len(form.close)] = "/"
         /\ Len(form.close) = 2 => form.close[1] # "/"
<1>1. CASE form = CurrentForm
  <2>1. form.open \in Strings /\ form.close \in Strings
    BY <1>1, KeywordsAre, TwoSymbolString DEF CurrentForm
  <2> QED
    BY <1>1, <2>1 DEF CurrentForm
<1>2. CASE form = LegacyForm
  <2>1. form.open \in Strings /\ form.close \in Strings
    BY <1>2, KeywordsAre, TwoSymbolString DEF LegacyForm
  <2> QED
    BY <1>2, <2>1 DEF LegacyForm
<1>3. CASE form = StrippedForm
  <2>1. form.open \in Strings /\ form.close \in Strings
    BY <1>3, KeywordsAre, OneSymbolString DEF StrippedForm
  <2> QED
    BY <1>3, <2>1 DEF StrippedForm
<1> QED
  BY <1>1, <1>2, <1>3 DEF Forms

\* The positions of the parts of  open n close sd / id tail.
LaidOut(str, open, n, close, sd, id, tail) ==
  LET d == Len(open) + Len(n) + Len(close)
  IN /\ Len(str) = d + 2 + Len(id) + Len(tail)
     /\ \A i \in 1..Len(open) : str[i] = open[i]
     /\ \A i \in 1..Len(n) : str[Len(open) + i] = n[i]
     /\ \A i \in 1..Len(close) : str[Len(open) + Len(n) + i] = close[i]
     /\ str[d + 1] = sd /\ str[d + 2] = "/"
     /\ \A i \in 1..Len(id) : str[d + 2 + i] = id[i]
     /\ \A i \in 1..Len(tail) : str[d + 2 + Len(id) + i] = tail[i]

LEMMA Layout ==
  ASSUME NEW form \in Forms, NEW n \in Strings, NEW sd \in Side, NEW id \in Strings,
         NEW tail \in Strings
  PROVE  LET str == Marked(form, n, sd, id) \o tail
         IN str \in Strings /\ LaidOut(str, form.open, n, form.close, sd, id, tail)
<1> DEFINE open == form.open
           close == form.close
           slash == <<sd, "/">>
           s1 == open \o n
           s2 == s1 \o close
           s3 == s2 \o slash
           s4 == s3 \o id
           str == s4 \o tail
<1>1. open \in Strings /\ close \in Strings
  BY FormsAre
<1>2. slash \in Strings /\ Len(slash) = 2 /\ slash[1] = sd /\ slash[2] = "/"
  BY KeywordsAre, TwoSymbolString DEF Side
<1>3. Marked(form, n, sd, id) \o tail = str
  BY DEF Marked
<1>4. /\ Len(open) \in Nat /\ Len(n) \in Nat /\ Len(close) \in Nat
      /\ Len(id) \in Nat /\ Len(tail) \in Nat
  BY <1>1, LenProperties DEF Strings
<1> HIDE DEF open, close, slash
<1>5. /\ s1 \in Strings
      /\ Len(s1) = Len(open) + Len(n)
      /\ \A i \in 1..Len(open) : s1[i] = open[i]
      /\ \A i \in 1..Len(n) : s1[Len(open) + i] = n[i]
  BY <1>1, Concatenation
<1> HIDE DEF s1
<1>6. /\ s2 \in Strings
      /\ Len(s2) = Len(s1) + Len(close)
      /\ \A i \in 1..Len(s1) : s2[i] = s1[i]
      /\ \A i \in 1..Len(close) : s2[Len(s1) + i] = close[i]
  BY <1>1, <1>5, Concatenation
<1> HIDE DEF s2
<1>7. /\ s3 \in Strings
      /\ Len(s3) = Len(s2) + 2
      /\ \A i \in 1..Len(s2) : s3[i] = s2[i]
      /\ \A i \in 1..2 : s3[Len(s2) + i] = slash[i]
  <2>1. /\ s2 \o slash \in Strings
        /\ Len(s2 \o slash) = Len(s2) + Len(slash)
        /\ \A i \in 1..Len(s2) : (s2 \o slash)[i] = s2[i]
        /\ \A i \in 1..Len(slash) : (s2 \o slash)[Len(s2) + i] = slash[i]
    BY <1>2, <1>6, Concatenation
  <2> QED
    BY <1>2, <2>1
<1> HIDE DEF s3
<1>8. /\ s4 \in Strings
      /\ Len(s4) = Len(s3) + Len(id)
      /\ \A i \in 1..Len(s3) : s4[i] = s3[i]
      /\ \A i \in 1..Len(id) : s4[Len(s3) + i] = id[i]
  BY <1>7, Concatenation
<1> HIDE DEF s4
<1>9. /\ str \in Strings
      /\ Len(str) = Len(s4) + Len(tail)
      /\ \A i \in 1..Len(s4) : str[i] = s4[i]
      /\ \A i \in 1..Len(tail) : str[Len(s4) + i] = tail[i]
  BY <1>8, Concatenation
<1> HIDE DEF str
<1> DEFINE d == Len(open) + Len(n) + Len(close)
<1>10. /\ Len(s1) = Len(open) + Len(n) /\ Len(s2) = d /\ Len(s3) = d + 2
       /\ Len(s4) = d + 2 + Len(id) /\ Len(str) = d + 2 + Len(id) + Len(tail)
  BY <1>4, <1>5, <1>6, <1>7, <1>8, <1>9
<1>11. \A i \in 1..Len(s3) : str[i] = s3[i]
  <2>1. \A i \in 1..Len(s3) : i \in 1..Len(s4)
    BY <1>4, <1>10
  <2> QED
    BY <1>8, <1>9, <2>1
<1>12. \A i \in 1..d : str[i] = s2[i]
  BY <1>4, <1>7, <1>10, <1>11
<1>13. \A i \in 1..Len(s1) : str[i] = s1[i]
  BY <1>4, <1>6, <1>10, <1>12, SMTT(30)
<1>14. /\ \A i \in 1..Len(open) : str[i] = open[i]
       /\ \A i \in 1..Len(n) : str[Len(open) + i] = n[i]
  <2>1. \A i \in 1..Len(open) : i \in 1..Len(s1)
    BY <1>4, <1>10
  <2>2. \A i \in 1..Len(n) : Len(open) + i \in 1..Len(s1)
    BY <1>4, <1>10
  <2> QED
    BY <1>5, <1>13, <2>1, <2>2
<1>15. \A i \in 1..Len(close) : str[Len(open) + Len(n) + i] = close[i]
  BY <1>4, <1>6, <1>10, <1>12
<1>16. str[d + 1] = sd /\ str[d + 2] = "/"
  <2>1. d + 1 \in 1..Len(s3) /\ d + 2 \in 1..Len(s3)
    BY <1>4, <1>10
  <2>2. s3[d + 1] = slash[1] /\ s3[d + 2] = slash[2]
    BY <1>7, <1>10
  <2> QED
    BY <1>2, <1>11, <2>1, <2>2
<1>17. \A i \in 1..Len(id) : str[d + 2 + i] = id[i]
  <2> SUFFICES ASSUME NEW i \in 1..Len(id)
               PROVE  str[d + 2 + i] = id[i]
    OBVIOUS
  <2>1. d + 2 + i \in 1..Len(s4) /\ Len(s3) + i = d + 2 + i
    BY <1>4, <1>10
  <2> QED
    BY <1>8, <1>9, <2>1
<1>18. \A i \in 1..Len(tail) : str[d + 2 + Len(id) + i] = tail[i]
  BY <1>4, <1>9, <1>10
<1>19. LaidOut(str, open, n, close, sd, id, tail)
  BY <1>10, <1>14, <1>15, <1>16, <1>17, <1>18 DEF LaidOut
<1> QED
  BY <1>3, <1>9, <1>19 DEF open, close

-----------------------------------------------------------------------------
(***************************************************************************)
(* Searching for one symbol, and for two.                                  *)
(***************************************************************************)
LEMMA OneSymbol ==
  ASSUME NEW c \in Symbols, NEW str \in Strings, NEW from \in Nat \ {0}
  PROVE  Occurrences(<<c>>, str, from) = {i \in from..Len(str) : str[i] = c}
<1>1. Len(str) \in Nat
  BY LenProperties DEF Strings
<1>2. ASSUME NEW i \in from..Len(str)
      PROVE  OccursAt(<<c>>, str, i) <=> str[i] = c
  <2>1. i \in Nat \ {0} /\ <<c>> \in Strings /\ Len(<<c>>) = 1
    BY <1>1, OneSymbolString
  <2>2. OccursAt(<<c>>, str, i) <=>
          /\ i + 1 <= Len(str) + 1
          /\ \A j \in 1..1 : str[i + j - 1] = <<c>>[j]
    BY <2>1, OccurrencePointwise
  <2>3. (\A j \in 1..1 : str[i + j - 1] = <<c>>[j]) <=> str[i] = c
    BY <2>1
  <2> QED
    BY <1>1, <2>1, <2>2, <2>3
<1> QED
  BY <1>2 DEF Occurrences

LEMMA TwoSymbols ==
  ASSUME NEW a \in Symbols, NEW b \in Symbols, NEW str \in Strings, NEW from \in Nat \ {0}
  PROVE  Occurrences(<<a, b>>, str, from)
           = {i \in from..(Len(str) - 1) : str[i] = a /\ str[i + 1] = b}
<1>1. Len(str) \in Nat
  BY LenProperties DEF Strings
<1>2. ASSUME NEW i \in from..Len(str)
      PROVE  OccursAt(<<a, b>>, str, i) <=>
               i \in from..(Len(str) - 1) /\ str[i] = a /\ str[i + 1] = b
  <2>1. i \in Nat \ {0} /\ <<a, b>> \in Strings /\ Len(<<a, b>>) = 2
    BY <1>1, TwoSymbolString
  <2>2. OccursAt(<<a, b>>, str, i) <=>
          /\ i + 2 <= Len(str) + 1
          /\ \A j \in 1..2 : str[i + j - 1] = <<a, b>>[j]
    BY <2>1, OccurrencePointwise
  <2>3. (\A j \in 1..2 : str[i + j - 1] = <<a, b>>[j]) <=> str[i] = a /\ str[i + 1] = b
    <3>1. 1..2 = {1, 2} /\ i + 1 - 1 = i /\ i + 2 - 1 = i + 1
      BY <2>1
    <3> QED
      BY <3>1
  <2>4. i + 2 <= Len(str) + 1 <=> i \in from..(Len(str) - 1)
    BY <1>1, <2>1
  <2> QED
    BY <2>2, <2>3, <2>4
<1>3. \A i \in from..(Len(str) - 1) : i \in from..Len(str)
  BY <1>1
<1> QED
  BY <1>2, <1>3 DEF Occurrences

\* The id ends at the first space, and there is one after it or nothing.
Terminated(tail) == tail = << >> \/ tail[1] = Space

LEMMA IdIsRead ==
  ASSUME NEW id \in Strings, NEW tail \in Strings, Terminated(tail)
  PROVE  IdIn(id \o tail) = id <=> ~Contains(id, <<Space>>)
<1> DEFINE text == id \o tail
           spaces == Occurrences(<<Space>>, text, 1)
<1>1. Len(id) \in Nat /\ Len(tail) \in Nat
  BY LenProperties DEF Strings
<1>2. /\ text \in Strings /\ Len(text) = Len(id) + Len(tail)
      /\ \A i \in 1..Len(id) : text[i] = id[i]
      /\ \A i \in 1..Len(tail) : text[Len(id) + i] = tail[i]
  BY Concatenation
<1> HIDE DEF text
<1>3. spaces = {i \in 1..Len(text) : text[i] = Space}
  BY <1>2, OneSymbol, KeywordsAre
<1>4. Contains(id, <<Space>>) <=> \E i \in 1..Len(id) : id[i] = Space
  <2>1. Occurrences(<<Space>>, id, 1) = {i \in 1..Len(id) : id[i] = Space}
    BY OneSymbol, KeywordsAre
  <2> QED
    BY <2>1 DEF Contains
<1>5. spaces \in SUBSET Nat
  BY <1>2, OccurrencesAreNumbers
<1>6. IdIn(text) = IF spaces = {} THEN text ELSE SubSeq(text, 1, First(spaces) - 1)
  BY DEF IdIn, Before
<1> HIDE DEF spaces
<1>7. CASE Contains(id, <<Space>>)
  <2>1. PICK i \in 1..Len(id) : id[i] = Space
    BY <1>4, <1>7
  <2>2. i \in spaces
    <3>1. i \in 1..Len(text) /\ text[i] = Space
      BY <1>1, <1>2, <2>1
    <3> QED
      BY <1>3, <3>1
  <2> DEFINE f == First(spaces)
  <2>3. f \in spaces /\ f <= i
    BY <1>5, <2>2, FirstIsLeast
  <2>4. f \in Nat /\ f - 1 <= Len(text) /\ f - 1 \in Nat
    <3>1. f \in 1..Len(text) /\ Len(text) \in Nat
      BY <1>1, <1>2, <1>3, <2>3
    <3> HIDE DEF f
    <3> QED
      BY <3>1
  <2> HIDE DEF f
  <2>5. Len(SubSeq(text, 1, f - 1)) = f - 1
    <3>1. Len(SubSeq(text, 1, f - 1)) = IF 1 <= f - 1 THEN f - 1 - 1 + 1 ELSE 0
      BY <1>2, <2>4, SliceOf
    <3> QED
      BY <2>4, <3>1
  <2>6. IdIn(text) = SubSeq(text, 1, f - 1)
    BY <1>6, <2>2 DEF f
  <2>7. f - 1 # Len(id)
    BY <1>1, <2>3, <2>4
  <2> QED
    BY <1>7, <2>5, <2>6, <2>7 DEF text
<1>8. CASE ~Contains(id, <<Space>>) /\ tail = << >>
  <2>1. text = id
    BY <1>8, ConcatEmptySeq DEF text, Strings
  <2>2. spaces = {}
    BY <1>3, <1>4, <1>8, <2>1
  <2> QED
    BY <1>6, <1>8, <2>1, <2>2 DEF text
<1>9. CASE ~Contains(id, <<Space>>) /\ tail # << >>
  <2>1. tail[1] = Space /\ Len(tail) >= 1
    <3>1. Len(tail) \in Nat \ {0}
      BY <1>9, EmptySeq DEF Strings
    <3> QED
      BY <1>9, <3>1 DEF Terminated
  <2> DEFINE f == Len(id) + 1
  <2>2. f \in spaces
    <3>1. f \in 1..Len(text) /\ text[f] = tail[1]
      BY <1>1, <1>2, <2>1
    <3> QED
      BY <1>3, <2>1, <3>1
  <2>3. ASSUME NEW i \in spaces
        PROVE  f <= i
    <3>1. i \in 1..Len(text) /\ text[i] = Space
      BY <1>3
    <3>2. i \notin 1..Len(id)
      BY <1>2, <1>4, <1>9, <3>1
    <3>3. i \in Nat /\ i >= 1
      BY <1>1, <1>2, <3>1
    <3> QED
      BY <1>1, <3>2, <3>3
  <2>4. First(spaces) = f
    BY <1>5, <2>2, <2>3, FirstIs
  <2>5. /\ SubSeq(text, 1, Len(id)) \in Strings
        /\ Len(SubSeq(text, 1, Len(id))) = Len(id)
        /\ \A i \in 1..Len(id) : SubSeq(text, 1, Len(id))[i] = text[i]
    <3>1. Len(id) <= Len(text) /\ Len(id) - 1 + 1 = Len(id)
            /\ \A i \in 1..Len(id) : 1 + i - 1 = i
      BY <1>1, <1>2
    <3>2. /\ SubSeq(text, 1, Len(id)) \in Strings
          /\ Len(SubSeq(text, 1, Len(id))) = IF 1 <= Len(id) THEN Len(id) - 1 + 1 ELSE 0
          /\ \A i \in 1..(Len(id) - 1 + 1) :
               SubSeq(text, 1, Len(id))[i] = text[1 + i - 1]
      BY <1>1, <1>2, <3>1, SliceOf
    <3> QED
      BY <1>1, <3>1, <3>2
  <2>6. SubSeq(text, 1, Len(id)) = id
    BY <1>2, <2>5, EqualSymbolBySymbol
  <2>7. IdIn(text) = SubSeq(text, 1, Len(id))
    BY <1>1, <1>6, <2>2, <2>4
  <2> QED
    BY <1>9, <2>6, <2>7 DEF text
<1> QED
  BY <1>7, <1>8, <1>9

\* The side is what comes before the first slash.
LEMMA RestIsRead ==
  ASSUME NEW n, NEW rest \in Strings, NEW text \in Strings, NEW sd \in Side,
         Len(rest) = 2 + Len(text), rest[1] = sd, rest[2] = "/",
         \A i \in 1..Len(text) : rest[2 + i] = text[i]
  PROVE  ParseRest(n, rest) =
           IF n = << >> \/ IdIn(text) = << >> THEN Unmanaged
           ELSE [ns |-> n, side |-> sd, nmos_id |-> IdIn(text)]
<1> DEFINE slashes == Occurrences(<<"/">>, rest, 1)
<1>1. Len(text) \in Nat
  BY LenProperties DEF Strings
<1>2. slashes = {i \in 1..Len(rest) : rest[i] = "/"} /\ slashes \in SUBSET Nat
  BY OneSymbol, KeywordsAre, OccurrencesAreNumbers
<1> HIDE DEF slashes
<1>3. 2 \in slashes /\ \A i \in slashes : 2 <= i
  BY <1>1, <1>2 DEF Side
<1>4. First(slashes) = 2
  BY <1>2, <1>3, FirstIs
<1>5. Before(rest, 2) = <<sd>>
  <2>1. /\ SubSeq(rest, 1, 1) \in Strings
        /\ Len(SubSeq(rest, 1, 1)) = IF 1 <= 1 THEN 1 - 1 + 1 ELSE 0
        /\ \A i \in 1..(1 - 1 + 1) : SubSeq(rest, 1, 1)[i] = rest[1 + i - 1]
    BY <1>1, SliceOf
  <2>2. Len(SubSeq(rest, 1, 1)) = 1 /\ SubSeq(rest, 1, 1)[1] = sd
    BY <2>1
  <2>3. <<sd>> \in Strings /\ Len(<<sd>>) = 1 /\ <<sd>>[1] = sd
    BY KeywordsAre, OneSymbolString DEF Side
  <2>4. /\ Len(SubSeq(rest, 1, 1)) = Len(<<sd>>)
        /\ \A i \in 1..Len(SubSeq(rest, 1, 1)) : SubSeq(rest, 1, 1)[i] = <<sd>>[i]
    BY <2>2, <2>3
  <2>5. SubSeq(rest, 1, 1) = <<sd>>
    BY <2>1, <2>3, <2>4, EqualSymbolBySymbol, Zenon
  <2> QED
    BY <2>5 DEF Before
<1>6. After(rest, 3) = text
  <2> DEFINE after == After(rest, 3)
  <2>1. /\ after \in Strings
        /\ Len(after) = Len(rest) - 3 + 1
        /\ \A i \in 1..(Len(rest) - 3 + 1) : after[i] = rest[3 + i - 1]
    <3>1. 3 \in 1..(Len(rest) + 1)
      BY <1>1
    <3> QED
      BY <3>1, AfterOf
  <2> HIDE DEF after
  <2>2. Len(after) = Len(text)
    BY <1>1, <2>1
  <2>3. ASSUME NEW i \in 1..Len(after)
        PROVE  after[i] = text[i]
    <3>1. i \in 1..(Len(rest) - 3 + 1) /\ 3 + i - 1 = 2 + i /\ i \in 1..Len(text)
      BY <1>1, <2>2
    <3> QED
      BY <2>1, <3>1
  <2> QED
    BY <2>1, <2>2, <2>3, EqualSymbolBySymbol DEF after
<1>7. ParseRest(n, rest) =
        IF \/ slashes = {}
           \/ Before(rest, First(slashes)) \notin {<<s>> : s \in Side}
           \/ n = << >> \/ IdIn(After(rest, First(slashes) + 1)) = << >>
        THEN Unmanaged
        ELSE [ns |-> n, side |-> Before(rest, First(slashes))[1],
              nmos_id |-> IdIn(After(rest, First(slashes) + 1))]
  BY DEF ParseRest, slashes
<1>8. /\ slashes # {} /\ Before(rest, First(slashes)) = <<sd>>
      /\ After(rest, First(slashes) + 1) = text
  BY <1>3, <1>4, <1>5, <1>6
<1> QED
  BY <1>7, <1>8

-----------------------------------------------------------------------------
(***************************************************************************)
(* The namespace ends where managed_name ended it, unless it ends earlier. *)
(***************************************************************************)
LEMMA ContainsClose ==
  ASSUME NEW form \in Forms, NEW str \in Strings, NEW from \in Nat \ {0}
  PROVE  Occurrences(form.close, str, from) =
           {i \in from..(Len(str) - Len(form.close) + 1) :
              /\ str[i] = form.close[1]
              /\ Len(form.close) = 2 => str[i + 1] = "/"}
<1>1. Len(str) \in Nat
  BY LenProperties DEF Strings
<1>2. CASE form = StrippedForm
  <2>1. form.close = <<"/">> /\ Len(form.close) = 1 /\ form.close[1] = "/"
    BY <1>2 DEF StrippedForm
  <2>2. Occurrences(<<"/">>, str, from) = {i \in from..Len(str) : str[i] = "/"}
    BY KeywordsAre, OneSymbol
  <2>3. Len(str) - 1 + 1 = Len(str)
    BY <1>1
  <2> QED
    BY <2>1, <2>2, <2>3
<1>3. ASSUME NEW c \in Symbols, form.close = <<c, "/">>
      PROVE  Occurrences(form.close, str, from) =
               {i \in from..(Len(str) - Len(form.close) + 1) :
                  /\ str[i] = form.close[1]
                  /\ Len(form.close) = 2 => str[i + 1] = "/"}
  <2>1. Len(form.close) = 2 /\ form.close[1] = c
    BY <1>3
  <2>2. Occurrences(<<c, "/">>, str, from)
          = {i \in from..(Len(str) - 1) : str[i] = c /\ str[i + 1] = "/"}
    BY KeywordsAre, TwoSymbols
  <2>3. Len(str) - 2 + 1 = Len(str) - 1
    BY <1>1
  <2> QED
    BY <1>3, <2>1, <2>2, <2>3
<1>4. CASE form = CurrentForm
  BY <1>3, <1>4, KeywordsAre DEF CurrentForm
<1>5. CASE form = LegacyForm
  BY <1>3, <1>5, KeywordsAre DEF LegacyForm
<1> QED
  BY <1>2, <1>4, <1>5 DEF Forms

EndsRight(form, n, str) ==
  LET ends == Occurrences(form.close, str, Len(form.open) + 1)
      end == Len(form.open) + Len(n) + 1
  IN /\ end \in ends
     /\ Contains(n, form.close) => \E i \in ends : i < end
     /\ ~Contains(n, form.close) => \A i \in ends : end <= i

LEMMA NamespaceEnds ==
  ASSUME NEW form \in Forms, NEW n \in Strings, NEW sd, NEW id \in Strings,
         NEW tail \in Strings, NEW str \in Strings,
         LaidOut(str, form.open, n, form.close, sd, id, tail)
  PROVE  EndsRight(form, n, str)
<1> DEFINE o == Len(form.open)
           c == Len(form.close)
           m == Len(n)
           close == form.close
           ends == Occurrences(form.close, str, o + 1)
           end == o + m + 1
<1>1. /\ o \in {1, 2} /\ c \in {1, 2} /\ m \in Nat
      /\ Len(id) \in Nat /\ Len(tail) \in Nat /\ close[c] = "/"
      /\ c = 2 => close[1] # "/"
  BY FormsAre, LenProperties DEF Strings
<1>2. ends = {i \in (o + 1)..(Len(str) - c + 1) :
                str[i] = close[1] /\ (c = 2 => str[i + 1] = "/")}
  <2>1. o + 1 \in Nat \ {0}
    BY <1>1
  <2> HIDE DEF o
  <2> QED
    BY <2>1, ContainsClose, Zenon
<1>3. Contains(n, close) <=>
        \E i \in 1..(m - c + 1) : n[i] = close[1] /\ (c = 2 => n[i + 1] = "/")
  <2>1. Occurrences(form.close, n, 1) =
          {i \in 1..(m - c + 1) : n[i] = close[1] /\ (c = 2 => n[i + 1] = "/")}
    <3>1. 1 \in Nat \ {0}
      OBVIOUS
    <3> QED
      BY <3>1, ContainsClose, Zenon
  <2> QED
    BY <2>1 DEF Contains
<1>4. /\ Len(str) = o + m + c + 2 + Len(id) + Len(tail)
      /\ \A i \in 1..m : str[o + i] = n[i]
      /\ \A i \in 1..c : str[o + m + i] = close[i]
  BY DEF LaidOut
<1> HIDE DEF o, c, m, close, ends
<1>5. end \in ends
  <2>1. end \in (o + 1)..(Len(str) - c + 1)
    BY <1>1, <1>4
  <2>2. str[end] = close[1]
    BY <1>1, <1>4
  <2>3. c = 2 => str[end + 1] = "/"
    <3>1. c = 2 => end + 1 = o + m + 2 /\ 2 \in 1..c
      BY <1>1
    <3> QED
      BY <1>1, <1>4, <3>1
  <2> QED
    BY <1>2, <2>1, <2>2, <2>3
<1>6. ASSUME Contains(n, close)
      PROVE  \E i \in ends : i < end
  <2>1. PICK i \in 1..(m - c + 1) : n[i] = close[1] /\ (c = 2 => n[i + 1] = "/")
    BY <1>3, <1>6
  <2>2. /\ o + i \in (o + 1)..(Len(str) - c + 1) /\ o + i < end /\ i \in 1..m
        /\ c = 2 => i + 1 \in 1..m /\ o + i + 1 = o + (i + 1)
    BY <1>1, <1>4
  <2>3. str[o + i] = close[1] /\ (c = 2 => str[o + i + 1] = "/")
    BY <1>4, <2>1, <2>2
  <2> QED
    BY <1>2, <2>2, <2>3
<1>7. ASSUME ~Contains(n, close), NEW i \in ends
      PROVE  end <= i
  <2> SUFFICES ASSUME i < end PROVE FALSE
    BY <1>1, <1>2, <1>4
  <2> DEFINE j == i - o
  <2>1. /\ j \in 1..m /\ o + j = i
        /\ str[i] = close[1] /\ (c = 2 => str[i + 1] = "/")
    BY <1>1, <1>2, <1>4
  <2>2. n[j] = close[1]
    BY <1>4, <2>1
  <2>3. CASE c = 1
    <3>1. j \in 1..(m - c + 1)
      BY <1>1, <2>1, <2>3
    <3> QED
      BY <1>3, <1>7, <2>2, <2>3, <3>1
  <2>4. CASE c = 2 /\ j < m
    <3>1. j + 1 \in 1..m /\ o + (j + 1) = i + 1 /\ j \in 1..(m - c + 1)
      BY <1>1, <2>1, <2>4
    <3>2. n[j + 1] = "/"
      BY <1>4, <2>1, <2>4, <3>1
    <3> QED
      BY <1>3, <1>7, <2>2, <3>1, <3>2
  <2>5. CASE c = 2 /\ j = m
    <3>1. i + 1 = o + m + 1 /\ 1 \in 1..c
      BY <1>1, <2>1, <2>5
    <3>2. str[i + 1] = close[1]
      BY <1>4, <3>1
    <3> QED
      BY <1>1, <2>1, <2>5, <3>2
  <2> QED
    BY <1>1, <2>1, <2>3, <2>4, <2>5
<1> QED
  BY <1>5, <1>6, <1>7 DEF EndsRight, o, m, c, close, ends

-----------------------------------------------------------------------------
(***************************************************************************)
(* What a name written in one of the forms is read as.                     *)
(***************************************************************************)
Owner(n, sd, id) == [ns |-> n, side |-> sd, nmos_id |-> id]

LEMMA OwnerIsManaged ==
  ASSUME NEW n \in Strings, NEW sd \in Side, NEW id \in Strings
  PROVE  Owner(n, sd, id) # Unmanaged
BY SymbolsAssumption DEF Owner, Strings

LEMMA NamespaceOfRest ==
  ASSUME NEW n, NEW rest
  PROVE  ParseRest(n, rest) = Unmanaged \/ ParseRest(n, rest).ns = n
BY DEF ParseRest

LEMMA StartsWithOpen ==
  ASSUME NEW form \in Forms, NEW str \in Strings,
         Len(form.open) <= Len(str), \A i \in 1..Len(form.open) : str[i] = form.open[i]
  PROVE  StartsWith(str, form.open)
<1>1. form.open \in Strings /\ Len(form.open) \in Nat /\ Len(str) \in Nat
  BY FormsAre, LenProperties DEF Strings
<1>2. 1 + Len(form.open) <= Len(str) + 1
        /\ \A j \in 1..Len(form.open) : 1 + j - 1 = j
  BY <1>1
<1>3. \A j \in 1..Len(form.open) : str[1 + j - 1] = form.open[j]
  BY <1>2
<1>4. 1 \in Nat \ {0}
  OBVIOUS
<1> QED
  BY <1>1, <1>2, <1>3, <1>4, OccurrencePointwise, Zenon DEF StartsWith

LEMMA ParseSplits ==
  ASSUME NEW str, NEW form, FormOf(str) = form, StartsWith(str, form.open),
         Occurrences(form.close, str, Len(form.open) + 1) # {}
  PROVE  LET end == First(Occurrences(form.close, str, Len(form.open) + 1))
         IN parse_managed_name(str) =
              ParseRest(SubSeq(str, Len(form.open) + 1, end - 1),
                        After(str, end + Len(form.close)))
BY DEF parse_managed_name

ReadsBack(str, form, n, sd, id) ==
  parse_managed_name(str) = Owner(n, sd, id) <=>
    /\ n # << >> /\ ~Contains(n, form.close)
    /\ id # << >> /\ ~Contains(id, <<Space>>)

LEMMA ReadBack ==
  ASSUME NEW form \in Forms, NEW n \in Strings, NEW sd \in Side, NEW id \in Strings,
         NEW tail \in Strings, Terminated(tail),
         FormOf(Marked(form, n, sd, id) \o tail) = form
  PROVE  ReadsBack(Marked(form, n, sd, id) \o tail, form, n, sd, id)
<1> SUFFICES ASSUME NEW str, str = Marked(form, n, sd, id) \o tail, FormOf(str) = form
             PROVE  parse_managed_name(str) = Owner(n, sd, id) <=>
                      /\ n # << >> /\ ~Contains(n, form.close)
                      /\ id # << >> /\ ~Contains(id, <<Space>>)
  BY DEF ReadsBack
<1> DEFINE o == Len(form.open)
           c == Len(form.close)
           m == Len(n)
           p == o + m + 1
           ends == Occurrences(form.close, str, o + 1)
           end == First(ends)
           parsed == SubSeq(str, o + 1, end - 1)
           rest == After(str, end + c)
<1>1. str \in Strings /\ LaidOut(str, form.open, n, form.close, sd, id, tail)
  BY Layout
<1>2. /\ o \in {1, 2} /\ c \in {1, 2} /\ m \in Nat /\ Len(str) \in Nat
      /\ Len(id) \in Nat /\ Len(tail) \in Nat
  BY <1>1, FormsAre, LenProperties DEF Strings
<1>3. /\ Len(str) = o + m + c + 2 + Len(id) + Len(tail)
      /\ \A i \in 1..o : str[i] = form.open[i]
      /\ \A i \in 1..m : str[o + i] = n[i]
      /\ str[o + m + c + 1] = sd /\ str[o + m + c + 2] = "/"
      /\ \A i \in 1..Len(id) : str[o + m + c + 2 + i] = id[i]
      /\ \A i \in 1..Len(tail) : str[o + m + c + 2 + Len(id) + i] = tail[i]
  BY <1>1 DEF LaidOut
<1>4. StartsWith(str, form.open)
  <2>1. o <= Len(str)
    <3> HIDE DEF o, c, m
    <3> QED
      BY <1>2, <1>3
  <2> QED
    BY <1>1, <1>3, <2>1, StartsWithOpen
<1>5. /\ p \in ends
      /\ Contains(n, form.close) => \E i \in ends : i < p
      /\ ~Contains(n, form.close) => \A i \in ends : p <= i
  <2>1. EndsRight(form, n, str)
    BY <1>1, NamespaceEnds
  <2> QED
    BY <2>1 DEF EndsRight
<1>6. parse_managed_name(str) = ParseRest(parsed, rest)
  BY <1>4, <1>5, ParseSplits
<1>7. ends \in SUBSET Nat /\ \A i \in ends : o + 1 <= i /\ i <= Len(str)
  <2>1. ends \subseteq (o + 1)..Len(str)
    BY DEF Occurrences
  <2> HIDE DEF ends
  <2> QED
    BY <1>2, <2>1
<1> HIDE DEF o, c, m, ends
<1>8. end \in ends /\ end \in Nat /\ \A i \in ends : end <= i
  BY <1>5, <1>7, FirstIsLeast
<1> HIDE DEF end
<1>9. /\ parsed \in Strings
      /\ Len(parsed) = end - 1 - o
      /\ \A i \in 1..(end - 1 - o) : parsed[i] = str[o + i]
  <2>1. o + 1 \in Nat \ {0} /\ end - 1 \in Int /\ end - 1 <= Len(str) /\ o + 1 <= end
    BY <1>2, <1>7, <1>8
  <2>2. /\ parsed \in Strings
        /\ Len(parsed) = IF o + 1 <= end - 1 THEN end - 1 - (o + 1) + 1 ELSE 0
        /\ \A i \in 1..(end - 1 - (o + 1) + 1) : parsed[i] = str[o + 1 + i - 1]
    BY <1>1, <2>1, SliceOf
  <2>3. \A i \in 1..(end - 1 - o) : i \in 1..(end - 1 - (o + 1) + 1) /\ o + 1 + i - 1 = o + i
    BY <1>2, <1>8
  <2> HIDE DEF parsed
  <2>4. Len(parsed) = end - 1 - o
    BY <1>2, <1>8, <2>1, <2>2
  <2> QED
    BY <2>2, <2>3, <2>4
<1> HIDE DEF parsed
<1>10. CASE Contains(n, form.close)
  <2>1. end < p
    BY <1>2, <1>5, <1>8, <1>7, <1>10
  <2>2. Len(parsed) # m
    BY <1>2, <1>8, <1>9, <2>1
  <2>3. parsed # n
    BY <2>2 DEF m
  <2>4. Owner(n, sd, id).ns = n /\ Owner(n, sd, id) # Unmanaged
    BY OwnerIsManaged DEF Owner
  <2>5. ParseRest(parsed, rest) = Unmanaged \/ ParseRest(parsed, rest).ns = parsed
    BY NamespaceOfRest
  <2> QED
    BY <1>6, <1>10, <2>3, <2>4, <2>5
<1>11. CASE ~Contains(n, form.close)
  <2>1. end = p
    BY <1>2, <1>5, <1>8, <1>11
  <2>2. parsed = n
    <3>1. Len(parsed) = Len(n) /\ end - 1 - o = m
      BY <1>2, <1>9, <2>1 DEF m
    <3>2. \A i \in 1..Len(parsed) : parsed[i] = n[i]
      BY <1>3, <1>9, <3>1 DEF m
    <3> QED
      BY <1>9, <3>1, <3>2, EqualSymbolBySymbol
  <2> DEFINE text == id \o tail
  <2>3. /\ text \in Strings /\ Len(text) = Len(id) + Len(tail)
        /\ \A i \in 1..Len(id) : text[i] = id[i]
        /\ \A i \in 1..Len(tail) : text[Len(id) + i] = tail[i]
    BY Concatenation
  <2> HIDE DEF text
  <2>4. /\ rest \in Strings
        /\ Len(rest) = 2 + Len(text)
        /\ \A i \in 1..(2 + Len(text)) : rest[i] = str[o + m + c + i]
    <3> DEFINE from == end + c
    <3>1. from \in 1..Len(str) /\ Len(str) - from + 1 = 2 + Len(text)
      BY <1>2, <1>3, <2>1, <2>3
    <3> HIDE DEF from
    <3>2. /\ After(str, from) \in Strings
          /\ Len(After(str, from)) = Len(str) - from + 1
          /\ \A i \in 1..(Len(str) - from + 1) : After(str, from)[i] = str[from + i - 1]
      <4>1. from \in 1..(Len(str) + 1)
        BY <1>2, <3>1
      <4> QED
        BY <1>1, <4>1, AfterOf
    <3>3. \A i \in 1..(2 + Len(text)) : from + i - 1 = o + m + c + i
      BY <1>2, <2>1, <2>3 DEF from
    <3>4. rest = After(str, from)
      BY DEF from
    <3> HIDE DEF rest
    <3> QED
      BY <3>1, <3>2, <3>3, <3>4
  <2> HIDE DEF rest
  <2>5. rest[1] = sd /\ rest[2] = "/"
    <3>1. 1 \in 1..(2 + Len(text)) /\ 2 \in 1..(2 + Len(text))
      BY <1>2, <2>3
    <3> QED
      BY <1>3, <2>4, <3>1
  <2>6. ASSUME NEW i \in 1..Len(text)
        PROVE  rest[2 + i] = text[i]
    <3>1. rest[2 + i] = str[o + m + c + 2 + i]
      <4>1. 2 + i \in 1..(2 + Len(text)) /\ o + m + c + (2 + i) = o + m + c + 2 + i
        BY <1>2, <2>3
      <4> QED
        BY <2>4, <4>1
    <3>2. CASE i \in 1..Len(id)
      BY <1>3, <2>3, <3>1, <3>2
    <3>3. CASE i \notin 1..Len(id)
      <4> DEFINE j == i - Len(id)
      <4>1. j \in 1..Len(tail) /\ Len(id) + j = i
              /\ o + m + c + 2 + Len(id) + j = o + m + c + 2 + i
        BY <1>2, <2>3, <3>3
      <4> HIDE DEF j
      <4>2. str[o + m + c + 2 + Len(id) + j] = tail[j] /\ text[Len(id) + j] = tail[j]
        BY <1>3, <2>3, <4>1
      <4> QED
        BY <3>1, <4>1, <4>2
    <3> QED
      BY <3>2, <3>3
  <2>7. ParseRest(n, rest) = IF n = << >> \/ IdIn(text) = << >> THEN Unmanaged
                             ELSE Owner(n, sd, IdIn(text))
    BY <2>3, <2>4, <2>5, <2>6, RestIsRead DEF Owner
  <2>8. IdIn(text) = id <=> ~Contains(id, <<Space>>)
    BY IdIsRead DEF text
  <2>9. Owner(n, sd, id) # Unmanaged
    BY OwnerIsManaged
  <2>10. Owner(n, sd, IdIn(text)) = Owner(n, sd, id) <=> IdIn(text) = id
    BY DEF Owner
  <2> QED
    BY <1>6, <1>11, <2>2, <2>7, <2>8, <2>9, <2>10
<1> QED
  BY <1>10, <1>11

-----------------------------------------------------------------------------
(***************************************************************************)
(* Round trips                                                             *)
(***************************************************************************)
Suffix(lbl) == IF lbl = << >> THEN << >> ELSE <<Space>> \o lbl

LEMMA SuffixTerminates ==
  ASSUME NEW lbl \in Strings
  PROVE  Suffix(lbl) \in Strings /\ Terminated(Suffix(lbl))
<1>1. CASE lbl = << >>
  BY <1>1, EmptyString DEF Suffix, Terminated
<1>2. CASE lbl # << >>
  <2>1. <<Space>> \in Strings /\ Len(<<Space>>) = 1 /\ <<Space>>[1] = Space
    BY KeywordsAre, OneSymbolString
  <2> DEFINE space == <<Space>>
  <2> HIDE DEF space
  <2>2. space \in Strings /\ Len(space) = 1 /\ space[1] = Space
    BY <2>1 DEF space
  <2>3. space \o lbl \in Strings /\ \A i \in 1..Len(space) : (space \o lbl)[i] = space[i]
    BY <2>2, Concatenation
  <2>4. (space \o lbl)[1] = Space
    BY <2>2, <2>3
  <2>5. Suffix(lbl) = space \o lbl
    BY <1>2 DEF Suffix, space
  <2> QED
    BY <2>3, <2>4, <2>5 DEF Terminated
<1> QED
  BY <1>1, <1>2

\* The second symbol tells the spellings apart.
LEMMA FormBySecondSymbol ==
  ASSUME NEW str \in Strings, Len(str) >= 2, str[1] = "NMOS"
  PROVE  FormOf(str) = IF str[2] = "(" THEN CurrentForm
                       ELSE IF str[2] = "[" THEN LegacyForm ELSE StrippedForm
<1>1. ASSUME NEW c \in {"(", "["}
      PROVE  StartsWith(str, <<"NMOS", c>>) <=> str[2] = c
  <2>1. /\ <<"NMOS", c>> \in Strings /\ Len(<<"NMOS", c>>) = 2
        /\ <<"NMOS", c>>[1] = "NMOS" /\ <<"NMOS", c>>[2] = c
    BY KeywordsAre, TwoSymbolString
  <2> DEFINE open == <<"NMOS", c>>
  <2> HIDE DEF open
  <2>2. open \in Strings /\ Len(open) = 2 /\ open[1] = "NMOS" /\ open[2] = c
    BY <2>1 DEF open
  <2>3. 1 \in Nat \ {0} /\ Len(str) \in Nat
    BY LenProperties DEF Strings
  <2>4. OccursAt(open, str, 1) <=>
          /\ 1 + Len(open) <= Len(str) + 1
          /\ \A j \in 1..Len(open) : str[1 + j - 1] = open[j]
    BY <2>2, <2>3, OccurrencePointwise
  <2>5. 1 + Len(open) <= Len(str) + 1
    BY <2>2, <2>3
  <2>6. (\A j \in 1..Len(open) : str[1 + j - 1] = open[j]) <=> str[2] = c
    <3>1. 1..Len(open) = {1, 2} /\ 1 + 1 - 1 = 1 /\ 1 + 2 - 1 = 2
      BY <2>2
    <3> QED
      BY <2>2, <3>1
  <2>7. OccursAt(open, str, 1) <=> str[2] = c
    BY <2>4, <2>5, <2>6
  <2> QED
    BY <2>7 DEF StartsWith, open
<1>2. CurrentForm.open = <<"NMOS", "(">> /\ LegacyForm.open = <<"NMOS", "[">>
  BY DEF CurrentForm, LegacyForm
<1>3. StartsWith(str, CurrentForm.open) <=> str[2] = "("
  BY <1>1, <1>2
<1>4. StartsWith(str, LegacyForm.open) <=> str[2] = "["
  BY <1>1, <1>2
<1> QED
  BY <1>3, <1>4 DEF FormOf

LEMMA BracketedForm ==
  ASSUME NEW form \in {CurrentForm, LegacyForm}, NEW n \in Strings, NEW sd \in Side,
         NEW id \in Strings, NEW tail \in Strings
  PROVE  FormOf(Marked(form, n, sd, id) \o tail) = form
<1> DEFINE str == Marked(form, n, sd, id) \o tail
<1>1. str \in Strings /\ LaidOut(str, form.open, n, form.close, sd, id, tail)
  BY Layout DEF Forms
<1> HIDE DEF str
<1>2. /\ Len(form.open) = 2 /\ form.open[1] = "NMOS"
      /\ form.open[2] = IF form = CurrentForm THEN "(" ELSE "["
  BY DEF CurrentForm, LegacyForm
<1>3. /\ Len(n) \in Nat /\ Len(form.close) \in Nat /\ Len(id) \in Nat /\ Len(tail) \in Nat
  BY FormsAre, LenProperties DEF Strings, Forms
<1>4. /\ Len(str) = Len(form.open) + Len(n) + Len(form.close) + 2 + Len(id) + Len(tail)
      /\ \A i \in 1..Len(form.open) : str[i] = form.open[i]
  BY <1>1 DEF LaidOut
<1>5. Len(str) >= 2 /\ str[1] = form.open[1] /\ str[2] = form.open[2]
  <2>1. 1 \in 1..Len(form.open) /\ 2 \in 1..Len(form.open)
    BY <1>2
  <2>2. Len(str) >= 2
    <3> DEFINE a == Len(n)
               b == Len(form.close)
    <3>1. Len(form.open) = 2 /\ a \in Nat /\ b \in Nat
            /\ Len(str) = Len(form.open) + a + b + 2 + Len(id) + Len(tail)
      BY <1>2, <1>3, <1>4
    <3> HIDE DEF a, b
    <3> QED
      BY <1>3, <3>1
  <2> QED
    BY <1>4, <2>1, <2>2
<1>6. FormOf(str) = IF str[2] = "(" THEN CurrentForm
                    ELSE IF str[2] = "[" THEN LegacyForm ELSE StrippedForm
  BY <1>1, <1>2, <1>5, FormBySecondSymbol
<1> QED
  BY <1>2, <1>5, <1>6 DEF str

(***************************************************************************)
(* For strings of any length: parse_managed_name reads back what           *)
(* managed_name wrote exactly when namespace and id are plain, whatever    *)
(* the label.                                                              *)
(***************************************************************************)
THEOREM MarkerRoundTrip ==
  ASSUME NEW n \in Strings, NEW sd \in Side, NEW id \in Strings, NEW lbl \in Strings
  PROVE  RoundTrips(n, sd, id, lbl) <=> Plain(n, id)
<1> DEFINE str == managed_name(n, sd, id, lbl)
<1>1. str = Marked(CurrentForm, n, sd, id) \o Suffix(lbl)
  BY DEF managed_name, Suffix
<1>2. Suffix(lbl) \in Strings /\ Terminated(Suffix(lbl))
  BY SuffixTerminates
<1>3. FormOf(str) = CurrentForm
  BY <1>1, <1>2, BracketedForm
<1> HIDE DEF str
<1>4. parse_managed_name(str) = Owner(n, sd, id) <=>
        /\ n # << >> /\ ~Contains(n, CurrentForm.close)
        /\ id # << >> /\ ~Contains(id, <<Space>>)
  <2>1. CurrentForm \in Forms
    BY DEF Forms
  <2> DEFINE tail == Suffix(lbl)
  <2> HIDE DEF tail
  <2>2. tail \in Strings /\ Terminated(tail) /\ str = Marked(CurrentForm, n, sd, id) \o tail
    BY <1>1, <1>2 DEF tail
  <2>3. ReadsBack(str, CurrentForm, n, sd, id)
    BY <1>3, <2>1, <2>2, ReadBack
  <2> QED
    BY <2>3 DEF ReadsBack
<1>5. CurrentForm.close = <<")", "/">>
  BY DEF CurrentForm
<1> QED
  BY <1>4, <1>5 DEF RoundTrips, Plain, Owner, str

\* So is the older spelling, with a bracket of its own.
LEMMA LegacyRoundTrip ==
  ASSUME NEW n \in Strings, NEW sd \in Side, NEW id \in Strings, NEW lbl \in Strings,
         Plain(n, id), ~Contains(n, <<"]", "/">>)
  PROVE  parse_managed_name(Marked(LegacyForm, n, sd, id) \o Suffix(lbl)) = Owner(n, sd, id)
<1> DEFINE str == Marked(LegacyForm, n, sd, id) \o Suffix(lbl)
<1>1. Suffix(lbl) \in Strings /\ Terminated(Suffix(lbl))
  BY SuffixTerminates
<1>2. FormOf(str) = LegacyForm
  BY <1>1, BracketedForm
<1> HIDE DEF str
<1>3. parse_managed_name(str) = Owner(n, sd, id) <=>
        /\ n # << >> /\ ~Contains(n, LegacyForm.close)
        /\ id # << >> /\ ~Contains(id, <<Space>>)
  <2>1. LegacyForm \in Forms
    BY DEF Forms
  <2> DEFINE tail == Suffix(lbl)
  <2> HIDE DEF tail
  <2>2. tail \in Strings /\ Terminated(tail) /\ str = Marked(LegacyForm, n, sd, id) \o tail
    BY <1>1 DEF tail, str
  <2>3. ReadsBack(str, LegacyForm, n, sd, id)
    BY <1>2, <2>1, <2>2, ReadBack
  <2> QED
    BY <2>3 DEF ReadsBack
<1>4. LegacyForm.close = <<"]", "/">>
  BY DEF LegacyForm
<1> QED
  BY <1>3, <1>4 DEF Plain, str

-----------------------------------------------------------------------------
(***************************************************************************)
(* The instance of TLC, without its bounds.                                *)
(***************************************************************************)
Typed ==
  /\ ns \in Strings /\ nmos_id \in Strings /\ label \in Strings /\ name \in Strings

LEMMA SymbolAppended ==
  ASSUME NEW str \in Strings, NEW ch \in Symbols
  PROVE  Append(str, ch) \in Strings /\ <<ch>> \in Strings
BY DEF Strings

THEOREM StringsAreTyped == Spec => []Typed
<1>1. Init => Typed
  <2> SUFFICES ASSUME Init PROVE Typed
    OBVIOUS
  <2>1. <<"NMOS">> \in Strings /\ <<"NMOS", "(">> \in Strings /\ <<"NMOS", "[">> \in Strings
    BY KeywordsAre, OneSymbolString, TwoSymbolString
  <2> QED
    BY <2>1, EmptyString DEF Init, Prefixes, Typed
<1>2. Typed /\ [Next]_vars => Typed'
  <2> SUFFICES ASSUME Typed, [Next]_vars PROVE Typed'
    OBVIOUS
  <2>1. ASSUME NEW ch \in NsSymbols, ExtendNs(ch) PROVE Typed'
    BY <2>1, SymbolAppended, InputSymbolsAssumption DEF Typed, ExtendNs
  <2>2. ASSUME NEW ch \in IdSymbols, ExtendId(ch) PROVE Typed'
    BY <2>2, SymbolAppended, InputSymbolsAssumption DEF Typed, ExtendId
  <2>3. ASSUME NEW ch \in LabelSymbols, WriteLabel(ch) PROVE Typed'
    BY <2>3, SymbolAppended, InputSymbolsAssumption DEF Typed, WriteLabel
  <2>4. ASSUME NEW ch \in NameSymbols, ExtendName(ch) PROVE Typed'
    BY <2>4, SymbolAppended, InputSymbolsAssumption DEF Typed, ExtendName
  <2>5. CASE UNCHANGED vars
    BY <2>5 DEF Typed, vars
  <2> QED
    BY <2>1, <2>2, <2>3, <2>4, <2>5 DEF Next
<1> QED
  BY <1>1, <1>2, PTL DEF Spec

(***************************************************************************)
(* The marker survives the round trip exactly when namespace and id are    *)
(* plain (managed_name, parse_managed_name), for names of every length.    *)
(***************************************************************************)
THEOREM PlainNamesAreReadBack == Spec => []PlainNamesRoundTrip
<1>1. Typed => PlainNamesRoundTrip
  BY MarkerRoundTrip DEF Typed, PlainNamesRoundTrip
<1> QED
  BY <1>1, StringsAreTyped, PTL

-----------------------------------------------------------------------------
(***************************************************************************)
(* What is read as an ownership spells it.                                 *)
(***************************************************************************)
LEMMA MarkerLayout ==
  ASSUME NEW form \in Forms, NEW n \in Strings, NEW sd \in Side, NEW id \in Strings
  PROVE  /\ Marked(form, n, sd, id) \in Strings
         /\ LaidOut(Marked(form, n, sd, id), form.open, n, form.close, sd, id, << >>)
<1> DEFINE slash == <<sd, "/">>
<1>1. form.open \in Strings /\ form.close \in Strings /\ slash \in Strings
  BY FormsAre, KeywordsAre, TwoSymbolString DEF Side
<1>2. Marked(form, n, sd, id) = form.open \o n \o form.close \o slash \o id
  BY DEF Marked
<1> HIDE DEF slash
<1>3. Marked(form, n, sd, id) \in Strings
  <2>1. form.open \o n \in Strings
    BY <1>1, Concatenation
  <2>2. form.open \o n \o form.close \in Strings
    BY <1>1, <2>1, Concatenation
  <2>3. form.open \o n \o form.close \o slash \in Strings
    BY <1>1, <2>2, Concatenation
  <2> QED
    BY <1>2, <2>3, Concatenation
<1>4. Marked(form, n, sd, id) \o << >> = Marked(form, n, sd, id)
  BY <1>3, ConcatEmptySeq DEF Strings
<1>5. LaidOut(Marked(form, n, sd, id) \o << >>, form.open, n, form.close, sd, id, << >>)
  BY EmptyString, Layout
<1> QED
  BY <1>3, <1>4, <1>5

LEMMA IdInText ==
  ASSUME NEW text \in Strings
  PROVE  LET id == IdIn(text)
         IN /\ id \in Strings /\ Len(id) <= Len(text)
            /\ \A i \in 1..Len(id) : id[i] = text[i]
            /\ Len(id) < Len(text) => text[Len(id) + 1] = Space
<1> DEFINE spaces == Occurrences(<<Space>>, text, 1)
           f == First(spaces)
<1>1. Len(text) \in Nat
  BY LenProperties DEF Strings
<1>2. spaces = {i \in 1..Len(text) : text[i] = Space} /\ spaces \in SUBSET Nat
  BY OneSymbol, KeywordsAre, OccurrencesAreNumbers
<1>3. IdIn(text) = IF spaces = {} THEN text ELSE SubSeq(text, 1, f - 1)
  BY DEF IdIn, Before
<1> HIDE DEF spaces
<1>4. CASE spaces = {}
  BY <1>1, <1>3, <1>4
<1>5. CASE spaces # {}
  <2>1. f \in spaces
    BY <1>2, <1>5, FirstIsLeast
  <2>2. f \in 1..Len(text) /\ text[f] = Space
    BY <1>2, <2>1
  <2> HIDE DEF f
  <2>3. f - 1 \in Int /\ f - 1 <= Len(text) /\ 1 \in Nat \ {0}
    BY <1>1, <2>2
  <2> DEFINE to == f - 1
             id == SubSeq(text, 1, to)
  <2> HIDE DEF to
  <2>4. to \in Int /\ to <= Len(text) /\ to = f - 1
    BY <2>3 DEF to
  <2>5. /\ id \in Strings
        /\ Len(id) = IF 1 <= to THEN to - 1 + 1 ELSE 0
        /\ \A i \in 1..(to - 1 + 1) : id[i] = text[1 + i - 1]
    BY <2>3, <2>4, SliceOf
  <2>6. IdIn(text) = id
    BY <1>3, <1>5 DEF to
  <2> HIDE DEF id
  <2>7. Len(id) = f - 1 /\ Len(id) <= Len(text) /\ Len(id) + 1 = f
    BY <1>1, <2>2, <2>4, <2>5
  <2>8. \A i \in 1..Len(id) : i \in 1..(to - 1 + 1) /\ 1 + i - 1 = i
    BY <2>2, <2>4, <2>7, <1>1
  <2> QED
    BY <2>2, <2>5, <2>6, <2>7, <2>8
<1> QED
  BY <1>4, <1>5

\* The converse of RestIsRead.
LEMMA RestSpellsOwner ==
  ASSUME NEW n, NEW rest \in Strings, ParseRest(n, rest) # Unmanaged
  PROVE  LET o == ParseRest(n, rest)
         IN /\ Len(rest) >= 2 /\ o.side \in Side /\ rest[1] = o.side /\ rest[2] = "/"
            /\ o = Owner(n, o.side, IdIn(After(rest, 3)))
            /\ n # << >> /\ o.nmos_id # << >>
<1> DEFINE slashes == Occurrences(<<"/">>, rest, 1)
           f == First(slashes)
           before == SubSeq(rest, 1, f - 1)
<1>1. Len(rest) \in Nat
  BY LenProperties DEF Strings
<1>2. slashes = {i \in 1..Len(rest) : rest[i] = "/"} /\ slashes \in SUBSET Nat
  BY OneSymbol, KeywordsAre, OccurrencesAreNumbers
<1>3. /\ slashes # {}
      /\ before \in {<<sd>> : sd \in Side}
      /\ n # << >> /\ IdIn(After(rest, f + 1)) # << >>
      /\ ParseRest(n, rest)
           = [ns |-> n, side |-> before[1], nmos_id |-> IdIn(After(rest, f + 1))]
  BY DEF ParseRest, Before
<1> HIDE DEF slashes
<1>4. f \in slashes
  BY <1>2, <1>3, FirstIsLeast
<1>5. f \in 1..Len(rest) /\ rest[f] = "/"
  BY <1>2, <1>4
<1>6. PICK sd \in Side : before = <<sd>>
  BY <1>3
<1>7. Len(before) = 1 /\ before[1] = sd
  <2> HIDE DEF before
  <2>1. before = <<sd>>
    BY <1>6
  <2>2. Len(<<sd>>) = 1 /\ <<sd>>[1] = sd
    BY KeywordsAre, OneSymbolString DEF Side
  <2> QED
    BY <2>1, <2>2
<1> HIDE DEF f
<1>8. f = 2 /\ rest[1] = sd
  <2> DEFINE to == f - 1
  <2>1. to \in Int /\ to <= Len(rest) /\ 1 \in Nat \ {0} /\ before = SubSeq(rest, 1, to)
    BY <1>1, <1>5
  <2> HIDE DEF before, to
  <2>2. /\ Len(before) = IF 1 <= to THEN to - 1 + 1 ELSE 0
        /\ \A i \in 1..(to - 1 + 1) : before[i] = rest[1 + i - 1]
    BY <2>1, SliceOf
  <2>3. to = 1
    BY <1>7, <2>1, <2>2
  <2>4. before[1] = rest[1]
    BY <2>2, <2>3
  <2> QED
    BY <1>5, <1>7, <2>3, <2>4 DEF to
<1>9. ParseRest(n, rest) = Owner(n, sd, IdIn(After(rest, 3)))
  BY <1>3, <1>7, <1>8 DEF Owner
<1>10. /\ ParseRest(n, rest).side = sd
       /\ ParseRest(n, rest).nmos_id = IdIn(After(rest, 3))
  BY <1>9 DEF Owner
<1>11. Len(rest) >= 2 /\ rest[2] = "/" /\ IdIn(After(rest, 3)) # << >>
  BY <1>1, <1>3, <1>5, <1>8
<1> QED
  BY <1>3, <1>8, <1>9, <1>10, <1>11

\* Where parse_managed_name cuts a name that it reads.
LEMMA Cut ==
  ASSUME NEW str \in Strings, parse_managed_name(str) # Unmanaged
  PROVE  \E form \in Forms : \E end \in Nat :
           LET x == SubSeq(str, Len(form.open) + 1, end - 1)
               rest == After(str, end + Len(form.close))
           IN /\ Len(form.open) + 1 <= end /\ end + Len(form.close) <= Len(str) + 1
              /\ \A i \in 1..Len(form.open) : str[i] = form.open[i]
              /\ \A i \in 1..Len(form.close) : str[end + i - 1] = form.close[i]
              /\ parse_managed_name(str) = ParseRest(x, rest)
<1> DEFINE form == FormOf(str)
           ends == Occurrences(form.close, str, Len(form.open) + 1)
           end == First(ends)
<1>1. form \in Forms
  BY DEF FormOf, Forms
<1>2. /\ StartsWith(str, form.open) /\ ends # {}
      /\ parse_managed_name(str) = ParseRest(SubSeq(str, Len(form.open) + 1, end - 1),
                                             After(str, end + Len(form.close)))
  BY DEF parse_managed_name
<1> HIDE DEF form
<1>3. /\ form.open \in Strings /\ form.close \in Strings /\ Len(str) \in Nat
      /\ Len(form.open) \in Nat /\ Len(form.close) \in Nat
  BY <1>1, FormsAre, LenProperties DEF Strings
<1>4. end \in ends /\ ends \subseteq (Len(form.open) + 1)..Len(str)
  <2>1. ends \subseteq (Len(form.open) + 1)..Len(str)
    BY DEF Occurrences
  <2>2. ends \in SUBSET Nat
    BY <1>3, <2>1
  <2> HIDE DEF ends
  <2> QED
    BY <1>2, <2>1, <2>2, FirstIsLeast
<1>5. OccursAt(form.close, str, end)
  BY <1>4 DEF Occurrences
<1> HIDE DEF end, ends
<1>6. end \in Nat \ {0} /\ Len(form.open) + 1 <= end
  BY <1>3, <1>4
<1>7. /\ end + Len(form.close) <= Len(str) + 1
      /\ \A i \in 1..Len(form.close) : str[end + i - 1] = form.close[i]
  BY <1>3, <1>5, <1>6, OccurrencePointwise
<1>8. \A i \in 1..Len(form.open) : str[i] = form.open[i]
  <2>1. OccursAt(form.open, str, 1) /\ 1 \in Nat \ {0}
    BY <1>2 DEF StartsWith
  <2>2. \A i \in 1..Len(form.open) : str[1 + i - 1] = form.open[i]
    BY <1>3, <2>1, OccurrencePointwise
  <2>3. \A i \in 1..Len(form.open) : 1 + i - 1 = i
    BY <1>3
  <2> QED
    BY <2>2, <2>3
<1>9. end \in Nat
  BY <1>6
<1> QED
  BY <1>1, <1>2, <1>6, <1>7, <1>8, <1>9, Zenon

(***************************************************************************)
(* Fail closed: whatever the name of a daemon stream is, an ownership read *)
(* from it has a namespace and an id, and the name begins with a marker of *)
(* that ownership, followed by nothing or by a space.                      *)
(***************************************************************************)
THEOREM OnlySpelledIsOwned ==
  ASSUME NEW str \in Strings, parse_managed_name(str) # Unmanaged
  PROVE  LET o == parse_managed_name(str)
         IN o.ns # << >> /\ o.nmos_id # << >> /\ Carries(str, o)
<1> DEFINE own == parse_managed_name(str)
<1>1. PICK form \in Forms, end \in Nat :
        LET x == SubSeq(str, Len(form.open) + 1, end - 1)
            rest == After(str, end + Len(form.close))
        IN /\ Len(form.open) + 1 <= end /\ end + Len(form.close) <= Len(str) + 1
           /\ \A i \in 1..Len(form.open) : str[i] = form.open[i]
           /\ \A i \in 1..Len(form.close) : str[end + i - 1] = form.close[i]
           /\ own = ParseRest(x, rest)
  BY Cut, Zenon
<1> HIDE DEF own
<1> DEFINE o == Len(form.open)
           c == Len(form.close)
           x == SubSeq(str, o + 1, end - 1)
           rest == After(str, end + c)
           text == After(rest, 3)
           id == IdIn(text)
           sd == own.side
           marker == Marked(form, x, sd, id)
           d == end - 1 + c
<1>2. /\ o \in {1, 2} /\ c \in {1, 2} /\ Len(str) \in Nat /\ end \in Nat
      /\ o + 1 <= end /\ end + c <= Len(str) + 1
  BY <1>1, FormsAre, LenProperties DEF Strings
<1>3. /\ \A i \in 1..o : str[i] = form.open[i]
      /\ \A i \in 1..c : str[end + i - 1] = form.close[i]
      /\ own = ParseRest(x, rest) /\ own # Unmanaged
  BY <1>1 DEF own
<1> HIDE DEF o, c
<1>4. /\ x \in Strings /\ Len(x) = end - 1 - o
      /\ \A i \in 1..(end - 1 - o) : x[i] = str[o + i]
  <2> DEFINE from == o + 1
             to == end - 1
             y == SubSeq(str, from, to)
  <2>1. from \in Nat \ {0} /\ to \in Int /\ to <= Len(str)
          /\ to - from + 1 = end - 1 - o /\ from = o + 1 /\ from <= to + 1
    BY <1>2
  <2>2. x = y
    OBVIOUS
  <2> HIDE DEF x, from, to
  <2>3. /\ y \in Strings
        /\ Len(y) = IF from <= to THEN to - from + 1 ELSE 0
        /\ \A i \in 1..(to - from + 1) : y[i] = str[from + i - 1]
    BY <2>1, SliceOf
  <2> HIDE DEF y
  <2>4. Len(y) = end - 1 - o
    BY <1>2, <2>1, <2>3
  <2>5. \A i \in 1..(end - 1 - o) : i \in 1..(to - from + 1) /\ from + i - 1 = o + i
    BY <1>2, <2>1
  <2> QED
    BY <2>2, <2>3, <2>4, <2>5
<1> HIDE DEF x
<1>5. /\ rest \in Strings /\ Len(rest) = Len(str) - d
      /\ \A i \in 1..(Len(str) - d) : rest[i] = str[d + i]
  <2> DEFINE from == end + c
  <2>1. from \in 1..(Len(str) + 1) /\ Len(str) - from + 1 = Len(str) - d /\ from = d + 1
    BY <1>2
  <2>2. rest = After(str, from)
    OBVIOUS
  <2> HIDE DEF rest, from
  <2>3. /\ After(str, from) \in Strings
        /\ Len(After(str, from)) = Len(str) - from + 1
        /\ \A i \in 1..(Len(str) - from + 1) : After(str, from)[i] = str[from + i - 1]
    BY <2>1, AfterOf
  <2>4. \A i \in 1..(Len(str) - d) : from + i - 1 = d + i
    BY <1>2, <2>1
  <2> QED
    BY <2>1, <2>2, <2>3, <2>4
<1> HIDE DEF rest
<1>6. /\ Len(rest) >= 2 /\ sd \in Side /\ rest[1] = sd /\ rest[2] = "/"
      /\ own = Owner(x, sd, id)
      /\ x # << >> /\ own.nmos_id # << >>
  BY <1>3, <1>5, RestSpellsOwner
<1>7. /\ text \in Strings /\ Len(text) = Len(rest) - 2
      /\ \A i \in 1..(Len(rest) - 2) : text[i] = rest[2 + i]
  <2>1. Len(rest) \in Nat
    BY <1>5, LenProperties DEF Strings
  <2>2. 3 \in 1..(Len(rest) + 1) /\ Len(rest) - 3 + 1 = Len(rest) - 2
    BY <1>6, <2>1
  <2>3. /\ text \in Strings /\ Len(text) = Len(rest) - 3 + 1
        /\ \A i \in 1..(Len(rest) - 3 + 1) : text[i] = rest[3 + i - 1]
    BY <1>5, <2>2, AfterOf
  <2>4. \A i \in 1..(Len(rest) - 2) : 3 + i - 1 = 2 + i
    BY <2>1
  <2> HIDE DEF text
  <2> QED
    BY <2>2, <2>3, <2>4
<1> HIDE DEF text
<1>8. /\ id \in Strings /\ Len(id) <= Len(text)
      /\ \A i \in 1..Len(id) : id[i] = text[i]
      /\ Len(id) < Len(text) => text[Len(id) + 1] = Space
  BY <1>7, IdInText
<1>9. own.ns = x /\ own.side = sd /\ own.nmos_id = id
  BY <1>6 DEF Owner
<1> HIDE DEF id, sd
<1>10. marker \in Strings /\ LaidOut(marker, form.open, x, form.close, sd, id, << >>)
  BY <1>4, <1>6, <1>8, MarkerLayout
<1> HIDE DEF marker
<1>11. /\ Len(marker) = o + Len(x) + c + 2 + Len(id) + 0
       /\ \A i \in 1..o : marker[i] = form.open[i]
       /\ \A i \in 1..Len(x) : marker[o + i] = x[i]
       /\ \A i \in 1..c : marker[o + Len(x) + i] = form.close[i]
       /\ marker[o + Len(x) + c + 1] = sd /\ marker[o + Len(x) + c + 2] = "/"
       /\ \A i \in 1..Len(id) : marker[o + Len(x) + c + 2 + i] = id[i]
  BY <1>10, EmptyString DEF LaidOut, o, c
<1>12. Len(id) \in Nat /\ Len(text) \in Nat /\ d \in Nat /\ o + Len(x) + c = d
  BY <1>2, <1>4, <1>7, <1>8, LenProperties DEF Strings
<1>13. /\ Len(marker) = d + 2 + Len(id) /\ Len(str) = d + 2 + Len(text)
       /\ Len(marker) <= Len(str)
  <2> HIDE DEF d
  <2> DEFINE m == Len(marker)
             r == Len(rest)
  <2>1. m = o + Len(x) + c + 2 + Len(id) /\ r = Len(str) - d /\ Len(text) = r - 2
    BY <1>5, <1>7, <1>11, <1>12
  <2> HIDE DEF m, r
  <2>2. m = d + 2 + Len(id)
    BY <1>2, <1>4, <1>12, <2>1
  <2>3. Len(str) = d + 2 + Len(text)
    BY <1>2, <1>12, <2>1
  <2> QED
    BY <1>8, <1>12, <2>2, <2>3 DEF m
<1>14. ASSUME NEW j \in 1..Len(text)
       PROVE  str[d + 2 + j] = text[j]
  <2> HIDE DEF d
  <2>1. j \in 1..(Len(rest) - 2) /\ 2 + j \in 1..(Len(str) - d) /\ d + (2 + j) = d + 2 + j
    BY <1>5, <1>7, <1>12, <1>13
  <2> QED
    BY <1>5, <1>7, <2>1
<1>15. ASSUME NEW j \in 1..Len(marker)
       PROVE  str[j] = marker[j]
  <2>1. CASE j <= o
    <3>1. j \in 1..o
      <4> DEFINE m == Len(marker)
      <4>1. m \in Int /\ j \in 1..m
        BY <1>12, <1>13
      <4> HIDE DEF m, d
      <4> QED
        BY <1>2, <2>1, <4>1
    <3> QED
      BY <1>3, <1>11, <3>1
  <2>2. CASE o < j /\ j < end
    <3> DEFINE i == j - o
    <3>1. i \in 1..(end - 1 - o) /\ i \in 1..Len(x) /\ o + i = j
      BY <1>2, <1>4, <1>13, <1>12, <2>2
    <3> HIDE DEF i
    <3> QED
      BY <1>4, <1>11, <3>1
  <2>3. CASE end <= j /\ j <= d
    <3> DEFINE i == j - end + 1
    <3>1. i \in 1..c /\ end + i - 1 = j /\ o + Len(x) + i = j
      BY <1>2, <1>4, <1>13, <1>12, <2>3
    <3> HIDE DEF i
    <3>2. str[end + i - 1] = form.close[i] /\ marker[o + Len(x) + i] = form.close[i]
      BY <1>3, <1>11, <3>1
    <3> QED
      BY <3>1, <3>2
  <2>4. CASE j = d + 1 \/ j = d + 2
    <3>1. 1 \in 1..(Len(str) - d) /\ 2 \in 1..(Len(str) - d)
      BY <1>12, <1>13
    <3>2. str[d + 1] = sd /\ str[d + 2] = "/"
      BY <1>5, <1>6, <3>1 DEF sd
    <3>3. marker[d + 1] = sd /\ marker[d + 2] = "/"
      BY <1>11, <1>12
    <3> QED
      BY <2>4, <3>2, <3>3
  <2>5. CASE d + 2 < j
    <3> DEFINE i == j - (d + 2)
    <3>1. i \in 1..Len(id) /\ i \in 1..Len(text) /\ d + 2 + i = j
            /\ o + Len(x) + c + 2 + i = j
      BY <1>8, <1>12, <1>13, <2>5
    <3> HIDE DEF i
    <3>2. marker[j] = id[i] /\ id[i] = text[i]
      BY <1>8, <1>11, <3>1
    <3> QED
      BY <1>14, <3>1, <3>2
  <2> HIDE DEF d
  <2>6. \/ j <= o
        \/ o < j /\ j < end
        \/ end <= j /\ j <= d
        \/ j = d + 1 \/ j = d + 2
        \/ d + 2 < j
    <3> DEFINE m == Len(marker)
    <3>1. m \in Int /\ j \in 1..m
      BY <1>12, <1>13
    <3> HIDE DEF m
    <3> QED
      BY <1>2, <1>12, <3>1
  <2> QED
    BY <2>1, <2>2, <2>3, <2>4, <2>5, <2>6
<1>16. StartsWith(str, marker)
  <2>1. 1 \in Nat \ {0} /\ 1 + Len(marker) <= Len(str) + 1
          /\ \A j \in 1..Len(marker) : 1 + j - 1 = j
    BY <1>12, <1>13
  <2>2. \A j \in 1..Len(marker) : str[1 + j - 1] = marker[j]
    BY <1>15, <2>1
  <2> QED
    BY <1>10, <2>1, <2>2, OccurrencePointwise DEF StartsWith
<1>17. Len(str) > Len(marker) => str[Len(marker) + 1] = Space
  <2> SUFFICES ASSUME Len(str) > Len(marker)
               PROVE  str[Len(marker) + 1] = Space
    OBVIOUS
  <2>1. Len(id) < Len(text) /\ Len(id) + 1 \in 1..Len(text)
          /\ d + 2 + (Len(id) + 1) = Len(marker) + 1
    BY <1>12, <1>13, SMTT(30)
  <2> QED
    BY <1>8, <1>14, <2>1
<1>18. Carries(str, own)
  <2>1. marker = Marked(form, own.ns, own.side, own.nmos_id)
    BY <1>9 DEF marker
  <2> QED
    BY <1>1, <1>16, <1>17, <2>1 DEF Carries, Forms
<1> QED
  BY <1>6, <1>9, <1>18 DEF own

(***************************************************************************)
(* The parser sees an ownership only in a name that spells it              *)
(* (parse_managed_name), for names of every length.                        *)
(***************************************************************************)
THEOREM OnlySpelledOwnershipIsRead == Spec => []OwnershipIsSpelled
<1>1. Typed => OwnershipIsSpelled
  BY OnlySpelledIsOwned DEF Typed, OwnershipIsSpelled
<1> QED
  BY <1>1, StringsAreTyped, PTL

-----------------------------------------------------------------------------
(***************************************************************************)
(* Dropping symbols from a string                                          *)
(***************************************************************************)
NextKept(kept, ch, dropped) == IF ch \in dropped THEN kept ELSE Append(kept, ch)

\* kept is right for the first n symbols.
KeptUpTo(kept, n, str, dropped) ==
  /\ kept \in [0..n -> Strings]
  /\ kept[0] = << >>
  /\ \A i \in 1..n : kept[i] = NextKept(kept[i - 1], str[i], dropped)

LEMMA KeptCanExtend ==
  ASSUME NEW str \in Strings, NEW dropped, NEW n \in Nat, n + 1 <= Len(str),
         NEW kept, KeptUpTo(kept, n, str, dropped)
  PROVE  \E longer : KeptUpTo(longer, n + 1, str, dropped)
<1> DEFINE longer == [i \in 0..(n + 1) |->
                        IF i <= n THEN kept[i] ELSE NextKept(kept[n], str[n + 1], dropped)]
<1>1. str[n + 1] \in Symbols
  <2>1. n + 1 \in 1..Len(str)
    BY LenProperties DEF Strings
  <2> QED
    BY <2>1, ElementOfSeq DEF Strings
<1>2. /\ kept \in [0..n -> Strings] /\ kept[0] = << >>
      /\ \A i \in 1..n : kept[i] = NextKept(kept[i - 1], str[i], dropped)
  BY DEF KeptUpTo
<1>3. NextKept(kept[n], str[n + 1], dropped) \in Strings
  <2>1. kept[n] \in Strings
    BY <1>2
  <2> QED
    BY <1>1, <2>1, SymbolAppended DEF NextKept
<1>4. longer \in [0..(n + 1) -> Strings]
  BY <1>2, <1>3
<1>5. longer[0] = << >>
  BY <1>2
<1>6. ASSUME NEW i \in 1..(n + 1)
      PROVE  longer[i] = NextKept(longer[i - 1], str[i], dropped)
  <2>1. i \in 0..(n + 1) /\ i - 1 \in 0..(n + 1) /\ i - 1 <= n
    OBVIOUS
  <2>2. longer[i - 1] = kept[i - 1]
    BY <2>1
  <2>3. CASE i <= n
    <3>1. i \in 1..n /\ longer[i] = kept[i]
      BY <2>1, <2>3
    <3> QED
      BY <1>2, <2>2, <3>1
  <2>4. CASE i = n + 1
    <3>1. longer[i] = NextKept(kept[n], str[n + 1], dropped) /\ i - 1 = n
      BY <2>1, <2>4
    <3> QED
      BY <2>2, <2>4, <3>1
  <2> QED
    BY <2>3, <2>4
<1> HIDE DEF longer
<1>7. KeptUpTo(longer, n + 1, str, dropped)
  BY <1>4, <1>5, <1>6 DEF KeptUpTo
<1> QED
  BY <1>7

LEMMA KeptIs ==
  ASSUME NEW str \in Strings, NEW dropped
  PROVE  KeptUpTo(Kept(str, dropped), Len(str), str, dropped)
<1> DEFINE N == Len(str)
           P == {n \in Nat : n <= N => \E kept : KeptUpTo(kept, n, str, dropped)}
<1>1. N \in Nat
  BY LenProperties DEF Strings
<1>2. 0 \in P
  <2> DEFINE none == [i \in 0..0 |-> << >>]
  <2>1. none \in [0..0 -> Strings] /\ none[0] = << >> /\ 1..0 = {}
    BY EmptyString
  <2> HIDE DEF none
  <2>2. KeptUpTo(none, 0, str, dropped)
    BY <2>1 DEF KeptUpTo
  <2> QED
    BY <2>2
<1>3. ASSUME NEW n \in P PROVE n + 1 \in P
  <2> SUFFICES ASSUME n + 1 <= N PROVE \E kept : KeptUpTo(kept, n + 1, str, dropped)
    OBVIOUS
  <2>1. PICK kept : KeptUpTo(kept, n, str, dropped)
    BY <1>1
  <2> QED
    BY <2>1, KeptCanExtend
<1> HIDE DEF P
<1>4. P = Nat
  <2>1. P \in SUBSET Nat
    BY DEF P
  <2> QED
    BY <1>2, <1>3, <2>1, InductionOverSet
<1>5. PICK f : KeptUpTo(f, N, str, dropped)
  <2>1. N \in P
    BY <1>1, <1>4
  <2> QED
    BY <1>1, <2>1 DEF P
<1> HIDE DEF N
<1> DEFINE F(g) == [i \in 0..N |->
                      IF i = 0 THEN << >>
                      ELSE IF str[i] \in dropped THEN g[i - 1] ELSE Append(g[i - 1], str[i])]
<1>6. ASSUME NEW g PROVE F(g)[0] = << >> /\ \A i \in 1..N : F(g)[i] = NextKept(g[i - 1], str[i], dropped)
  BY <1>1 DEF NextKept
<1>7. f = F(f)
  <2>1. f \in [0..N -> Strings] /\ f[0] = << >>
        /\ \A i \in 1..N : f[i] = NextKept(f[i - 1], str[i], dropped)
    BY <1>5 DEF KeptUpTo
  <2>2. \A i \in 0..N : i = 0 \/ i \in 1..N
    BY <1>1
  <2> QED
    BY <2>1, <2>2 DEF NextKept
<1> DEFINE K == Kept(str, dropped)
<1>8. K = F(K)
  <2>1. K = CHOOSE g : g = F(g)
    BY DEF Kept, N
  <2> HIDE DEF K, F
  <2> QED
    BY <1>7, <2>1
<1>9. K[0] = << >> /\ \A i \in 1..N : K[i] = NextKept(K[i - 1], str[i], dropped)
  <2> HIDE DEF K, F
  <2> QED
    BY <1>6, <1>8
<1>10. DOMAIN K = 0..N /\ K = [i \in 0..N |-> K[i]]
  <2>1. F(K) = [i \in 0..N |-> F(K)[i]] /\ DOMAIN F(K) = 0..N
    OBVIOUS
  <2> HIDE DEF K, F
  <2> QED
    BY <1>8, <2>1
<1> HIDE DEF K, F
<1>11. \A i \in 0..N : K[i] \in Strings
  <2> DEFINE Q == {i \in Nat : i <= N => K[i] \in Strings}
  <2>1. 0 \in Q
    BY <1>9, EmptyString
  <2>2. ASSUME NEW n \in Q PROVE n + 1 \in Q
    <3> SUFFICES ASSUME n + 1 <= N PROVE K[n + 1] \in Strings
      OBVIOUS
    <3>1. n + 1 \in 1..N /\ K[n] \in Strings /\ (n + 1) - 1 = n
      BY <1>1
    <3>2. str[n + 1] \in Symbols
      BY <3>1, ElementOfSeq DEF Strings, N
    <3>3. K[n + 1] = NextKept(K[n], str[n + 1], dropped)
      BY <1>9, <3>1
    <3> QED
      BY <3>1, <3>2, <3>3, SymbolAppended DEF NextKept
  <2>3. Q \in SUBSET Nat
    OBVIOUS
  <2> HIDE DEF Q
  <2>4. Q = Nat
    BY <2>1, <2>2, <2>3, InductionOverSet
  <2> QED
    BY <1>1, <2>4 DEF Q
<1>12. K \in [0..N -> Strings]
  BY <1>10, <1>11
<1> QED
  BY <1>9, <1>12 DEF KeptUpTo, K, N

LEMMA InductionUpTo ==
  ASSUME NEW N \in Nat, NEW P \in SUBSET (0..N), 0 \in P, \A n \in P : n < N => n + 1 \in P
  PROVE  P = 0..N
<1> DEFINE Q == P \cup {n \in Nat : n > N}
<1>1. Q \in SUBSET Nat /\ 0 \in Q
  <2>1. \A n \in P : n \in Nat
    OBVIOUS
  <2> QED
    BY <2>1
<1>2. ASSUME NEW n \in Q PROVE n + 1 \in Q
  <2>1. n \in Nat
    BY <1>1
  <2>2. CASE n < N
    BY <2>1, <2>2
  <2>3. CASE n >= N
    BY <2>1, <2>3
  <2> QED
    BY <2>1, <2>2, <2>3
<1> HIDE DEF Q
<1>3. Q = Nat
  BY <1>1, <1>2, InductionOverSet
<1>4. ASSUME NEW n \in 0..N PROVE n \in P
  BY <1>3 DEF Q
<1> QED
  BY <1>4

LEMMA KeptSteps ==
  ASSUME NEW str \in Strings, NEW dropped
  PROVE  LET K == Kept(str, dropped)
         IN /\ K[0] = << >>
            /\ \A n \in 0..Len(str) : K[n] \in Strings
            /\ \A n \in 0..Len(str) : n < Len(str) =>
                 /\ str[n + 1] \in Symbols
                 /\ str[n + 1] \in dropped => K[n + 1] = K[n]
                 /\ str[n + 1] \notin dropped => K[n + 1] = Append(K[n], str[n + 1])
<1> DEFINE K == Kept(str, dropped)
           N == Len(str)
<1>1. N \in Nat
  BY LenProperties DEF Strings
<1>2. /\ K \in [0..N -> Strings] /\ K[0] = << >>
      /\ \A i \in 1..N : K[i] = NextKept(K[i - 1], str[i], dropped)
  BY KeptIs DEF KeptUpTo
<1> HIDE DEF K
<1>3. ASSUME NEW n \in 0..N, n < N
      PROVE  /\ str[n + 1] \in Symbols
             /\ str[n + 1] \in dropped => K[n + 1] = K[n]
             /\ str[n + 1] \notin dropped => K[n + 1] = Append(K[n], str[n + 1])
  <2>1. n + 1 \in 1..N /\ (n + 1) - 1 = n
    BY <1>1, <1>3
  <2>2. K[n + 1] = NextKept(K[n], str[n + 1], dropped)
    BY <1>2, <2>1
  <2> QED
    BY <2>1, <2>2, ElementOfSeq DEF NextKept, Strings
<1> QED
  BY <1>2, <1>3 DEF K

LEMMA Appended ==
  ASSUME NEW s \in Strings, NEW ch \in Symbols
  PROVE  /\ Append(s, ch) \in Strings /\ Len(Append(s, ch)) = Len(s) + 1
         /\ \A i \in 1..Len(s) : Append(s, ch)[i] = s[i]
         /\ Append(s, ch)[Len(s) + 1] = ch
         /\ \A t \in Strings : t \o Append(s, ch) = Append(t \o s, ch)
<1>1. Append(s, ch) = s \o <<ch>>
  BY AppendIsConcat DEF Strings
<1>2. <<ch>> \in Strings /\ Len(<<ch>>) = 1 /\ <<ch>>[1] = ch
  BY OneSymbolString
<1>3. ASSUME NEW t \in Strings
      PROVE  t \o Append(s, ch) = Append(t \o s, ch)
  <2>1. t \o s \in Strings
    BY Concatenation
  <2>2. Append(t \o s, ch) = (t \o s) \o <<ch>>
    BY <2>1, AppendIsConcat DEF Strings
  <2>3. t \o (s \o <<ch>>) = (t \o s) \o <<ch>>
    BY <1>2, ConcatAssociative DEF Strings
  <2> QED
    BY <1>1, <2>2, <2>3
<1> QED
  BY <1>3 DEF Strings

\* Nothing is dropped from a string without such symbols.
LEMMA NothingDropped ==
  ASSUME NEW str \in Strings, NEW dropped, \A i \in 1..Len(str) : str[i] \notin dropped
  PROVE  Without(str, dropped) = str
<1> DEFINE K == Kept(str, dropped)
           N == Len(str)
           P == {n \in 0..N : Len(K[n]) = n /\ \A i \in 1..n : K[n][i] = str[i]}
<1>1. N \in Nat
  BY LenProperties DEF Strings
<1>2. /\ K[0] = << >> /\ \A n \in 0..N : K[n] \in Strings
      /\ \A n \in 0..N : n < N => str[n + 1] \in Symbols
      /\ \A n \in 0..N : n < N /\ str[n + 1] \notin dropped => K[n + 1] = Append(K[n], str[n + 1])
  BY KeptSteps
<1> HIDE DEF K
<1>3. 0 \in P
  <2>1. 0 \in 0..N /\ 1..0 = {} /\ Len(K[0]) = 0
    BY <1>1, <1>2, EmptyString
  <2> QED
    BY <2>1
<1>4. ASSUME NEW n \in P, n < N PROVE n + 1 \in P
  <2>1. n \in 0..N /\ n + 1 \in 1..N /\ n + 1 \in 0..N /\ Len(K[n]) = n
    BY <1>1, <1>4
  <2>2. str[n + 1] \in Symbols /\ K[n] \in Strings /\ K[n + 1] = Append(K[n], str[n + 1])
    BY <1>2, <1>4, <2>1
  <2>3. /\ Len(K[n + 1]) = n + 1 /\ K[n + 1][n + 1] = str[n + 1]
        /\ \A i \in 1..n : K[n + 1][i] = K[n][i]
    BY <2>1, <2>2, Appended
  <2>4. \A i \in 1..n : K[n][i] = str[i]
    BY <1>4
  <2>5. \A i \in 1..(n + 1) : i \in 1..n \/ i = n + 1
    BY <2>1
  <2>6. \A i \in 1..(n + 1) : K[n + 1][i] = str[i]
    BY <2>3, <2>4, <2>5
  <2> QED
    BY <2>1, <2>3, <2>6
<1>5. P \in SUBSET (0..N)
  OBVIOUS
<1> HIDE DEF P
<1>6. N \in P
  BY <1>1, <1>3, <1>4, <1>5, InductionUpTo
<1>7. Len(K[N]) = Len(str) /\ \A i \in 1..N : K[N][i] = str[i]
  BY <1>6 DEF P
<1>8. K[N] \in Strings
  BY <1>1, <1>2
<1>9. K[N] = str
  BY <1>7, <1>8, EqualSymbolBySymbol
<1> QED
  BY <1>9 DEF Without, K

\* Something dropped shows in the length.
LEMMA SomethingDropped ==
  ASSUME NEW str \in Strings, NEW dropped, NEW j \in 1..Len(str), str[j] \in dropped
  PROVE  Without(str, dropped) # str
<1> DEFINE K == Kept(str, dropped)
           N == Len(str)
           P == {n \in 0..N : Len(K[n]) <= n /\ (j <= n => Len(K[n]) < n)}
<1>1. N \in Nat
  BY LenProperties DEF Strings
<1>2. /\ K[0] = << >> /\ \A n \in 0..N : K[n] \in Strings
      /\ \A n \in 0..N : n < N =>
           /\ str[n + 1] \in Symbols
           /\ str[n + 1] \in dropped => K[n + 1] = K[n]
           /\ str[n + 1] \notin dropped => K[n + 1] = Append(K[n], str[n + 1])
  BY KeptSteps
<1> HIDE DEF K
<1>3. 0 \in P
  <2>1. 0 \in 0..N /\ ~(j <= 0) /\ Len(K[0]) = 0
    BY <1>1, <1>2, EmptyString
  <2> QED
    BY <2>1
<1>4. ASSUME NEW n \in P, n < N PROVE n + 1 \in P
  <2>1. /\ n \in 0..N /\ n + 1 \in 0..N /\ Len(K[n]) <= n /\ K[n] \in Strings
        /\ j <= n => Len(K[n]) < n
    BY <1>1, <1>2, <1>4
  <2>2. Len(K[n]) \in Nat
    BY <2>1, LenProperties DEF Strings
  <2>3. CASE str[n + 1] \in dropped
    <3>1. Len(K[n + 1]) = Len(K[n])
      BY <1>2, <1>4, <2>1, <2>3
    <3> QED
      BY <2>1, <2>2, <3>1
  <2>4. CASE str[n + 1] \notin dropped
    <3>1. Len(K[n + 1]) = Len(K[n]) + 1
      <4>1. str[n + 1] \in Symbols /\ K[n + 1] = Append(K[n], str[n + 1])
        BY <1>2, <1>4, <2>1, <2>4
      <4> QED
        BY <2>1, <4>1, Appended
    <3>2. j # n + 1
      BY <2>4
    <3> QED
      BY <1>1, <2>1, <2>2, <3>1, <3>2
  <2> QED
    BY <2>3, <2>4
<1>5. P \in SUBSET (0..N)
  OBVIOUS
<1> HIDE DEF P
<1>6. N \in P
  BY <1>1, <1>3, <1>4, <1>5, InductionUpTo
<1>7. Len(K[N]) < N
  BY <1>1, <1>6 DEF P
<1> QED
  BY <1>1, <1>7 DEF Without, K

\* A string none of whose symbols is dropped.
FreeOf(str, dropped) == \A i \in 1..Len(str) : str[i] \notin dropped

LEMMA UnchangedWithout ==
  ASSUME NEW str \in Strings, NEW dropped
  PROVE  Without(str, dropped) = str <=> FreeOf(str, dropped)
BY NothingDropped, SomethingDropped DEF FreeOf

LEMMA FreeOfBoth ==
  ASSUME NEW s \in Strings, NEW t \in Strings, NEW dropped
  PROVE  FreeOf(s \o t, dropped) <=> FreeOf(s, dropped) /\ FreeOf(t, dropped)
<1>1. /\ s \o t \in Strings
      /\ Len(s \o t) = Len(s) + Len(t)
      /\ \A i \in 1..Len(s) : (s \o t)[i] = s[i]
      /\ \A i \in 1..Len(t) : (s \o t)[Len(s) + i] = t[i]
  BY Concatenation
<1>2. Len(s) \in Nat /\ Len(t) \in Nat
  BY LenProperties DEF Strings
<1> DEFINE st == s \o t
<1> HIDE DEF st
<1>3. /\ Len(st) = Len(s) + Len(t)
      /\ \A i \in 1..Len(s) : st[i] = s[i]
      /\ \A i \in 1..Len(t) : st[Len(s) + i] = t[i]
  BY <1>1 DEF st
<1>4. ASSUME FreeOf(st, dropped) PROVE FreeOf(s, dropped) /\ FreeOf(t, dropped)
  <2>1. \A i \in 1..Len(s) : i \in 1..Len(st)
    BY <1>2, <1>3
  <2>2. \A i \in 1..Len(t) : Len(s) + i \in 1..Len(st)
    BY <1>2, <1>3
  <2> QED
    BY <1>3, <1>4, <2>1, <2>2 DEF FreeOf
<1>5. ASSUME FreeOf(s, dropped), FreeOf(t, dropped), NEW i \in 1..Len(st)
      PROVE  st[i] \notin dropped
  <2>1. CASE i <= Len(s)
    <3>1. i \in 1..Len(s)
      BY <1>2, <1>3, <2>1
    <3> QED
      BY <1>3, <1>5, <3>1 DEF FreeOf
  <2>2. CASE i > Len(s)
    <3>1. i - Len(s) \in 1..Len(t) /\ Len(s) + (i - Len(s)) = i
      BY <1>2, <1>3, <2>2
    <3> QED
      BY <1>3, <1>5, <3>1 DEF FreeOf
  <2> QED
    BY <1>2, <1>3, <2>1, <2>2
<1>6. FreeOf(s, dropped) /\ FreeOf(t, dropped) => FreeOf(st, dropped)
  BY <1>5 DEF FreeOf
<1> QED
  BY <1>4, <1>6 DEF st

LEMMA FreeOfName ==
  ASSUME NEW form \in Forms, NEW n \in Strings, NEW sd \in Side, NEW id \in Strings,
         NEW tail \in Strings, NEW dropped
  PROVE  FreeOf(Marked(form, n, sd, id) \o tail, dropped) <=>
           /\ FreeOf(form.open, dropped) /\ FreeOf(n, dropped) /\ FreeOf(form.close, dropped)
           /\ FreeOf(<<sd, "/">>, dropped) /\ FreeOf(id, dropped) /\ FreeOf(tail, dropped)
<1> DEFINE s1 == form.open \o n
           s2 == s1 \o form.close
           s3 == s2 \o <<sd, "/">>
           s4 == s3 \o id
<1>1. form.open \in Strings /\ form.close \in Strings
  BY FormsAre
<1>2. <<sd, "/">> \in Strings
  BY KeywordsAre, TwoSymbolString DEF Side
<1>3. Marked(form, n, sd, id) \o tail = s4 \o tail
  BY DEF Marked
<1>4. s1 \in Strings /\ (FreeOf(s1, dropped) <=> FreeOf(form.open, dropped) /\ FreeOf(n, dropped))
  BY <1>1, Concatenation, FreeOfBoth
<1> HIDE DEF s1
<1>5. s2 \in Strings /\ (FreeOf(s2, dropped) <=> FreeOf(s1, dropped) /\ FreeOf(form.close, dropped))
  BY <1>1, <1>4, Concatenation, FreeOfBoth
<1> HIDE DEF s2
<1>6. s3 \in Strings /\ (FreeOf(s3, dropped) <=> FreeOf(s2, dropped) /\ FreeOf(<<sd, "/">>, dropped))
  BY <1>2, <1>5, Concatenation, FreeOfBoth
<1> HIDE DEF s3
<1>7. s4 \in Strings /\ (FreeOf(s4, dropped) <=> FreeOf(s3, dropped) /\ FreeOf(id, dropped))
  BY <1>6, Concatenation, FreeOfBoth
<1> HIDE DEF s4
<1>8. FreeOf(s4 \o tail, dropped) <=> FreeOf(s4, dropped) /\ FreeOf(tail, dropped)
  BY <1>7, FreeOfBoth
<1> QED
  BY <1>3, <1>4, <1>5, <1>6, <1>7, <1>8

LEMMA FreeOfSuffix ==
  ASSUME NEW lbl \in Strings, NEW dropped, Space \notin dropped
  PROVE  FreeOf(Suffix(lbl), dropped) <=> FreeOf(lbl, dropped)
<1>1. CASE lbl = << >>
  BY <1>1 DEF Suffix
<1>2. CASE lbl # << >>
  <2>1. <<Space>> \in Strings /\ Len(<<Space>>) = 1 /\ <<Space>>[1] = Space
    BY KeywordsAre, OneSymbolString
  <2>2. FreeOf(<<Space>>, dropped)
    BY <2>1 DEF FreeOf
  <2> QED
    BY <1>2, <2>1, <2>2, FreeOfBoth DEF Suffix
<1> QED
  BY <1>1, <1>2

(***************************************************************************)
(* The daemon stores a managed name as it was written exactly when it      *)
(* would store each configured string so (managed_name; the daemon drops   *)
(* square brackets).                                                       *)
(***************************************************************************)
THEOREM StoredAsWritten ==
  ASSUME NEW n \in Strings, NEW sd \in Side, NEW id \in Strings, NEW lbl \in Strings
  PROVE  Stored(managed_name(n, sd, id, lbl)) = managed_name(n, sd, id, lbl)
           <=> \A str \in {n, id, lbl} : Stored(str) = str
<1> DEFINE square == {"[", "]"}
           str == managed_name(n, sd, id, lbl)
<1>1. str = Marked(CurrentForm, n, sd, id) \o Suffix(lbl)
  BY DEF managed_name, Suffix
<1>2. CurrentForm \in Forms /\ Suffix(lbl) \in Strings
  BY SuffixTerminates DEF Forms
<1>3. str \in Strings
  BY <1>1, <1>2, Layout
<1>4. /\ FreeOf(CurrentForm.open, square) /\ FreeOf(CurrentForm.close, square)
      /\ FreeOf(<<sd, "/">>, square)
  BY DEF CurrentForm, Side, FreeOf
<1>5. FreeOf(Suffix(lbl), square) <=> FreeOf(lbl, square)
  BY FreeOfSuffix DEF Space
<1> HIDE DEF str, square
<1>6. FreeOf(str, square) <=> FreeOf(n, square) /\ FreeOf(id, square) /\ FreeOf(lbl, square)
  BY <1>1, <1>2, <1>4, <1>5, FreeOfName
<1>7. ASSUME NEW t \in Strings PROVE Stored(t) = t <=> FreeOf(t, square)
  BY UnchangedWithout DEF Stored, square
<1>8. Stored(str) = str <=> \A t \in {n, id, lbl} : Stored(t) = t
  BY <1>3, <1>6, <1>7
<1> QED
  BY <1>8 DEF str

(***************************************************************************)
(* A name is stored as written unless a configured string has a square     *)
(* bracket, in every state of the instance without its bounds.             *)
(***************************************************************************)
THEOREM ManagedNamesAreStoredAsWritten == Spec => []NamesAreStoredAsWritten
<1>1. Typed => NamesAreStoredAsWritten
  BY StoredAsWritten DEF Typed, NamesAreStoredAsWritten
<1> QED
  BY <1>1, StringsAreTyped, PTL

\* Dropping symbols from a concatenation drops them from its parts.
SplitsWithout(s, t, dropped) ==
  Without(s \o t, dropped) = Without(s, dropped) \o Without(t, dropped)

LEMMA WithoutBoth ==
  ASSUME NEW s \in Strings, NEW t \in Strings, NEW dropped
  PROVE  SplitsWithout(s, t, dropped)
<1> DEFINE st == s \o t
           K == Kept(st, dropped)
           A == Kept(s, dropped)
           B == Kept(t, dropped)
           N == Len(s)
           M == Len(t)
           P == {n \in 0..N : K[n] = A[n]}
           Q == {m \in 0..M : K[N + m] = A[N] \o B[m]}
<1>1. N \in Nat /\ M \in Nat
  BY LenProperties DEF Strings
<1>2. /\ st \in Strings
      /\ Len(st) = N + M
      /\ \A i \in 1..N : st[i] = s[i]
      /\ \A i \in 1..M : st[N + i] = t[i]
  BY Concatenation
<1> HIDE DEF st
<1>3. /\ K[0] = << >> /\ \A n \in 0..Len(st) : K[n] \in Strings
      /\ \A n \in 0..Len(st) : n < Len(st) =>
           /\ st[n + 1] \in Symbols
           /\ st[n + 1] \in dropped => K[n + 1] = K[n]
           /\ st[n + 1] \notin dropped => K[n + 1] = Append(K[n], st[n + 1])
  BY <1>2, KeptSteps, ZenonT(30)
<1>4. /\ A[0] = << >> /\ \A n \in 0..N : A[n] \in Strings
      /\ \A n \in 0..N : n < N =>
           /\ s[n + 1] \in Symbols
           /\ s[n + 1] \in dropped => A[n + 1] = A[n]
           /\ s[n + 1] \notin dropped => A[n + 1] = Append(A[n], s[n + 1])
  BY KeptSteps
<1>5. /\ B[0] = << >> /\ \A m \in 0..M : B[m] \in Strings
      /\ \A m \in 0..M : m < M =>
           /\ t[m + 1] \in Symbols
           /\ t[m + 1] \in dropped => B[m + 1] = B[m]
           /\ t[m + 1] \notin dropped => B[m + 1] = Append(B[m], t[m + 1])
  BY KeptSteps
<1> HIDE DEF K, A, B, N, M
<1>6. 0 \in P
  BY <1>1, <1>3, <1>4
<1>7. ASSUME NEW n \in P, n < N PROVE n + 1 \in P
  <2>1. n \in 0..N /\ n + 1 \in 1..N /\ n + 1 \in 0..N /\ n \in 0..Len(st) /\ n < Len(st)
    BY <1>1, <1>2, <1>7
  <2>2. st[n + 1] = s[n + 1] /\ K[n] = A[n]
    BY <1>2, <1>7, <2>1
  <2>3. K[n + 1] = A[n + 1]
    BY <1>3, <1>4, <1>7, <2>1, <2>2
  <2> QED
    BY <2>1, <2>3
<1>8. P \in SUBSET (0..N)
  OBVIOUS
<1> HIDE DEF P
<1>9. N \in P
  BY <1>1, <1>6, <1>7, <1>8, InductionUpTo
<1>10. K[N] = A[N] /\ A[N] \in Strings
  BY <1>1, <1>4, <1>9 DEF P
<1>11. 0 \in Q
  <2>1. A[N] \o << >> = A[N]
    BY <1>10, ConcatEmptySeq DEF Strings
  <2>2. 0 \in 0..M /\ N + 0 = N
    BY <1>1
  <2>3. K[N + 0] = A[N] \o B[0]
    BY <1>5, <1>10, <2>1, <2>2
  <2> QED
    BY <2>2, <2>3
<1>12. ASSUME NEW m \in Q, m < M PROVE m + 1 \in Q
  <2>1. /\ m \in 0..M /\ m + 1 \in 1..M /\ m + 1 \in 0..M
        /\ N + m \in 0..Len(st) /\ N + m < Len(st) /\ (N + m) + 1 = N + (m + 1)
    BY <1>1, <1>2, <1>12
  <2>2. st[(N + m) + 1] = t[m + 1] /\ K[N + m] = A[N] \o B[m]
    <3>1. st[N + (m + 1)] = t[m + 1]
      BY <1>2, <2>1
    <3>2. K[N + m] = A[N] \o B[m]
      BY <1>12
    <3> QED
      BY <2>1, <3>1, <3>2
  <2>3. t[m + 1] \in Symbols /\ B[m] \in Strings
    BY <1>5, <1>12, <2>1
  <2>4. CASE t[m + 1] \in dropped
    <3>1. K[(N + m) + 1] = K[N + m]
      BY <1>3, <2>1, <2>2, <2>4
    <3>2. B[m + 1] = B[m]
      BY <1>5, <1>12, <2>1, <2>4
    <3> QED
      BY <2>1, <2>2, <3>1, <3>2
  <2>5. CASE t[m + 1] \notin dropped
    <3>1. K[(N + m) + 1] = Append(K[N + m], t[m + 1])
      BY <1>3, <2>1, <2>2, <2>5
    <3>2. B[m + 1] = Append(B[m], t[m + 1])
      BY <1>5, <1>12, <2>1, <2>5
    <3>3. A[N] \o Append(B[m], t[m + 1]) = Append(A[N] \o B[m], t[m + 1])
      BY <1>10, <2>3, Appended
    <3> QED
      BY <2>1, <2>2, <3>1, <3>2, <3>3
  <2> QED
    BY <2>4, <2>5
<1>13. Q \in SUBSET (0..M)
  OBVIOUS
<1> HIDE DEF Q
<1>14. M \in Q
  BY <1>1, <1>11, <1>12, <1>13, InductionUpTo
<1>15. K[N + M] = A[N] \o B[M]
  BY <1>14 DEF Q
<1> QED
  BY <1>2, <1>15 DEF SplitsWithout, Without, K, A, B, N, M, st

LEMMA WithoutIsString ==
  ASSUME NEW str \in Strings, NEW dropped
  PROVE  Without(str, dropped) \in Strings
<1>1. Len(str) \in 0..Len(str)
  BY LenProperties DEF Strings
<1> QED
  BY <1>1, KeptSteps DEF Without

LEMMA WithoutOne ==
  ASSUME NEW c \in Symbols, NEW dropped
  PROVE  Without(<<c>>, dropped) = IF c \in dropped THEN << >> ELSE <<c>>
<1> DEFINE str == <<c>>
<1>1. str \in Strings /\ Len(str) = 1 /\ str[1] = c /\ str = <<c>>
  BY OneSymbolString
<1> HIDE DEF str
<1>2. CASE c \notin dropped
  <2>1. Without(str, dropped) = str
    BY <1>1, <1>2, NothingDropped
  <2> QED
    BY <1>1, <1>2, <2>1
<1>3. CASE c \in dropped
  <2>1. 0 \in 0..Len(str) /\ 0 < Len(str) /\ 0 + 1 = 1
    BY <1>1
  <2>2. /\ Kept(str, dropped)[0] = << >>
        /\ str[0 + 1] \in dropped => Kept(str, dropped)[0 + 1] = Kept(str, dropped)[0]
    BY <1>1, <2>1, KeptSteps
  <2>3. Kept(str, dropped)[1] = << >>
    BY <1>1, <1>3, <2>1, <2>2
  <2> QED
    BY <1>1, <1>3, <2>3 DEF Without
<1> QED
  BY <1>2, <1>3

LEMMA TwoJoined ==
  ASSUME NEW a \in Symbols, NEW b \in Symbols
  PROVE  <<a>> \o <<b>> = <<a, b>>
<1> DEFINE s == <<a>>
           t == <<b>>
           u == <<a, b>>
<1>1. s \in Strings /\ Len(s) = 1 /\ s[1] = a /\ t \in Strings /\ Len(t) = 1 /\ t[1] = b
  BY OneSymbolString
<1>2. u \in Strings /\ Len(u) = 2 /\ u[1] = a /\ u[2] = b
  BY TwoSymbolString
<1> HIDE DEF s, t, u
<1>3. /\ s \o t \in Strings /\ Len(s \o t) = Len(s) + Len(t)
      /\ \A i \in 1..Len(s) : (s \o t)[i] = s[i]
      /\ \A i \in 1..Len(t) : (s \o t)[Len(s) + i] = t[i]
  BY <1>1, Concatenation
<1>4. (s \o t)[1] = a
  BY <1>1, <1>3
<1>5. (s \o t)[2] = b
  <2>1. 1 \in 1..Len(t) /\ Len(s) + 1 = 2
    BY <1>1
  <2> QED
    BY <1>1, <1>3, <2>1
<1>6. Len(s \o t) = Len(u)
  BY <1>1, <1>2, <1>3
<1>7. \A i \in 1..Len(s \o t) : i = 1 \/ i = 2
  BY <1>2, <1>6
<1>8. s \o t = u
  <2>1. \A i \in 1..Len(s \o t) : (s \o t)[i] = u[i]
    BY <1>2, <1>4, <1>5, <1>7
  <2> QED
    BY <1>2, <1>3, <1>6, <2>1, EqualSymbolBySymbol
<1> QED
  BY <1>8 DEF s, t, u

LEMMA WithoutTwo ==
  ASSUME NEW a \in Symbols, NEW b \in Symbols, NEW dropped
  PROVE  Without(<<a, b>>, dropped) = Without(<<a>>, dropped) \o Without(<<b>>, dropped)
<1>1. <<a>> \in Strings /\ <<b>> \in Strings
  BY OneSymbolString
<1>2. Without(<<a>> \o <<b>>, dropped) = Without(<<a>>, dropped) \o Without(<<b>>, dropped)
  BY <1>1, WithoutBoth DEF SplitsWithout
<1> QED
  BY <1>2, TwoJoined

SixWithout(a, b, c, d, e, f, dropped) ==
  Without(a \o b \o c \o d \o e \o f, dropped) =
    Without(a, dropped) \o Without(b, dropped) \o Without(c, dropped)
      \o Without(d, dropped) \o Without(e, dropped) \o Without(f, dropped)

LEMMA WithoutSix ==
  ASSUME NEW a \in Strings, NEW b \in Strings, NEW c \in Strings, NEW d \in Strings,
         NEW e \in Strings, NEW f \in Strings, NEW dropped
  PROVE  SixWithout(a, b, c, d, e, f, dropped)
<1>1. ASSUME NEW s \in Strings, NEW t \in Strings
      PROVE  /\ s \o t \in Strings
             /\ Without(s \o t, dropped) = Without(s, dropped) \o Without(t, dropped)
  <2>1. s \o t \in Strings
    BY Concatenation
  <2>2. Without(s \o t, dropped) = Without(s, dropped) \o Without(t, dropped)
    <3>1. SplitsWithout(s, t, dropped)
      BY WithoutBoth
    <3> QED
      BY <3>1 DEF SplitsWithout
  <2> QED
    BY <2>1, <2>2
<1> DEFINE s1 == a \o b
           s2 == s1 \o c
           s3 == s2 \o d
           s4 == s3 \o e
<1>2. s1 \in Strings /\ Without(s1, dropped) = Without(a, dropped) \o Without(b, dropped)
  BY <1>1
<1> HIDE DEF s1
<1>3. s2 \in Strings /\ Without(s2, dropped) = Without(s1, dropped) \o Without(c, dropped)
  BY <1>1, <1>2
<1> HIDE DEF s2
<1>4. s3 \in Strings /\ Without(s3, dropped) = Without(s2, dropped) \o Without(d, dropped)
  BY <1>1, <1>3
<1> HIDE DEF s3
<1>5. s4 \in Strings /\ Without(s4, dropped) = Without(s3, dropped) \o Without(e, dropped)
  BY <1>1, <1>4
<1> HIDE DEF s4
<1>6. Without(s4 \o f, dropped) = Without(s4, dropped) \o Without(f, dropped)
  BY <1>1, <1>5
<1>7. a \o b \o c \o d \o e \o f = s4 \o f
  BY DEF s4, s3, s2, s1
<1> QED
  BY <1>2, <1>3, <1>4, <1>5, <1>6, <1>7 DEF SixWithout

\* The brackets of the older spelling go, the rest of a name without brackets
\* stays.
LEMMA LegacyNameStripped ==
  ASSUME NEW n \in Strings, NEW sd \in Side, NEW id \in Strings, NEW tail \in Strings,
         Sanitized(n) = n, Sanitized(id) = id
  PROVE  Sanitized(Marked(LegacyForm, n, sd, id) \o tail)
           = Marked(StrippedForm, n, sd, id) \o Sanitized(tail)
<1>1. LegacyForm \in Forms
  BY DEF Forms
<1>2. /\ "NMOS" \notin Brackets /\ "/" \notin Brackets /\ sd \notin Brackets
      /\ "[" \in Brackets /\ "]" \in Brackets
  BY DEF Brackets, Side
<1>3. {"NMOS", "[", "]", "/", sd} \subseteq Symbols
  BY KeywordsAre DEF Side
<1>4. /\ Without(<<"NMOS">>, Brackets) = <<"NMOS">> /\ Without(<<"[">>, Brackets) = << >>
      /\ Without(<<"]">>, Brackets) = << >> /\ Without(<<"/">>, Brackets) = <<"/">>
      /\ Without(<<sd>>, Brackets) = <<sd>>
  BY <1>2, <1>3, WithoutOne
<1>5. ASSUME NEW a \in Symbols, NEW b \in Symbols
      PROVE  Without(<<a, b>>, Brackets) = Without(<<a>>, Brackets) \o Without(<<b>>, Brackets)
  BY WithoutTwo
<1>6. ASSUME NEW a \in Symbols PROVE <<a>> \o << >> = <<a>> /\ << >> \o <<a>> = <<a>>
  BY OneSymbolString, ConcatEmptySeq DEF Strings
<1>7. Without(<<"NMOS", "[">>, Brackets) = <<"NMOS">>
  BY <1>3, <1>4, <1>5, <1>6
<1>8. Without(<<"]", "/">>, Brackets) = <<"/">>
  BY <1>3, <1>4, <1>5, <1>6
<1>9. Without(<<sd, "/">>, Brackets) = <<sd, "/">>
  BY <1>3, <1>4, <1>5, TwoJoined
<1> DEFINE open == LegacyForm.open
           close == LegacyForm.close
           slash == <<sd, "/">>
<1>10. open \in Strings /\ close \in Strings /\ slash \in Strings
  BY <1>1, <1>3, FormsAre, TwoSymbolString
<1>11. Marked(LegacyForm, n, sd, id) \o tail = open \o n \o close \o slash \o id \o tail
  BY DEF Marked
<1>12. Marked(StrippedForm, n, sd, id) = <<"NMOS">> \o n \o <<"/">> \o slash \o id
  BY DEF Marked, StrippedForm
<1>13. Without(open, Brackets) = <<"NMOS">> /\ Without(close, Brackets) = <<"/">>
       /\ Without(slash, Brackets) = slash
  BY <1>7, <1>8, <1>9 DEF LegacyForm
<1> HIDE DEF open, close, slash
<1>14. Without(open \o n \o close \o slash \o id \o tail, Brackets) =
         Without(open, Brackets) \o Without(n, Brackets) \o Without(close, Brackets)
           \o Without(slash, Brackets) \o Without(id, Brackets) \o Without(tail, Brackets)
  <2>1. SixWithout(open, n, close, slash, id, tail, Brackets)
    BY <1>10, WithoutSix
  <2> QED
    BY <2>1 DEF SixWithout
<1> QED
  BY <1>11, <1>12, <1>13, <1>14 DEF Sanitized

\* What follows the id still starts with the space.
LEMMA SuffixSanitized ==
  ASSUME NEW lbl \in Strings
  PROVE  Sanitized(Suffix(lbl)) \in Strings /\ Terminated(Sanitized(Suffix(lbl)))
<1>1. Suffix(lbl) \in Strings
  BY SuffixTerminates
<1>2. Sanitized(Suffix(lbl)) \in Strings
  BY <1>1, WithoutIsString DEF Sanitized
<1>3. CASE lbl = << >>
  <2>1. Without(<< >>, Brackets) = << >>
    BY EmptyString, NothingDropped
  <2> QED
    BY <1>2, <1>3, <2>1 DEF Suffix, Sanitized, Terminated
<1>4. CASE lbl # << >>
  <2> DEFINE space == <<Space>>
             kept == Without(lbl, Brackets)
  <2>1. space \in Strings /\ Len(space) = 1 /\ space[1] = Space
    BY KeywordsAre, OneSymbolString
  <2>2. Without(space, Brackets) = space
    BY <2>1, KeywordsAre, WithoutOne DEF Brackets, Space
  <2>3. Suffix(lbl) = space \o lbl
    BY <1>4 DEF Suffix
  <2>4. kept \in Strings
    BY WithoutIsString
  <2> HIDE DEF space, kept
  <2>5. Sanitized(Suffix(lbl)) = space \o kept
    BY <2>1, <2>2, <2>3, WithoutBoth DEF SplitsWithout, Sanitized, kept
  <2>6. \A i \in 1..Len(space) : (space \o kept)[i] = space[i]
    BY <2>1, <2>4, Concatenation
  <2>7. (space \o kept)[1] = Space
    BY <2>1, <2>6
  <2> QED
    BY <1>2, <2>5, <2>7 DEF Terminated
<1> QED
  BY <1>3, <1>4

LEMMA StrippedFormIsSeen ==
  ASSUME NEW n \in Strings, NEW sd \in Side, NEW id \in Strings, NEW tail \in Strings,
         n # << >>, n[1] \notin Brackets
  PROVE  FormOf(Marked(StrippedForm, n, sd, id) \o tail) = StrippedForm
<1> DEFINE str == Marked(StrippedForm, n, sd, id) \o tail
<1>1. StrippedForm \in Forms
  BY DEF Forms
<1>2. str \in Strings /\ LaidOut(str, StrippedForm.open, n, StrippedForm.close, sd, id, tail)
  BY <1>1, Layout
<1> HIDE DEF str
<1>3. /\ Len(StrippedForm.open) = 1 /\ StrippedForm.open[1] = "NMOS"
      /\ Len(StrippedForm.close) = 1
  BY DEF StrippedForm
<1>4. Len(n) \in Nat /\ Len(n) >= 1 /\ Len(id) \in Nat /\ Len(tail) \in Nat
  BY EmptySeq, LenProperties DEF Strings
<1>5. /\ Len(str) = 1 + Len(n) + 1 + 2 + Len(id) + Len(tail)
      /\ \A i \in 1..1 : str[i] = StrippedForm.open[i]
      /\ \A i \in 1..Len(n) : str[1 + i] = n[i]
  BY <1>2, <1>3 DEF LaidOut
<1>6. Len(str) >= 2
  BY <1>4, <1>5
<1>7. str[1] = "NMOS"
  BY <1>3, <1>5
<1>8. str[2] = n[1]
  <2>1. 1 \in 1..Len(n) /\ 1 + 1 = 2
    BY <1>4
  <2> QED
    BY <1>5, <2>1
<1>9. str[2] # "(" /\ str[2] # "["
  BY <1>8 DEF Brackets
<1> QED
  BY <1>2, <1>6, <1>7, <1>9, FormBySecondSymbol DEF str

(***************************************************************************)
(* A name in the older spelling that the daemon has stripped of brackets   *)
(* is read as the ownership it was written with, if namespace and id have  *)
(* no brackets and the namespace no slash (parse_managed_name).            *)
(***************************************************************************)
THEOREM StrippedRoundTrip ==
  ASSUME NEW n \in Strings, NEW sd \in Side, NEW id \in Strings, NEW lbl \in Strings,
         Plain(n, id), Sanitized(n) = n, Sanitized(id) = id, ~Contains(n, <<"/">>)
  PROVE  parse_managed_name(Sanitized(Marked(LegacyForm, n, sd, id) \o Suffix(lbl)))
           = Owner(n, sd, id)
<1> DEFINE tail == Sanitized(Suffix(lbl))
<1>1. tail \in Strings /\ Terminated(tail)
  BY SuffixSanitized
<1> DEFINE whole == Suffix(lbl)
<1>2. whole \in Strings /\ tail = Sanitized(whole)
  BY SuffixTerminates
<1> HIDE DEF whole
<1>3. Sanitized(Marked(LegacyForm, n, sd, id) \o whole) = Marked(StrippedForm, n, sd, id) \o tail
  BY <1>2, LegacyNameStripped, SMTT(30)
<1> HIDE DEF tail
<1>4. n # << >> /\ id # << >> /\ ~Contains(id, <<Space>>)
  BY DEF Plain
<1>5. n[1] \notin Brackets
  <2>1. FreeOf(n, Brackets)
    BY UnchangedWithout DEF Sanitized
  <2>2. 1 \in 1..Len(n)
    BY <1>4, EmptySeq, LenProperties DEF Strings
  <2> QED
    BY <2>1, <2>2 DEF FreeOf
<1>6. FormOf(Marked(StrippedForm, n, sd, id) \o tail) = StrippedForm
  BY <1>1, <1>4, <1>5, StrippedFormIsSeen
<1>7. ReadsBack(Marked(StrippedForm, n, sd, id) \o tail, StrippedForm, n, sd, id)
  <2>1. StrippedForm \in Forms
    BY DEF Forms
  <2> QED
    BY <1>1, <1>6, <2>1, ReadBack
<1>8. StrippedForm.close = <<"/">>
  BY DEF StrippedForm
<1> QED
  BY <1>3, <1>4, <1>7, <1>8 DEF ReadsBack, whole

(***************************************************************************)
(* Older names, and stripped ones, are read as the ownership they were     *)
(* written with, in every state of the instance without its bounds.        *)
(***************************************************************************)
THEOREM OlderNamesAreReadBack == Spec => []OlderNamesAreRead
<1>1. ASSUME Typed, NEW sd \in Side, Plain(ns, nmos_id), ~Contains(ns, <<"]", "/">>)
      PROVE  parse_managed_name(Marked(LegacyForm, ns, sd, nmos_id) \o Suffix(label))
               = Owner(ns, sd, nmos_id)
  BY <1>1, LegacyRoundTrip DEF Typed
<1>2. ASSUME Typed, NEW sd \in Side, Plain(ns, nmos_id),
             Sanitized(ns) = ns, Sanitized(nmos_id) = nmos_id, ~Contains(ns, <<"/">>)
      PROVE  parse_managed_name(Sanitized(Marked(LegacyForm, ns, sd, nmos_id) \o Suffix(label)))
               = Owner(ns, sd, nmos_id)
  BY <1>2, StrippedRoundTrip DEF Typed
<1>3. Typed => OlderNamesAreRead
  BY <1>1, <1>2, Zenon DEF OlderNamesAreRead, Owner, Suffix
<1> QED
  BY <1>3, StringsAreTyped, PTL
=============================================================================
