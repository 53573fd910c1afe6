---------------------------- MODULE ConfigStream ----------------------------
(***************************************************************************)
(* CProConfigStream (src/src/pro/pro_util/pro_config_stream.cpp): the text *)
(* format of configuration lists and the in-memory stream that groups      *)
(* values by name.                                                         *)
(*                                                                         *)
(* BufToConfigs and ConfigsToString are pure operators over byte strings   *)
(* (sequences of byte values 0..255).  The parser reads the buffer through *)
(* "const char*", so every byte is converted to a char before it is        *)
(* compared; whether char is signed is the build's choice (CharIsSigned).  *)
(*                                                                         *)
(* The stream object has no lock and is used by one thread; its state is   *)
(* m_name2Configs, m_name2Index and m_nextIndex, and each method is one    *)
(* step.  The history variable log is what the stream was given: the       *)
(* items added, in order, without those of names removed since.            *)
(***************************************************************************)
EXTENDS Integers, Sequences, FiniteSetsExt

SE == INSTANCE SequencesExt

CONSTANTS
  CharIsSigned, \* the build's char is signed (x86, MSVC) or not (ARM Linux)
  Names,        \* configuration names the application uses (byte strings)
  Values,       \* configuration values it uses (byte strings)
  MaxItems,     \* bound: items the stream holds
  MaxIndex      \* bound: m_nextIndex

ASSUME CharIsSigned \in BOOLEAN /\ MaxItems \in Nat /\ MaxIndex \in Nat

VARIABLES
  name2Configs, \* m_name2Configs: name -> the items added under it, in order
  name2Index,   \* m_name2Index: name -> the order of its first Add
  nextIndex,    \* m_nextIndex
  log           \* history: the items added, without the names removed

vars == <<name2Configs, name2Index, nextIndex, log>>

-----------------------------------------------------------------------------
(* Characters and the conversion of a buffer byte to char. *)
LF == 10
CR == 13
Space == 32
Tab == 9
Quote == 34
Hash == 35
Slash == 47
Semicolon == 59
Bom == <<\hEF, \hBB, \hBF>>

Char(b) == IF CharIsSigned /\ b >= 128 THEN b - 256 ELSE b

At(buf, k) == Char(buf[k])

(* A PRO_CONFIG_ITEM: configName and configValue. *)
Item(n, v) == [configName |-> n, configValue |-> v]

(* The first index in i..j whose char is not in the set w, or j + 1. *)
SkipFwd(buf, i, j, w) ==
  LET ks == {k \in i..j : At(buf, k) \notin w} IN IF ks = {} THEN j + 1 ELSE Min(ks)

(* The last index in i..j whose char is not in w, or i - 1. *)
SkipBack(buf, i, j, w) ==
  LET ks == {k \in i..j : At(buf, k) \notin w} IN IF ks = {} THEN i - 1 ELSE Max(ks)

(* The end of the line starting at i: its CR or LF, taking the LF after    *)
(* it too ("\r\n", and also "\n\n"), or the last byte of the buffer.       *)
LineEnd(buf, i) ==
  LET r == SkipFwd(buf, i, Len(buf), Int \ {CR, LF})
  IN CASE r > Len(buf)                          -> Len(buf)
       [] r < Len(buf) /\ At(buf, r + 1) = LF   -> r + 1
       [] OTHER                                 -> r

(* A "//", "#" or ";" comment begins at p. *)
IsComment(buf, p, q) ==
  \/ p + 1 <= q /\ At(buf, p) = Slash /\ At(buf, p + 1) = Slash
  \/ At(buf, p) \in {Hash, Semicolon}

(* One pass of the "for (int i = 0; i < 2; ++i)" loop from p: the quoted   *)
(* text, and where the next field starts, or 0 (p = NULL) if only blanks   *)
(* or a comment follow; ok is FALSE for a corrupt field.                   *)
Field(buf, p, q) ==
  LET r == SkipFwd(buf, p + 1, q, Int \ {Quote})
      n == SkipFwd(buf, r + 1, q, {Space, Tab})
  IN CASE At(buf, p) # Quote \/ p + 1 > q \/ r > q ->
            [ok |-> FALSE, text |-> <<>>, next |-> 0]
       [] n > q \/ IsComment(buf, n, q) ->
            [ok |-> TRUE, text |-> SubSeq(buf, p + 1, r - 1), next |-> 0]
       [] OTHER ->
            [ok |-> TRUE, text |-> SubSeq(buf, p + 1, r - 1), next |-> n]

(* The item of a non-blank, non-comment line p..q: a name alone is an item *)
(* with an empty value; anything after the value makes the line corrupt.   *)
LineItem(buf, p, q) ==
  LET f1 == Field(buf, p, q)
      f2 == Field(buf, f1.next, q)
  IN CASE ~f1.ok            -> [ok |-> FALSE]
       [] f1.next = 0       -> [ok |-> TRUE, item |-> Item(f1.text, <<>>)]
       [] ~f2.ok \/ f2.next # 0 -> [ok |-> FALSE]
       [] OTHER             -> [ok |-> TRUE, item |-> Item(f1.text, f2.text)]

(* The "while (itr <= end)" loop of BufToConfigs from index itr, bom being *)
(* whether the first line was seen; configs holds the items so far, and    *)
(* stays as it is when a corrupt line stops the loop.                      *)
RECURSIVE ParseLines(_, _, _, _)
ParseLines(buf, itr, bom, configs) ==
  IF itr > Len(buf) THEN [ok |-> TRUE, configs |-> configs]
  ELSE
    LET q0 == LineEnd(buf, itr)
        p0 == IF ~bom /\ itr + 2 <= q0 /\ At(buf, itr) = Bom[1]
                 /\ At(buf, itr + 1) = Bom[2] /\ At(buf, itr + 2) = Bom[3]
              THEN itr + 3 ELSE itr
        p  == SkipFwd(buf, p0, q0, {Space, Tab, CR, LF})
        q  == SkipBack(buf, p, q0, {Space, Tab, CR, LF})
        li == LineItem(buf, p, q)
    IN CASE p > q \/ IsComment(buf, p, q) ->
              ParseLines(buf, q0 + 1, TRUE, configs)
         [] ~li.ok -> [ok |-> FALSE, configs |-> configs]
         [] OTHER  -> ParseLines(buf, q0 + 1, TRUE, Append(configs, li.item))

(* CProConfigStream::BufToConfigs, and StringToConfigs on a std::string. *)
BufToConfigs(buf) == ParseLines(buf, 1, FALSE, <<>>)

(* Mutant of ConfigsToString: the line feed after each line is left out. *)
ConfigsToStringNoLF(configs) ==
  SE!FoldLeft(LAMBDA s, c : s \o <<Quote>> \o c.configName \o <<Quote, Quote>>
                           \o c.configValue \o <<Quote>>, <<>>, configs)

(* CProConfigStream::ConfigsToString: one "name""value" line per item. *)
ConfigsToString(configs) ==
  SE!FoldLeft(LAMBDA s, c : s \o <<Quote>> \o c.configName \o <<Quote, Quote>>
                           \o c.configValue \o <<Quote, LF>>, <<>>, configs)

-----------------------------------------------------------------------------
(* The stream object. *)

(* CProConfigStream::CProConfigStream *)
Init ==
  /\ name2Configs = <<>> /\ name2Index = <<>> /\ nextIndex = 0
  /\ log = <<>>

(* The map f with key n bound to v (std::map::operator[] on a new key). *)
Bind(f, n, v) == [k \in DOMAIN f \cup {n} |-> IF k = n THEN v ELSE f[k]]

(* Mutant of AddOne: every Add re-indexes the name. *)
AddOneReindex(s, c) ==
  LET n == c.configName IN
  [name2Configs |-> IF n \in DOMAIN s.name2Configs
                    THEN [s.name2Configs EXCEPT ![n] = Append(@, c)]
                    ELSE Bind(s.name2Configs, n, <<c>>),
   name2Index |-> Bind(s.name2Index, n, s.nextIndex),
   nextIndex |-> s.nextIndex + 1]

(* CProConfigStream::Add(configName, configValue): the item joins its      *)
(* name's list; a name not yet indexed takes m_nextIndex.                  *)
AddOne(s, c) ==
  LET n == c.configName IN
  [name2Configs |-> IF n \in DOMAIN s.name2Configs
                    THEN [s.name2Configs EXCEPT ![n] = Append(@, c)]
                    ELSE Bind(s.name2Configs, n, <<c>>),
   name2Index |-> IF n \in DOMAIN s.name2Index THEN s.name2Index
                  ELSE Bind(s.name2Index, n, s.nextIndex),
   nextIndex |-> IF n \in DOMAIN s.name2Index THEN s.nextIndex ELSE s.nextIndex + 1]

Stream == [name2Configs |-> name2Configs, name2Index |-> name2Index,
           nextIndex |-> nextIndex]

SetStream(s, added) ==
  /\ name2Configs' = s.name2Configs /\ name2Index' = s.name2Index
  /\ nextIndex' = s.nextIndex
  /\ log' = log \o added

(* Add(configName, configValue), Add(config), and the overloads taking a   *)
(* vector, which call Add for each element in order; the inputs are lists  *)
(* of one or two items.                                                    *)
Add ==
  \E configs \in {<<Item(n, v)>> : n \in Names, v \in Values}
                 \cup {<<Item(n, v), Item(m, w)>> : n, m \in Names, v, w \in Values} :
    /\ Len(log) + Len(configs) <= MaxItems
    /\ nextIndex + Len(configs) <= MaxIndex
    /\ SetStream(SE!FoldLeft(AddOne, Stream, configs), configs)

(* Mutant of Remove: the name's index is kept. *)
RemoveKeepIndex ==
  \E n \in Names :
    /\ name2Configs' = [k \in DOMAIN name2Configs \ {n} |-> name2Configs[k]]
    /\ UNCHANGED <<name2Index, nextIndex>>
    /\ log' = SelectSeq(log, LAMBDA c : c.configName # n)

(* CProConfigStream::Remove(configName): both maps forget the name. *)
Remove ==
  \E n \in Names :
    /\ name2Configs' = [k \in DOMAIN name2Configs \ {n} |-> name2Configs[k]]
    /\ name2Index' = [k \in DOMAIN name2Index \ {n} |-> name2Index[k]]
    /\ UNCHANGED nextIndex
    /\ log' = SelectSeq(log, LAMBDA c : c.configName # n)

(* CProConfigStream::Clear: both maps are emptied; m_nextIndex is kept. *)
Clear ==
  /\ name2Configs' = <<>> /\ name2Index' = <<>>
  /\ UNCHANGED nextIndex
  /\ log' = <<>>

Next == Add \/ Remove \/ Clear

Spec == Init /\ [][Next]_vars

(* CProConfigStream::Get(configName, configValues) over Get_i: the values  *)
(* of the name, in the order they were added.                              *)
GetValues(n) ==
  IF n \in DOMAIN name2Configs
  THEN [i \in DOMAIN name2Configs[n] |-> name2Configs[n][i].configValue]
  ELSE <<>>

(* CProConfigStream::Get(configValue): the first value, or "". *)
GetValue(n) == IF GetValues(n) = <<>> THEN <<>> ELSE Head(GetValues(n))

(* CProConfigStream::Get(configs): the names ordered through index2Name    *)
(* (the inverse of m_name2Index, sorted by index), each name's items in    *)
(* the order they were added.                                              *)
GetAll ==
  LET byIndex == SE!SetToSortSeq(DOMAIN name2Index,
                              LAMBDA a, b : name2Index[a] < name2Index[b])
  IN SE!FlattenSeq([i \in DOMAIN byIndex |-> name2Configs[byIndex[i]]])

(* CProConfigStream::ToString *)
ToString == ConfigsToString(GetAll)

-----------------------------------------------------------------------------
TypeOK ==
  /\ DOMAIN name2Configs = DOMAIN name2Index
  /\ \A n \in DOMAIN name2Index : name2Index[n] \in 0..(nextIndex - 1)
  /\ nextIndex \in 0..MaxIndex

(* The grouping that Get(configs) promises (spec 6, "lists repeat the      *)
(* name"): the names in the order of their first item still held, each     *)
(* followed by all its items in the order they were added.                 *)
Grouped(items) ==
  LET firsts == SelectSeq([i \in DOMAIN items |-> i],
                  LAMBDA i : \A j \in 1..(i - 1) :
                               items[j].configName # items[i].configName)
  IN SE!FlattenSeq([k \in DOMAIN firsts |->
                   SelectSeq(items, LAMBDA c :
                               c.configName = items[firsts[k]].configName)])

(* Get(configs) returns every item the stream was given and not removed,   *)
(* grouped by name in the order the names first appear, through any order  *)
(* of Add, Remove and Clear calls (m_name2Index must be dropped and        *)
(* re-issued with the name).                                               *)
GetMatchesLog == GetAll = Grouped(log)

(* Spec 8: BufToConfigs(ConfigsToString(xs)) == xs for well-formed lists:  *)
(* what ToString writes, StringToConfigs reads back as Get returns it.     *)
StreamRoundTrip == BufToConfigs(ToString) = [ok |-> TRUE, configs |-> GetAll]

(* Spec 6: a UTF-8 BOM before the text is tolerated: the file ToString     *)
(* wrote, saved with a BOM, reads back the same.                           *)
BomTolerated ==
  BufToConfigs(Bom \o ToString) = [ok |-> TRUE, configs |-> GetAll]
=============================================================================
