---------------------------- MODULE ConfigStore ----------------------------
(***************************************************************************)
(* IniDocument (dsbox_ini), PersistentConfigStore (dsbox_config), and how    *)
(* the adb tool and the launcher save their configuration.                  *)
(*                                                                         *)
(* A text is a sequence of lines: comments, section headers and entries     *)
(* that are well formed; names and values have no line breaks and no blanks *)
(* around them.  The file of overrides is any text up to a bound; then      *)
(* values are set, the host saves, and the program may end and be started   *)
(* again at any point.  The defaults are never changed and left out.        *)
(*                                                                         *)
(* External: the file, which writing to does not fail once it is open.      *)
(***************************************************************************)
EXTENDS Naturals, Sequences, SequencesExt, FiniteSetsExt

CONSTANTS Sections,        \* names of sections, without the default one
          Keys, Values,
          MaxLines,        \* bound: lines of the file at first
          MaxSets,         \* bound: calls of set()
          Modes,           \* the modes a save is made in
          SetsWhileSaving  \* set() is called while a save is under way

\* Assumed of the constants.
ConfigConstants ==
    /\ MaxLines \in Nat /\ MaxSets \in Nat /\ SetsWhileSaving \in BOOLEAN
    /\ "" \notin Sections /\ Modes \subseteq {"Regenerate", "PreserveFormatting"}

VARIABLES file,       \* the overrides file: a text
          store,      \* the overrides in memory: a document
          original,   \* the text the store was loaded with
          dirty,
          sets,       \* calls of set() so far
          saving      \* the save under way: how far it is, and the text it writes

vars == <<file, store, original, dirty, sets, saving>>

-----------------------------------------------------------------------------
\* A document: the sections that have a header or the default one, in order, and
\* their entries, each section's in order.
Header(s)   == [is |-> "header", name |-> s]
Entry(k, v) == [is |-> "entry", key |-> k, value |-> v]
Comment     == [is |-> "comment"]
Lines       == {Comment} \cup {Header(s) : s \in Sections}
                         \cup {Entry(k, v) : k \in Keys, v \in Values}
EmptyDocument == [sections |-> <<"">>, entries |-> <<>>]

Where(d, s, k) == SelectInSeq(d.entries, LAMBDA e : e.section = s /\ e.key = k)
HasKey(d, s, k) == Where(d, s, k) # 0
Get(d, s, k) == d.entries[Where(d, s, k)].value
HasSection(d, s) == s \in ToSet(d.sections)
In(d, s) == SelectSeq(d.entries, LAMBDA e : e.section = s)
\* What a document says, without the order.
Meaning(d) == ToSet(d.entries)

\* IniDocument::parse(): a section or a key that comes twice is an error.
Failed == [sections |-> <<>>, entries |-> <<>>]
ParseLine(d, line) ==
    IF d = Failed \/ line = Comment THEN d
    ELSE IF line.is = "header"
    THEN IF HasSection(d, line.name) THEN Failed
         ELSE [d EXCEPT !.sections = Append(@, line.name)]
    ELSE IF HasKey(d, d.sections[Len(d.sections)], line.key) THEN Failed
         ELSE [d EXCEPT !.entries = Append(@, [section |-> d.sections[Len(d.sections)],
                                               key |-> line.key, value |-> line.value])]
Parse(text) == FoldLeft(ParseLine, EmptyDocument, text)

\* A mutated form: a section is entered for every new key.
OneMoreSection(d, s) == Append(d.sections, s)
WithSection(d, s) == IF HasSection(d, s) THEN d.sections ELSE Append(d.sections, s)
\* IniDocument::set()
SetEntry(d, s, k, v) ==
    IF HasKey(d, s, k) THEN [d EXCEPT !.entries[Where(d, s, k)].value = v]
    ELSE [sections |-> WithSection(d, s),
          entries |-> Append(d.entries, [section |-> s, key |-> k, value |-> v])]

\* IniDocument::serialize(): a section without entries is left out.
EntryLines(entries) == [i \in DOMAIN entries |-> Entry(entries[i].key, entries[i].value)]
HeaderLines(s) == IF s = "" THEN <<>> ELSE <<Header(s)>>
Serialize(d) ==
    FlattenSeq([i \in DOMAIN d.sections |->
        LET s == d.sections[i] IN
        IF In(d, s) = <<>> THEN <<>> ELSE HeaderLines(s) \o EntryLines(In(d, s))])

\* patchOverridesText(): values are replaced where they stand; what is new goes
\* to the end of the text, under a header when its section is new.
SectionAt(text, i) ==
    LET headers == {j \in 1 .. i : text[j].is = "header"} IN
    IF headers = {} THEN "" ELSE text[Max(headers)].name
PatchLine(text, i, d) ==
    LET line == text[i] IN
    IF line.is = "entry" /\ HasKey(d, SectionAt(text, i), line.key)
    THEN Entry(line.key, Get(d, SectionAt(text, i), line.key)) ELSE line
\* A mutated form: what was replaced is appended too.
AllIn(before, d, s) == In(d, s)
NewIn(before, d, s) == SelectSeq(In(d, s), LAMBDA e : ~HasKey(before, s, e.key))
Appended(before, d) ==
    FlattenSeq([i \in DOMAIN d.sections |->
        LET s == d.sections[i]
            new == NewIn(before, d, s)
        IN IF new = <<>> THEN <<>>
           ELSE (IF HasSection(before, s) THEN <<>> ELSE HeaderLines(s)) \o EntryLines(new)])
Patch(text, d) ==
    [i \in DOMAIN text |-> PatchLine(text, i, d)] \o Appended(Parse(text), d)

-----------------------------------------------------------------------------
\* load() of a file that can be parsed.
Texts == UNION {[1 .. n -> Lines] : n \in 0 .. MaxLines}
Idle == [at |-> "none", text |-> <<>>]
Load ==
    /\ Parse(file) # Failed
    /\ store' = Parse(file) /\ original' = file /\ dirty' = FALSE
Init ==
    /\ file \in {t \in Texts : Parse(t) # Failed}
    /\ store = Parse(file) /\ original = file
    /\ dirty = FALSE /\ sets = 0 /\ saving = Idle

Set(s, k, v) ==
    /\ sets < MaxSets /\ (saving = Idle \/ SetsWhileSaving)
    /\ sets' = sets + 1
    /\ store' = SetEntry(store, s, k, v) /\ dirty' = TRUE
    /\ UNCHANGED <<file, original, saving>>

\* The host: if isDirty(), serializeOverrides(), open the file, which empties it, write
\* and markSaved(); a file that cannot be opened leaves the store dirty.
Serialized(mode) == IF mode = "Regenerate" THEN Serialize(store) ELSE Patch(original, store)
SerializeOverrides(mode) ==
    /\ saving = Idle /\ dirty
    /\ saving' = [at |-> "opening", text |-> Serialized(mode)]
    /\ UNCHANGED <<file, store, original, dirty, sets>>
Open ==
    /\ saving.at = "opening" /\ saving' = [saving EXCEPT !.at = "writing"]
    /\ file' = <<>>
    /\ UNCHANGED <<store, original, dirty, sets>>
\* A mutated form: what could not be written is marked saved.
SavedAnyway == dirty' = FALSE
StaysDirty == UNCHANGED dirty
OpenFails ==
    /\ saving.at = "opening"
    /\ saving' = Idle /\ StaysDirty
    /\ UNCHANGED <<file, store, original, sets>>
MarkSaved ==
    /\ saving.at = "writing" /\ saving' = [saving EXCEPT !.at = "closing"]
    /\ dirty' = FALSE
    /\ UNCHANGED <<file, store, original, sets>>
\* The stream keeps what is written, hands some of it on when it likes and the rest
\* when it is closed, which is after markSaved().
Flush ==
    /\ saving.at \in {"writing", "closing"}
    /\ \E n \in Len(file) + 1 .. Len(saving.text) : file' = SubSeq(saving.text, 1, n)
    /\ UNCHANGED <<store, original, dirty, sets, saving>>
Close ==
    /\ saving.at = "closing" /\ saving' = Idle
    /\ file' = saving.text
    /\ UNCHANGED <<store, original, dirty, sets>>
\* The program ends, at any point, and another loads the file.
Restart == Load /\ saving' = Idle /\ UNCHANGED <<file, sets>>

Next ==
    \/ \E s \in Sections \cup {""}, k \in Keys, v \in Values : Set(s, k, v)
    \/ \E mode \in Modes : SerializeOverrides(mode)
    \/ Open \/ OpenFails \/ MarkSaved \/ Flush \/ Close \/ Restart
Spec == Init /\ [][Next]_vars

-----------------------------------------------------------------------------
\* Every key is once in its section, and every entry's section is there.
TypeOK ==
    /\ dirty \in BOOLEAN /\ saving.at \in {"none", "opening", "writing", "closing"}
    /\ \A i, j \in DOMAIN store.entries :
         /\ HasSection(store, store.entries[i].section)
         /\ i # j => store.entries[i].section # store.entries[j].section
                     \/ store.entries[i].key # store.entries[j].key

\* What the store says when it is not dirty, the file says, once the save is through:
\* nothing that was set is taken for saved and never written.
SavedMeansSaved == ~dirty /\ saving = Idle => Meaning(Parse(file)) = Meaning(store)
\* A text that is written anew is what the next load() finds.
Regenerated == Meaning(Parse(Serialize(store))) = Meaning(store)
\* In the other mode the values that have a line are found again, on the same
\* line of the same text: comments and headers are as they were.
PatchInPlace ==
    LET patched == Patch(original, store) IN
    /\ Len(patched) >= Len(original)
    /\ \A i \in DOMAIN original :
         IF original[i].is # "entry" THEN patched[i] = original[i]
         ELSE patched[i] = Entry(original[i].key, Get(store, SectionAt(original, i), original[i].key))
\* What has no line yet is found again if it is of the last section of the text,
\* or of one that is new.
AtTheEnd(s) == ~HasSection(Parse(original), s) \/ s = SectionAt(original, Len(original))
PatchRestoresEnd ==
    (\A i \in DOMAIN store.entries :
        LET e == store.entries[i] IN
        HasKey(Parse(original), e.section, e.key) \/ AtTheEnd(e.section))
    => Meaning(Parse(Patch(original, store))) = Meaning(store)

Inv == TypeOK /\ SavedMeansSaved /\ Regenerated /\ PatchInPlace /\ PatchRestoresEnd

\* persistent_config_store.cpp: "new keys in an existing section are appended
\* after that section's original lines".
PatchRestores == Meaning(Parse(Patch(original, store))) = Meaning(store)
\* Appended at the end of the text instead, a key can come twice in the last section:
\* the next load() throws.
PatchLoads == Parse(Patch(original, store)) # Failed
=============================================================================
