# libmorph in TLA+

A verification development of libmorph, a morphological analyser of Russian (with
relatives for English and Ukrainian): TLA+ modules for the algorithms of the library and of
the builder of its dictionary, TLC configurations that check them on small dictionaries and
small buffers, and proofs of what matters most for dictionaries and buffers of any size.

The program is sequential: no threads, no messages, nothing persisted at run time. What
makes it hard is elsewhere:

* the library reads a **byte image** with cursors that nothing checks; it is right only if a
  builder, another program, wrote lengths, offsets and *orders* the way the reader's early
  exits expect them;
* the caller hands in **three arrays, each of which may be absent or too short**, filled in
  step by a callback deep inside a scan, whose failure must come out again through layers
  that only tell zero from not zero;
* an analysis **merges** what it finds into what it has just written;
* capital letters, postfixes, alternations and word parts are **packed into bits** and
  compared with short lists of constants.

Directories are those of the repository: `xmorph/` (the engine, templates), `rus/libdict/`
(the Russian library), `rus/buildic/`, `rus/makeich/`, `tfc/`, `tools/` (the builder),
`eng/libdict/` (the English library, an older engine of its own).

## 1. Inventory

### Parts and what they keep

| Part | State | Operations | What makes it right |
|---|---|---|---|
| Dictionary scan, `xmorph/scandict.h` | a stack of levels, each a cursor in the image and a count of children left | `LinearScanDict`, `RecursScanDict`, `RecursGetTrack` | asks about exactly the stems the word begins with, longest first; comes back from an offset to its stem; ends |
| Lists of stems, `xmorph/scanlist.h`, `gramlist.h` | cursor in a list, row of alternations, the meanings collected | `listLookup`, `listTracer`, `gramBuffer` | reports every reading the grammar allows, once; may stop early only if the order lets it |
| Capitals, `xmorph/capsheme.*`, `rus/libdict/chartype.cpp` | scheme under construction, state of the current part, output position | `GetCapScheme`, `SetCapScheme`, `GetMinScheme`, `IsGoodSheme` | accepts a stem exactly in its admissible capitalisations; reads back what it writes |
| Lemmatization, `doLemmatize` in `xmorph/lemmatiz.*` | three output positions, count, error | `Lemmatize`, `InsertStem` | nothing cut, nothing overwritten, count or the right failure |
| Form building, `doBuildForm`, `xmorph/flexmake.*` | output position, request, count, error | `BuildForm`, `FindForms`, `InsertStem` | every form asked for, whole, or a failure |
| Checks, `doCheckWord`, `doGetWdInfo` | none | `CheckWord`, `GetWdInfo` | first reading decides |
| Grammar tables, `xmorph/grammap.h`, `rus/libdict/mlmadefs.h` | none | `MapWordInfo`, `GetWordInfo`, `GetSwapLevel`, `GetNormalInfo` | form identifiers and grammar bits are inverse |
| Wildcards, `xmorph/wildscan.*` | set of next characters; collected forms | `CheckHelp`, `EnumWords` | exactly the words that match |
| Library interface, `rus/libdict/mlmamain.cpp`, `rus/include/mlma1049.h` | code page, reference count | the interface, loaders, wide-character wrapper, vector helpers | early returns and code pages lose nothing; objects are freed |
| Character tree, `tools/wordtree.h`, `serialize.h`, `xmorph/typedefs.h` | nodes, ordered vectors of children, elements | `Insert`, `GetBufLen`, `Serialize`, `Enumerate` | children in falling order, one tree, lengths and offsets to the byte |
| Dictionary builder, `tools/buildmorph.h`, `rus/buildic/makerus.cpp` | stem tree, index of lexemes | `DictReader`, `CreateDict` | lists in the reader's order; the index leads to the lexeme |
| Inflection classes, `rus/buildic/lresolve.cpp`, `mtables.cpp`, `rus/makeich`, `tools/ftables.h`, `classtable.h` | tables | `ResolveClassInfo`, `StripStr`, `Find`, `GetMinMaxChar`, `addstep` | a line becomes the stem whose forms are the line's; bounds cover every form of a class |
| Table compilers, `tfc/`, `tools/sourcefile.h`, `plaintable.h` | line-oriented parsers | `MapInfo`, `MakeTab`, `Insert` | a form gets the description its line gives it |
| English library, `eng/libdict/` | pages of nodes with back references, an index of lexemes; per call three arrays or a list of forms | `Lemmatize`, `BuildForm`, `ListForms`, `CheckWord`, `CheckHelp`, `EnumWords`, `GetWordInfo`, `GetClassRef`, `GetTypeInfo` | what each call tells is what the stems say |
| Dumpers, `mapidl`, `dicdump`, PHP bindings | none | | |
| Ukrainian library `ukr/` | as the Russian one | | |

### How they interact

    caller --> Lemmatize / CheckWord / FindForms
                 |  GetCapScheme: word --> small letters + scheme
                 |  LinearScanDict over stemtree  --offers lists-->  listLookup
                 |                                                     |  LinearScanDict over a table
                 |                                                     |  of endings --> gramBuffer
                 |                                                     v
                 |                         InsertStem of doLemmatize / doCheckWord / doBuildForm
                 v
               count, or the failure the actor left behind

    caller --> BuildForm / GetWdInfo: lexeme --> LinearScanDict over lidstree --> offset
                 --> RecursGetTrack over stemtree --> listTracer --> InsertStem

    builder:   DictReader --> ResolveClassInfo --> Insert in stemtree, entry in order
               CreateDict --> GetBufLen --> Enumerate --> lidstree --> Serialize both

Calls go down; the only way up is what a callback returns (zero: go on) and the fields it
leaves in the actor. The only state shared by builder and library is the image.

### What is hard to test

`PROJECT.json` lists the hazards at their lines. In groups: arrays that fill up in the
middle of a stem; stores made relative to a pointer that has moved; a failure that becomes
zero on its way; early exits (of the scan, the list, the rows) that trust an order made
elsewhere; offsets and lengths computed by three traversals that must agree; zero bytes in
keys against zero as "end of word"; bits that run over the byte they are packed into; and
loops whose increments are skipped by `continue`.

## 2. Modules

Every module names the code it translates in its comments; `PROJECT.json` maps each
definition to its lines. Operators that follow a comment beginning "altered:" are not part
of the models: each is a plausible bug put in the place of a definition to see that a
property notices.

**LemmaCount**, abstract: what the caller of `Lemmatize` is promised about its answer.

**Lemmatizer**: `CMlmaMb::Lemmatize` and `doLemmatize::InsertStem`. Variables are the
actor's fields: positions in the three arrays, `nlemma`, `nerror`. One action for each way
out of `InsertStem`: `NoSlot`, `NoFormRoom`, `NoGramRoom`, `Register`, `Merge`. An absent
array is `NoBuffer`. The stems the scan reports are any sequence of at most `MaxHits`
elements: lexeme, length of the normal form, list of form identifiers. Kept as the code
has it: a merge looks for form 0 whatever the meaning at hand (`gramBuffer` always stores
zero); a full array of normal forms is filled to its end before the failure when the code
page is 1251, and left alone otherwise; a merge stores `ngrams` one description too far.
**LemmatizerProofs** holds its theorems.

**WordTree**: `wordtree::Insert`, one step for each level of the recursion, on nodes named
by their paths. **TreeScanProofs** holds its theorems too.

**TreeImage** (extends WordTree): `GetBufLen`, `Serialize`, `Enumerate`, the numbers of
variable length, the elements of the Russian stem tree, the offsets `CreateDict` stores in
the index; and the readers: children of a node, `RecursGetTrack`, `listTracer`. The code recurses
in a loop over the children of a node; here each function is a recursive function of the state of
that loop, a node and how many of its children have been passed. In the index the model counts
children and flags in two bytes, as the code does, and gives its nodes the same lists as those of
the stems: what a list is made of does not matter to the scan. `LengthsAgree` and `IndexLeadsHome`
speak of the tree, not of the scan, so they are stated here. **TreeScanProofs** holds their theorems.

**PrefixSearch**, abstract: the stems a word begins with, longest first, until one is
accepted. **ScanCall** (extends WordTree): the words looked up and the actors asked, which
accept or refuse at will (stems), or accept where no characters are left (the index of
lexemes). The memory behind the end of a word is any character; a `size_t` is a number
modulo `SizeMod`. **TreeScan** (extends ScanCall): `LinearScanDict` over the nodes of the
tree; a level is a node, the character looked for and how many children have been passed.
**DictScan** (extends TreeImage, which extends ScanCall): the same function over the bytes
of the saved tree; a level is the record `scan_stack` is. Keys of stems or of the index are
inserted in any order, the tree is saved, the scan reads what was saved; the loop of
`findchar` is a recursive function of the level. DictScan implements TreeScan, TreeScan
implements PrefixSearch, both proved in **TreeScanProofs**: the bytes are where cursors and
lengths can go wrong, the nodes are where the order of the search can.

**GrammarNumbers**: the numbers of forms (`MapWordInfo`), the way back to a description
(`GetWordInfo`) and the level of alternation (`GetSwapLevel`). Descriptions are sets of bits,
numbers are bytes. **GrammarForms** (extends it): from the words of a line in a table of endings
to the description of a form (`MapInfo`, `MapLine`), and the endings and descriptions a table
makes with those it links to (`CreateTree`, recursive). **GrammarMap** (extends
GrammarNumbers): a call is `Lemmatize` and then `BuildForm` for the number it gave, through the
endings `FlexCollector` takes, or `BuildForm` for any number. The tables of endings are a
parameter, `PlainTable`: what a verb, an adjective and a noun may have in their descriptions is
its assumption (`OfVerb`, `OfAdjective`, `OfNoun`, `OneKind`); the run compiles the tables with
GrammarForms. **GrammarProofs** holds its theorems.

**StemEntries**: what a stem in a list is, its bounds `chrmin` and `chrmax` as
`Alternator::GetMinMaxChar` computes them, and `entry_type::compare`. Shared by the three
modules below and by Wildcards and EngDict.

**StemList**: the list at one node. The builder inserts the stems that end at the node in
any order; the reader is `listLookup`, one action for each way through its body
(`OtherPost`, `Cut`, `TooEarly`, `WrongCaps`, `Fixed`, `Plain`, `Mixed`, `LookAtRow`).
Endings are a set of texts with the number and the level of alternation the grammar gives
them: `FilterGram` chooses among them. **StemListProofs** holds its theorems.

**ClassResolve**: how a line of the dictionary becomes the stems StemList stores. The type
(`typesMap`), the tables of the class (`fxlist::Insert`, `set_conditions`), the ending of
the normal form taken off the headword through linked tables (`StripStr`), the alternation
found for what is left (`Find`) and cut off, the rows with their levels (`addstep`,
`Serialize`), the bounds of the endings, and `BuildStems` around it. Letters are the codes
of the code page, because the conditions of alternations are about letters; types and
conditions are transliterated names.

**Inflection** composes ClassResolve, GrammarForms and StemList: the stems of StemList are
those the lines are resolved to. Beside them it states the paradigm of a line by its
grammar alone: the ways a headword can be taken apart, and for each ending of the tables
the word it makes with the step of its level.

**Wildcards**: `CheckHelp` and `EnumWords` with the matchers and scanners below them, over a
dictionary given as the set of its stems. The scanners return the characters they
would put in the array, or the sequence of calls of the actor, who may stop at any of them.
What calls itself in the code is a recursive function over pairs of texts. What the scanners
are measured by, which words a pattern matches (`Matches`) and which words a stem has
(`WordsOf`), is defined without them. **WildcardsProofs** holds its theorems.

**EngDict**, **EngWild**, **EngLibrary**: the English library. EngDict has pages (tables of
nodes with back references), the choice of pages, the scan of a word and the jump to a
lexeme, capitals and their scheme; EngWild is its `CheckHelp`; EngLibrary the functions of
the interface and their actors, with the caller's arrays. A dictionary is a set of
stems as the builder laid them out in one page or two; the layout is built by the instance that is
checked and described by assumptions, since the page builder is not in the repository.

**CapScheme**: the two nested loops of `GetCapScheme` with the matrix of states, the
position in the output buffer and the scheme, `SetCapScheme`, `GetMinScheme` and the lists
of good schemes. A character is its kind, a number the set of its bits. Where the code
shifts by 32 and more the language leaves the result open; the part's bits are then those of
the shift taken modulo 32, as the processor does, or none. One caller asks about any word,
another about the forms the library writes itself. **CapSchemeProofs** holds its theorems.

**FormBuilder**: `BuildForm`, `FindForms` and `doBuildForm::InsertStem`. What the grammar
says of a stem (which numbers a form identifier has, how many forms of how many bytes) is
a parameter. The request that a preposition overwrites, the failure that gets lost and the
case that `listLookup` clears are kept. **FormBuilderProofs** holds its theorems.

**TextLemmas**: facts on numbers and sequences that several proofs need (a set of numbers
has a least element; how a text falls apart into a prefix and the rest; a recursion over
data of falling size has a solution; what holds of a sorted or a flattened list).

`MC*` modules give the constants for TLC.

## 3. Runs

All state spaces are finite and are explored to the end, most in seconds, none in more than two
minutes.
Every run but the four marked violation must pass.

| Run | Checks | Bounds, and why they are enough |
|---|---|---|
| `lemmatize` | types; normal forms whole and apart (`FormsComplete`); ranges of meanings disjoint and of their own lexeme (`GramsOwned`); the failure names a full array (`ErrorNamesFullArray`); neighbours differ; the answer implements `LemmaCount` (`CountSpec`) | two lexemes, three stems: enough for register, merge, register; arrays absent, empty, too short at the first, second and third stem, in all combinations; 53,000 states. The theorems lift the bounds |
| `lemmatize_slots` (violation) | `SlotsInArray` | the same |
| `dictionary` | the tree's invariants (`TreeInv`); lengths and index agree with the readers (`LengthsAgree`, `IndexLeadsHome`); lookups in the index (`ExactLookup`); the scan over bytes implements the scan over nodes (`TreeScanSpec`) and, liveness included, `PrefixSearch` (`PrefixSpec`); `CallsEnd` | keys of stems with common beginnings, and keys of the index with zeros in them, inserted in every order; lists at inner nodes, a lexeme with several stems, a number of two bytes and an image longer than 127 bytes; words that leave the tree at each kind of place; 15,800 states. The theorems lift the bounds of everything but the liveness in `PrefixSpec` and `CallsEnd`; what is particular to the scan over bytes (cursors after numbers of one and two bytes, counts, flags) occurs here |
| `stem_list` | order of the list (`BoundsFall`); no reading invented, none twice (`CallsAreReadings`); none lost (`NoneLost`); a word is told the forms its line's paradigm has for it (`ParadigmRead`); `LookupEnds` | 29 lines over twelve tables of endings and seven of alternations, each with the shape of one in the repository. Nine lines end at one node, and every list of up to three of them is built in every order; the others meet each condition of an alternation, "//", "@", "=", ":", the indeclinable, the reflexive, an unknown type, a headword without the right ending. Rests are those of all words of all paradigms, read at every node. An early exit involves two stems: the one that cuts and the one behind it; 275,000 states, a minute and a half. The theorems lift the bounds of the list and its reader; the resolution of lines stays within them |
| `capitals` | the verdict is the reader's, and a refusal means the buffer is short (`VerdictByParts`); what is read can be written back (`WritesBack`); own forms are accepted (`OwnFormsAccepted`); `Answered` | all words of up to six characters, five parts for the scheme that runs over its byte, seventeen for the shift beyond it, all forms of up to eight; buffers that fill up before, at and behind a hyphen (3, 4, 10, 40); 48,000 states. The theorems lift the bounds |
| `capitals_sentence` (violation) | `CapitalizedAccepted` | the same words |
| `forms` | forms whole (`FormsWhole`), all of those asked for and no other, or no room for the next (`FormsComplete`) | six stems, one of each kind the code tells apart, up to three in a call, seven sizes of array; 38,000 states. The theorems lift the bounds |
| `forms_failure` (violation) | `BuildTellsFailure` | the same |
| `grammar` | a reading's number builds its own form (`BuildsBack`); a number builds no form of another number (`BuiltIsAsked`); building and reading choose the same row (`RowAgrees`) | fourteen kinds of words over nine tables in the shape of the repository's (second cases, both kinds, all participles, reflexive and joining forms), every description they give and all 256 numbers; 8,800 states. The theorems lift the bound on words and tables |
| `grammar_ranges` (violation) | `TensesNumbered` | the same |
| `wildcards` | `HelpExact`: the characters offered are those words have in the place of the wildcard; what is told matches (`ToldMatch`), what matches is told (`NoneUntold`) | dictionaries of one and two stems of eleven of every kind, on the root, on inner nodes and on leaves; every pattern of up to four characters over two letters, the hyphen and both wildcards, longer ones around a postfix, one too long; arrays of no, two and enough places; 303,000 states. The theorems lift the bounds |
| `english` | analyses (`EngReadings`), forms (`EngFormsBack`), wildcards (`EngHelp`), lexemes (`EngLexemes`) are what the stems say | 24 dictionaries: sets of four stems from a pool of thirteen of every kind, in one page and in two; words, patterns and lexemes in and out of the dictionary, sizes of arrays at each place where one runs full, a size that wraps at 16 bits; a list of forms with two places; 90,000 states |

Liveness. `CallsEnd`, `LookupEnds` and `Answered` assume weak fairness of the
steps of the call that runs (`Descend \/ Store`, `Step`, `Scan`) and of nothing else: one
thread executes the call, so its next step is taken. No fairness is assumed of callers.
`LemmaCount`'s and `PrefixSearch`'s steps are the code's; that every offer may be refused
is covered, since the actor's answer is a free choice.

### What the runs found

* **`SlotsInArray`**: when the caller's array of descriptions is full, another stem of the last lexeme
  skips the overflow check, because it is merged, and stores `ngrams` one description behind
  the array (`lemmatiz.cpp:155`). With room left the merged meanings are never added to
  their own description's count.
* **`CapitalizedAccepted`**: a part of one capital letter reads as a part in capitals, so a
  word such as "в-третьих" is not recognised at the head of a sentence: its scheme, 0x0202,
  is on no list. Names with a part of one letter are not recognised in the form the library
  writes.
* **`BuildTellsFailure`**: `listTracer` returns 1 plus the actor's failure, which is zero.
  `BuildForm` answers with the number of forms that fitted, 0 for instance; the titles of the
  library's own tests expect the failure.
* **`TensesNumbered`**: a gerund of the future has no person, and its number wraps to 2, the
  imperative's. The verb "быть" has one, "будучи", besides the same word in the present.

### Limits the properties name

Properties are stated as strongly as they hold; where the code does less than the ideal,
the exception is a named part of the property, and TLC confirms that it cannot be dropped.

* `NoneLost` excepts four classes of stems (`Losable` in `StemList`): a postfix after
  alternations, since the rows are compared with the postfix still on
  (`scanlist.h:149`); a rest that is the postfix alone behind a stem whose endings all begin
  below it (`scanlist.h:96`); alternations with an empty row whose bounds do not cover the
  endings' (`mtables.cpp:152-177`); endings outside the bounds of their own table, behind an
  optional link after an empty ending, which `GetMinMaxChar` does not follow
  (`ftables.h:179-184`). No stem of the dictionary in the repository was found to
  be in one of them (its 24 `post:` lines have no alternations; three tables have such a link,
  but only as parts of others), so these are not findings but conditions on the data.
* `ParadigmRead` speaks of the lines whose headword can be taken apart in one way only
  (`Clear`), an alternation with a condition of its own being preferred to the usual one. A
  headword behind an optional reflexive link is refused by `StripStr`: in the repository
  reflexive verbs have tables of their own. `Find` takes types 33 to 38 for verbs
  (`type & 0x1F`, `mtables.cpp:193`); no table of alternations belongs to one of them, apart
  from those with the usual condition, for which it makes no difference. A header of
  alternations whose classes have different lists already is an error of the compiler and not
  among the inputs.
* Wildcards: a stem that does not inflect is compared without its postfix (`Posted`), and
  `CheckHelp` does not look at postfixes at all; an asterisk never stands for nothing before a
  letter of a postfix (`StarInPost`, `wildscan.h:322`); the bounds hide the stems they hide
  from the lookup, and a postfix behind endings that are all empty, of which the list's reader
  compares the first letter with the upper bound, 0 (`Hidden`, `wildscan.h:238`); for an asterisk the children of a table are offered without
  looking whether the stem may have an ending below them. A pattern has a wildcard, as the
  code asserts. A lexeme may be told twice.
* English library: a normal form with a postfix has the wrong length unless a byte of its
  class happens to be right (`Miscounted`, `lemmatiz.cpp:283`); fixed stems are looked up
  without their postfix; words of four parts and more, and names with a part of one letter,
  are known only with the option that ignores capitals; with the option that stops after the
  first stem `Lemmatize` and `BuildForm` answer 0, because the actor is never called;
  `ListForms` wants a byte more than it writes and room for a form it has, cuts the size of
  the array to 16 bits and has 256 places; `CheckHelp` may take a word without its postfix, and
  offers too much for a question mark within a stem (`wildscan.cpp:238, 333`).
* `FormsComplete` (FormBuilder) promises nothing behind a preposition of the case asked for:
  the actor's request has become another (`lemmatiz.cpp:202`).
* `OwnFormsAccepted` excepts words of four parts and names with a part of one letter.
* `ErrorNamesFullArray` speaks of the array of normal forms only for code page 1251, where
  it is filled up before the failure.
* `BuildsBack` excepts the descriptions that have no number of their own (`Unnumbered`): the
  gerund above; the joining form of an adjective, which has no gender: its number, 248,
  is read as a reflexive plural, of which no adjective with a joining form has any; and the
  one form left of the numeral "обой" (`p_ms_6.tf`), which has none either.
* `BuiltIsAsked` excepts numbers of adjectives above 65, which `GetDefsInfo` accepts.

## 4. Proofs

The modules `LemmatizerProofs`, `TreeScanProofs`, `StemListProofs`, `CapSchemeProofs`,
`FormBuilderProofs`, `GrammarProofs`, `WildcardsProofs` and `TextLemmas` are checked by TLAPS to the last
leaf. Nothing is assumed but the named assumptions on the constants, which TLC evaluates in
every run. Each component has one theorem for its inductive invariant (checked by TLC before
it was proved) and one for each property that follows from it.

**Lemmatizer**, for any lexemes, any lengths of normal forms, any lists of meanings, arrays
of any size, any number of stems (`SizesAssumption`: sizes are natural numbers or
`NoBuffer`, a converted character takes at least one byte; `FlexAssumption`: a stem comes with at least
one meaning; `NoneAssumption`):

* `Types`: the type invariant, by one lemma for each way out of `InsertStem`. It includes
  that `nlemma` counts the descriptions when there is an array for them.
* `Forms`, `Meanings`, `Merging`, `Failures`: the four safety invariants, from the
  inductive invariant `LInv`, their conjunction with one more fact: descriptions never outnumber
  their array. Without it a state with more descriptions than slots could answer
  `LIDSBUFF_FAILED` for an array that is not exactly full. `GramsOwned` is inductive only
  together with the type invariant: it is the equality of the last range's end with the
  position reached that keeps the next range apart.
* `Counting`: Lemmatizer implements LemmaCount, `Spec => Count!Spec`. The step that needs the invariant is
  the merge: the abstract `last` is the lexeme of the last description, so a merge must be
  a stutter and a register a `Find` of another lexeme.

**WordTree**, for any alphabet within a byte and any set of keys (`CharsAssumption`,
`KeysAssumption`): `TreeInvariant` proves

    TreeInv == TreeTypeOK /\ Descending /\ Linked /\ ElementsAtKeys /\ OnTheWay

inductive, and `TreeTypes`, `Falling`, `OneTree` and `Elements` are its parts. `OnTheWay`
(the path reached and the characters still to go make up the key) is what `ElementsAtKeys`
lacks. The heart is `MissingIsNew`: a child not found where the loop stopped is not a node
at all. It needs the order (had the child been further on, the loop would have passed it)
and the link from nodes back to vectors; without it, emplacing could replace a subtree by
an empty one. `PlaceIsRight` shows that the loop's stopping place exists in every vector, from the
least element of a set of numbers; `EmplacedFalls` that emplacing there keeps the order.

**TreeScan**, for any alphabet and keys (`WordsAssumption`: a key or a word is shorter than
a `size_t` can tell; `StemsAreTexts`: stems hold no zero, the library's strings end with
one; `NoStemAssumption`), any words and any answers of the actor:

* `ScanInvariant`: `ScanInv`, that is the tree's `TreeInv`, with `Keyed` (every node is on
  the way to a key), `Shape` (the levels are one below the other along the characters
  found), `Behind` (a level has passed the child it went down to), `AskedBelow` (the stem asked
  about last lies at or below the scan, which is on its way up), `NonePassed` (a stem of the word
  deeper than the top level is still pending there or has been asked about) and `KeyAhead` (the
  same for the key of the index). `FindsWhatIsThere` is where the order of the children counts:
  the early exit stops at a child only when no later one can be the child looked for.
  `BeginningsAreNodes` brings a stem of the word back to the child of the top level, by the
  least of the lengths at which its beginnings are nodes.
* `ScanSearches`: `Spec => Search!SafeSpec`, the safety of PrefixSearch: offering is asking
  about the longest stem left, coming out above the root is giving up with none left.
* `LookupIsExact`: the index, whose keys hold zeros. It needs that a length below zero, taken modulo
  `SizeMod`, is never zero again within the tree (`SoughtHere`).

**TreeImage**, for any keys and any lists of entries (`EntriesAssumption`: lexemes are not zero, a
list is not empty, a postfix is shorter than 128 characters, where one byte of length and the
number of variable length are the same byte; `FewLetters`: the stems are written with fewer than
128 characters, so that a node's count stays below its flag, as `storecount` asserts,
`wordtree.h:41`; keys of the index are bytes, their count has 15 bits). The tree is the one of
TreeScan's `Spec`, which DictScan builds by the same steps; all that is needed of it is `Grown`, a
part of `ScanInv`: the tree is well formed and no deeper than its keys are long.

* `LengthsAgreeAlways` (`LengthsAgree`): the functions of the tree are what their definitions say
  (`SerialIs`, `SerialAtIs` and others, by `RecursionSolved`), which needs that each visit comes
  nearer to its end (`VisitStep`); `VisitInduction` then gives the length of what `Serialize` writes.
  For the reader, `Holds` says that bytes stand at an offset of an image; a child's length, image and
  element are found where `KidHeld` says, a number is read as it was written (`SerialRead`). The
  walk from any visit (`WalkFound`, by `WalkStep` from the last child back) comes to the end of
  the node's image, its calls name elements where their bytes are and one behind the other
  (`Listed`), and without an offset to look for they are those of `Enumerate`.
* `IndexLeadsHomeAlways` (`IndexLeadsHome`): the third part of `WalkFound`, that with an offset no
  call is lost whose element has it (`Kept`), because it lies in every child on the way.
  `LidsAre` says what the index holds, `TracedIs` that lists in front of the offset let the search
  go on and the list with the entry answers with its lexeme, once the walk offers it. That
  elements stand one behind the other is what keeps a wrong list from answering first.

**DictScan**, under the assumptions of TreeScan and TreeImage: `BytesImplementNodes`, that is
`Dict!Spec => Dict!TreeScanSpec`, where `Dict` is DictScan with its stack called `levels`. The
inductive invariant is `BytesInv`: what was saved is the image of the tree, a name in `stemAt` is
that of the element, and every level `Fits` the word and `Stands` at the node that the characters
found above it lead to. A level stands there when its flag is the node's, its cursor has passed
as many children as its count has lost, and the node is at home (`AtHome`): its bytes are there, and
what `Enumerate` acts on from there is part of what it acts on from the root.

* `FindCharIs` solves the recursion of `findchar`, and `FindsAlways` shows by induction on the
  children left that it finds what TreeScan's `Finds` says: `StopsNext` is one turn of the
  loop on the nodes, `StandsPassed` and `KidAtHome` that the cursor behind a child and the image of the
  child are where the tree has them. A level is not read again where the early exit left it, but its
  cursor is right even there.
* `ElementAtHome`: at the end of a node's children stands its element, and no other element has that
  offset, or the actor would be asked about another stem.
* The steps map one to one (`Builds`, `Saves`, `Starts`, `GoesDown`, `Offers`, `GoesUp`, `EndsUnfound`).
  In `GoesDown` two levels change: the one on top keeps its place in the mapping although its cursor
  moved on, and the path of the new one is the path above with one character more.

What is proved of TreeScan's steps therefore holds of DictScan's, its levels read as TreeScan's; of
`PrefixSpec` the fairness is left to TLC.

**StemList**, for any set of stems, rests and lists of any length (`StemsAssumption`: types;
`RowsAscend`: the rows of an alternation are in order, as `addstep` keeps them;
`PostsApart`: no ending or row has the first letter of a postfix, true because the 24 postfixes of the
repository's dictionaries begin with a hyphen and none of its 18,538 lines of endings and
rows has one). `ListInv` adds to the properties where the reader stands (`Placed`), that
stems passed have been told unless they are `Losable` (`PassedTold`), that rows passed have
(`RowsTold`), and that the calls name stems in the order of the list (`InOrder`). From it
`ListTyping`, `OrderTrusted` (the order the reader's exit relies on is kept by the insertion),
`CallsSound` (no reading invented or repeated) and `CallsComplete` (`NoneLost`).

**CapScheme**, for words of any length and buffers of any size up to 256 (`SizesAssumption`,
`byte_t locase[256]`, `mlmamain.cpp:163`; `WordsAssumption`: forms the library writes come from
headwords, none of which begins, ends with or doubles a hyphen). `CapInv` says that the output is the small
letters of what was passed (`Copied`), what a state of the matrix tells of the letters of the
current part (`Position`), that the scheme holds the marks of the parts closed, while they are fewer than
sixteen (`SchemeSoFar`), what the answer is (`Told`) and the scheme of an own form
(`Written`). From it `CapTyping`, `Verdict` (`VerdictByParts`), `WrittenBack`
(`WritesBack`) and `OwnForms` (`OwnFormsAccepted`). `ShapeKept` relates the matrix to the
letters; `GoodOfOne`, `GoodOfTwo`, `GoodOfThree` read the lists of constants bit by bit;
`ReadingGives` shows that writing by a scheme gives back the letters it was read from.

**FormBuilder**, for any stems, requests and sizes (`StemsAssumption`). `FormInv` adds to
the properties that the request is what was asked until a preposition changes it (`Request`) and
that nothing has failed before a stem was met (`Fresh`). From it `FormTyping`, `WholeForms`
(`FormsWhole`) and `CompleteForms` (`FormsComplete`).

The library's theorems of induction take an operator as a parameter, which no installed prover can
instantiate; where induction over data was needed (the running totals of forms, the beginnings of a
key, the texts below) the proofs take a least counterexample, or a lemma about a set.

**GrammarMap**, for any words and any tables of endings whose descriptions have the shapes of
`PlainTableAssumption`: a personal form has person and number but no case, a participle has gender
or number, a short form no case, a plural no gender, only nouns in the singular have second
cases, and a word whose row of alternations depends on its kind tells the kinds of its accusative
apart. The tables are data of the repository, not code; the shapes were read off them by
compiling each table of rus/tables/flex that a line of rus/dict names for its type (2,515 pairs)
and hold for all of these. `GrammarInv` says that the number asked for is the one of the reading
given and that what is built is the answer to it; the work is in the numbering, a function of
twenty branches and its inverse. One family of lemmas goes from a number to its description and
back (`CaseThere` to `VerbThere`), the other from a description to its number and back
(`CaseBack` to `VerbBack`), both case by case as the functions call each other, on facts about
fields of bits (`FieldPut3`, `FieldGot3` and others). From them `GrammarTypes`,
`BuildsBackAlways` (`BuildsBack`), `BuiltIsAskedAlways` (`BuiltIsAsked`) and, with `LevelAgrees`,
`RowAgreesAlways` (`RowAgrees`): the two levels differ only for an accusative, and a noun's number
for an accusative names one kind (`KindAsked`).

**Wildcards**, for any set of stems, any finite dictionary of them, any patterns and arrays of any
size (`WildAssumption`: types; `NoWildLetters`: no word of the dictionary is written with "*" or
"?"; `RowsAscend`, as for StemList). `WildInv`, the inductive invariant, is short, since a call of the
scanners is one step: it says what is still to be told or already told is what the walk over the
tree found for the pattern. The work is in what the scanners compute, for every input:

* The recursive functions are what their definitions say (`MatchesIs`, `PostMatchIs`, `IntrRestsIs`,
  `DictMatchIs` and others): a recursion whose argument grows smaller has one solution, which
  `RecursionSolved` of TextLemmas proves once, for functions and sets instead of operators
  (`PairRecursionSolved` for two texts whose lengths together fall). With `PairInduction` and
  `WalkInduction`, least counterexamples again, it takes the place of induction over data.
* `ToldIsTrue` (`ToldMatch`): `PostSound`, `FlexSound` and `IntrSound` show that what the postfix, the
  endings and the rows are accepted for matches; `FormsSound` joins them to a word of the stem, and
  `WalkSound` to a word from the root.
* `NothingUntold` (`NoneUntold`): `PostComplete`, `FlexComplete` and `IntrComplete` go the other way;
  `ListComplete` shows that the early exit of a list and the skipped stems are no loss, which is
  where the order of the list and the bounds count; `WalkComplete` follows the word from the root.
* `HelpIsExact` (`HelpExact`): the pattern is letters, a wildcard and a rest (`Asked`).
  `HelpComplete` follows a word that fits to the place where the wildcard stands, at a
  child, in a row, in an ending or behind the stem, and, where the rest of the pattern is looked
  up, shows the lookup finds it (`LookupFinds`); `HelpTrue` goes from an offered character back to
  a word that has it there (`StemTrue`, `LookedUpTrue`, `EveryKidTrue`).
* `WildTypesKept` (`WildTypeOK`): what is in the array fits and is no wildcard, what is told has a form
  and a lexeme of the dictionary.

One exception came out of these proofs: the postfix behind endings that are all empty (`Hidden`) was
met where `ListComplete` did not go through; the run has a stem of that kind.

Only model-checked: GrammarForms, ClassResolve and Inflection (`ParadigmRead`), and the English
modules, all of which use recursive operators; and all liveness properties.

## 5. Plan

Done in this order, most important first: the output of an analysis (Lemmatizer), the
dictionary's structure and its lookup (WordTree, TreeImage, TreeScan, DictScan), the readings of a
word (StemList), capitals (CapScheme), building of forms (FormBuilder), the numbers of forms
(GrammarNumbers, GrammarForms, GrammarMap), wildcards (Wildcards), the English library (EngDict, EngWild,
EngLibrary), the classes of lines and their paradigms (ClassResolve, Inflection).

Left, models:

1. *Recognizer*: CapScheme, DictScan, StemList and Lemmatizer composed into one lookup, with
   an abstract specification of the readings of a word.
2. *Lifecycle*: loaders, `Attach`, `Detach`, code pages, the vector helpers.

What a proof could reach further are the operators that are recursive now, once they are recursive
functions as those of Wildcards, TreeImage and DictScan are: the resolution of lines and the English
scanners.

## 6. Not modelled

* The **code pages** (`codepages::*` of the moonycode submodule) are not in the repository.
  What the code relies on, that a converted form may be longer, is the constant `Wide`.
* **Fixed buffers inside the library** (`astack[0x40]`, `fxlist[0x40]`, `sbuild[64]`,
  `stails[256]`): their sizes are sufficient or not depending on the dictionary's data, which the
  code does not check; listed as hazards without a property.
* **Lexemes of four bytes**: builder and library make different keys of them
  (`buildmorph.h:21`, `typedefs.h:75`); no dictionary has any. Index keys are an input here.
* **Parsing and dumping** (the lines `tfc` reads, `sourcefile.h`, `dumppage.h`, `mapidl`,
  `dicdump`): text in, text out, no state that outlives a line.
* `wordtree::Search` and `RecursScanDict`: no program calls them.
* The **Ukrainian library**, written against an earlier interface of the engine and otherwise a
  repetition of the Russian one, and the **PHP** bindings. The page builder of the English
  dictionary uses headers that are not in the repository; the bytes of its pages are not
  modelled, nor are its loader and shared-object entry points.
* Of a **dictionary line**: the marks of style, the case scale of prepositions, and how the
  comment is taken apart into postfix and remark, which are fields of the line here; the
  numbering of classes (`classtable.h`).
