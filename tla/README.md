# MulleObjCValueFoundation in TLA+

MulleObjCValueFoundation is an Objective-C library with the value classes
`NSString`, `NSMutableString`, `NSData`, `NSMutableData`, `NSNumber` and the
categories around them. This directory holds TLA+ models of the parts of it
that keep state, the TLC configurations that check them on small instances, and
TLAPS proofs of what matters most for every value of the constants.

Paths below are relative to the repository; `String/`, `Data/` and `Value/` are
in its `src/` directory.

## 1. The system

### Components

| component | state | operations | interacts with |
|---|---|---|---|
| Immutable strings with a lazy UTF-8 copy: `_MulleObjCASCIIString.m`, `_MulleObjCUTF16String.m`, `_MulleObjCUTF32String.m` | `_storage` (own, or of a shared object), `_shadow` | `-UTF8String`, `-dealloc`, the getters | allocator; the object it shares characters with; any number of threads |
| `NSMutableString` | an array of immutable strings `_storage`, `_count`, `_size`, `_length`, and `_shadow`, `_shadowLen` | appends, replacements, compaction, getters, `-UTF8String` | copies its arguments, which may be itself |
| `NSMutableData` (`_MulleObjCConcreteMutableData`) | a `struct mulle_buffer` | appends, replacements, `-setLength:` and variants, pointers into the storage | callers hold pointers into it and may pass them back |
| Class cluster (`NSString+ClassCluster.m`), substrings, `NSData` and subclasses | who owns a block of memory | copying, `NoCopy` and sharing initializers, `-substringWithRange:` | allocator, retain counts |
| Encodings (`NSString+NSData.m`, `NSData+Unicode.m`, ...) | none | export and import of text with byte order marks | class cluster, mulle-utf |
| Formats of strings: tagged pointers, ASCII, UTF-16, UTF-32, stack and constant strings; `NSString.m`, `NSString+Hash.h` | the class, `_length`, the characters | choice of the class, `-isEqual:`, `-hash`, `-hasPrefix:`, `-hasSuffix:`, substrings | every other string, of whatever class |
| String enumerator (`NSString+Enumerator.h`) | raw pointers `_start`, `_curr`, `_sentinel` into the characters, `_shift`, a buffer `_buf` | next, previous, and their undo, as loops or on their own | the immutable string that `mulleCompactedString` answered, the array of the mutable string, the autorelease pool |
| Numbers (`Value/`) | none (immutable) | choice of class, `-compare:`, `-isEqual:`, `-hash` | tagged pointers |
| Coders | none | encode and decode each class | an `NSCoder` of another library |
| Formatting, descriptions | none | hand arguments to mulle-sprintf | external library |

### Behaviours that are hard

* **Concurrency.** Only the immutable classes promise to be usable by several
  threads (`asset/howto/coder/mulle-obj-c-value-foundation/quirks.md:14`). The
  one thing they change after they are made is `_shadow`, by compare-and-swap.
  The mutable classes are not thread safe, so in their models a method is one
  step.
* **Pointers that are handed out.** `-UTF8String`, `-bytes` and `-mutableBytes`
  return memory of the object. It has to stay valid for as long as the API says,
  while other methods, also getters, reorganize the object.
* **Cached and redundant state.** `_length`, `_size`, `_shadow` and `_shadowLen`
  repeat what the array of strings says; every method that changes the array has
  to keep them right.
* **Aliasing.** The receiver, or a pointer into it, may be an argument of its own
  method.
* **Ownership.** Some initializers copy, some keep, some share, some free the
  caller's memory; what happens when they fail or when the text is empty differs
  from one to the next.
* **Boundaries.** Ranges at and past the end, empty strings, chunks of 32
  characters, byte order marks, integer widths.

### What makes each component correct

* Lazy UTF-8: one buffer per string, published once, never replaced while
  somebody retains the string; every thread gets it; the losers of a race free
  their own buffer; the last release frees everything.
* `NSMutableString`, `NSMutableData`: whatever the chunks, capacities and moves,
  they behave as one mutable text or one mutable row of bytes, and the pointers
  they lend stay valid until a mutation.
* Class cluster: every block has one owner; nothing is read after it is freed;
  the value of an immutable object never changes.
* Encodings, coders: what was exported can be imported, and what would be lost is refused.
* Hash, comparison and numbers: equal values of different representations are
  equal and hash alike; the order is total.
* Enumerator: it visits what indexing visited when it began, whatever its body does to the
  string, and it ends.

The hazards, with their lines, are the list `hazards` of `PROJECT.json`.

## 2. Plan

1. `ShadowString`: concurrent `-UTF8String` and `-dealloc` (done: checked, proved).
2. `MutableString` (done: checked and proved, refinement included).
3. `MutableData` (done: checked and proved, refinement included).
4. `Ownership`: the class cluster, substrings and `NSData`: who frees which block
   and who reads it (done: checked and proved).
5. `Number`: choice of class, comparison and hash with integers of a few bits and
   small floating point types (done: checked and proved).
6. `Enumerator`: raw pointers into a string that changes, against a cursor over a
   text that does not (done: checked and proved, refinement included).
7. `StringFormats` and `Encoding`: which class a text gets, whether the classes
   agree on equality, hash and lengths, and export and import with byte orders,
   byte order marks and buffers that are too small (done: checked and proved).

Each invariant that a run checks and that holds of the code is now proved; so are the
refinements. Left: the hazards of `PROJECT.json` that no property covers.

## 3. The modules

### `LazyCell`, `ShadowString`, `ShadowString_proofs`, `MCShadowString`

`ShadowString` models one string of the classes
`_MulleObjCReferencingASCIIString` (with its subclasses),
`_MulleObjCUTF16ShadowingString` and `_MulleObjCUTF32ShadowingString`, used by
several threads. Each access to the ivar `_shadow` is a step of its own:
`ReadShadow` is the atomic read into a local, `CheckShadow` the `if( ! _shadow)`
that reads the ivar again, `Build` the conversion, `Publish`/`LoseRace` the
compare-and-swap, `FreeBuilt` the loser's free, `Return` the return statement
(the ASCII class returns the ivar, the others the local: `ReturnsLocal`).
`Release` of the last reference starts `-dealloc`, again step by step:
`DropStorage`, `FreeShadow`, `Deallocate`. With `Shares` the characters belong to
another object that the string retains and that everybody else may release.

`refs` and `ownerRefs` are sets: a thread or string retains at most once, and the
set's size is the retain count. The compare-and-swap is sequentially consistent.
The text is not empty and its conversion cannot fail.

`LazyCell` is the abstract promise: a cell filled once while somebody owns it.
`Cell` in `ShadowString` is the refinement mapping.

### `PlainString`, `MutableString`, `MutableString_proofs`, `MCMutableString`

`MutableString` models `NSMutableString.m`. `storage` is `_storage` with
`_count = Len(storage)`; `length`, `size`, `shadow`, `shadowLen` are the ivars;
`heap` the buffers `-UTF8String` allocated; `lent` those it returned since the
text last changed; `reply` what the last method returned. A method is one action,
with every call inside it: `AppendString` grows the array and flushes the shadow,
`ReplaceCharacters` takes the two substrings, which compact the receiver first,
and rebuilds it. `Copies` and `CopyStrings` model `copyStringsAndComputeLength`,
which runs while the receiver is half rebuilt, and which may meet the receiver
among the strings. `Grab` is one turn of the loop that reads a range across the
strings.

The strings in the array are immutable and modelled by their characters.
Characters are model values with a width in UTF-8. `CompactAt` is the 8 of
`-getCharacters:range:`. A range's length of -1 ("to the end"), which
`MulleObjCValidateRangeAgainstLength` of MulleObjC accepts, is not modelled.
`PlainString` is the abstract promise: one text, with the replies of each method.
Where the code does something odd and nothing in the repository says what was meant,
`PlainString` takes what it does as the promise, and says nothing against it: the
range whose length is that of the text but which starts later (`NSMutableString.m:770`),
and the receiver among its own arguments (`:119`).
The loops over the strings are recursive functions in `MutableString`, where they could
be folds, so that the proofs reach them.

### `PlainData`, `MutableData`, `MutableData_proofs`, `MCMutableData`

`MutableData` models `_MulleObjCConcreteMutableData` and what it inherits from
`NSMutableData` and `NSData`. The library `mulle_buffer` is modelled by what this
code relies on: storage may move whenever it grows or shrinks, and its capacity
is anything large enough (`Allocate`, `Grow`, `SetStore`). Bytes nobody wrote, or
of freed memory, are `Junk`. `ReplaceBytes` does what
`-replaceBytesInRange:withBytes:length:` does in its order: grow, move the rest up,
write, move the rest down, shrink (`Opened`, `Closed`). `AppendOwnBytes` and
`ReplaceWithOwnBytes` are the same calls with a pointer into the data itself.
`undefined` records that the caller asked for unwritten bytes
(`mulleSetLengthDontZero:`, or own bytes as the replacement in a data that grows,
which the code does not support).
`PlainData` is the abstract promise: one row of bytes.

### `Ownership`, `Ownership_proofs`, `MCOwnership`

`Ownership` models who owns memory: the initializers of `NSString+ClassCluster.m`,
`NSString+NSData.m` and the `NSData` classes, substrings, mutations of an
`NSMutableData` as far as its storage moves, `-release` and `-dealloc`. `memory`
maps each allocated block and each instance with characters of its own to what
is in it; `mine` is the set of blocks the client has to free; `object` the live
instances, with the ivars that say where the characters are (`at`, `start`,
`length`), whether `-dealloc` frees them (`frees`, the `_allocator` ivar) and whom
they are shared with (`shares`, the `_sharingObject` ivar); `retainers` who
retains whom.

An initializer is one step that ends in one of five outcomes: `NoInstance`
(exception, `nil`, `@""`, a tagged pointer or the receiver), `Inline` and `InBlock`
(a copy in the instance, or in a block of its own), `Keep` (the client's block) and
`Share` (another instance's memory). Each initializer chooses by what the UTF
information of the text says, as the code does. `gone` are the client's blocks it
frees on the way, which it does in some error paths and not in others. `Dealloc` is a
step of its own, any time after the last release. `agreed` is not an ivar: it
records which block the client promised to keep for the instance.

The client follows the documented rules: it frees, overwrites or gives away only
what is its own and not promised (`Spare`), sends messages only to what it
retains (`Held`), passes no byte order mark to the UTF-8 `NoCopy` initializer (the
pointer that would be kept is not the one that was allocated), and only immutable
data to `mulleInitWithDataNoCopy:encoding:` (`NSString+NSData.m` does not check).
Two methods are used less than they are documented to be. The `NoCopy` initializer for
UTF-32 keeps as many characters as it is told (`CharactersAt`), and
`-initWithBytesNoCopy:length:encoding:freeWhenDone:` with `NSUnicodeStringEncoding` tells it
four times what there is (`InitWithUnicodeBytesNoCopy`, `CharSize`): the client of `Spec`
does so only without characters (`IsEmpty`), that of `SpecOfAnyClient` with any, and then
characters past the end of the block are read. To `-mulleInitWithUTF16String:` the client
passes only ASCII or broken text, because what the code does with other text is undefined.
So `CharactersAreReadable` and its theorem speak of a client that keeps to these limits.

### `Number`, `Number_proofs`, `MCNumber`

`Number` models `NSNumber` on a 64 bit platform. A client makes two numbers from any
C type (`-initWithBytes:objCType:` and the constructors), or one and its copy through
a coder, and the properties ask what they answer about each other. An action is
little more than a call of `New`; the interest is in the functions: the initializers
(`InitWithSigned`, `InitWithUnsigned`, `InitWithFP`, ...), which choose one of eleven
classes, `Compare`, `IsEqual`, `Hash`, the accessors (`ValueAs`) and `Encoded`.
`type` and `given` of a number are not ivars: they record what it was made from.

Widths are parameters: `Max` for the integers, `Bits` for the mantissas, and a
real is a multiple of 1/`One`. `Rounded` rounds like the hardware does, which makes
the range tests with `(double) LLONG_MAX` come out as they do in C; `ToLong` is a
set, because the cast of a value that does not fit is undefined. `WidthsGrow` says
what the proofs need of the widths: integers of whole bits in the order of C (`int`
longer than `short`), tagged integers with room for each `unsigned int` but not for each
`long`, a `double` without room for each `long`, and a `long double` with room for
each `unsigned long`, as on x86; and an `Infinity` that is a power of two, so that no
real below it is rounded past it. `GivenAreTyped` says that the client makes a number
from a value its type has (`Fits`). `tps` tells builds
with tagged pointers from those without. Left out are the integers truncated from
floating point numbers, and the dynamic setters at the end of `NSNumber.m`.

Four exceptions in the properties stand for what the code does not promise.
`Meets`: `-compare:` of a float or double receiver compares doubles whatever the other
number is (`NSNumber.m:966`), of a long double receiver long doubles (`AsDoubles`). So
0.1 as a double is the same as 0.1L, while 0.1L is not the same as 0.1.
`ComparisonIsOrder` says which answer each side gives; that one is the reverse of the
other, `ComparisonIsSymmetric`, does not hold and is not checked.
`Blurred`: from 2^63 on an unsigned integer is rounded to be compared with a double,
so equality is not transitive there. A NaN next to a `long double` number is
descending from both sides, because that branch of `-compare:` looks at the NaN
in place of the other number (`NSNumber.m:1016`). Hashes are compared only with tagged
pointers, because the 32 bit classes hash bytes past their ivar.
The comment at `NSNumber.m:112` says that integers get the same class regardless of the
initializer. This holds for the signed initializers; an `unsigned int` from 2^31 to
2^32-1 gets another class than the `long` of that value, and without tagged pointers
so does an `unsigned char` from 128 on. Equality and order do not depend on it.

### `Cursor`, `Enumerator`, `RopeLemmas`, `Enumerator_proofs`, `MCEnumerator`

`Enumerator` models `struct MulleStringEnumerator` and the macros
`MulleStringFor` and `MulleStringReverseFor`. The enumerated string is an
`NSMutableString` whose array `storage` holds immutable strings of `heap`, with 1,
2 or 4 bytes for each character or none (in a tagged pointer). To begin, the string
is compacted and the pointers are taken into the characters of the string that
comes of it, or into `buf` for a tagged one. An address is a number, so that
`curr`, `start` and `sentinel` are moved by `size` as the code does. Meanwhile the
mutable string is changed, compacted and emptied: what it lets go of is retained by
the autorelease pool (`pool`) and freed once nobody has it. What is read where
there is no character is `Junk`. The condition of a loop, its body and the end of the
body are steps of their own; the pool is drained only outside of a loop.

`Cursor` is the abstract promise: an index into a text that was fixed when the
enumeration began; which text that is, `Enumerator` says, not `Cursor`. A pool that is
opened and drained within the body of a loop is not modelled. `RopeLemmas` has what the proofs need of a concatenation.

### `StringFormats`, `Encoding`, `Encoding_proofs`, `MCEncoding`

A string is `[class, units, length]`, where `length` is the ivar (the tiny class
keeps one less, in a byte; a tagged pointer keeps none). `StringFormats` has the
initializers, which choose the class (`NewString`, `InitWithUTF16Characters`, the
`NoCopy` ones), copies and substrings, and what the classes must agree on: `Length`,
`Hash`, `IsEqualToString`, `HasPrefix`, `HasSuffix`. A character is its code point; a
string stored as UTF-16 has 15 bit and no surrogates. FNV-1a folds one unit after the
other, so a hash is modelled by the sequence of the units it was computed from.
`HasSuffix` is a set of answers: a suffix longer than its buffer of 32 characters
overruns it.

In `Encoding` a client makes a string, perhaps takes a copy or a part, and either
makes a second one and compares the two, or exports it with
`-mulleDataUsingEncoding:encodingOptions:` or `-getBytes:maxLength:...` and makes a
string of the bytes again. mulle-utf is external: `ToUTF8`, `ToUTF16`, `FromUTF8`
and `FromUTF16` convert by the rules of Unicode, with surrogate pairs and with
bytes that are missing at the end. The decoders are recursive functions over the number
of units read, a step of a small automaton for each (`UTF8Step`, `UTF16Step`). Bytes are real bytes: `ToBytes`, `SwapUnits`
and `ToUnits` are the integers in memory of a little endian machine.

`LengthsAgree` compares the number of bytes that is announced with those of an export.
They differ for some texts that start with a byte order mark, which the counting skips
(`MarkIsMissed`): ASCII behind a mark is counted as ASCII, but the export refuses it, and
of a mutable string the UTF-32 is counted without the mark, but exported with it. The
property says how many bytes are announced there, too. A string of the UTF-16 class
cannot start with a mark, as it has 15 bit only.

## 4. The runs

| run | instance | shows |
|---|---|---|
| `shadow_ascii` | 3 threads, 4 buffers, sharing, ASCII | type, ownership of buffers and characters, validity of answers, written once, implements `LazyCell` |
| `shadow_wide` | 2 threads, 3 buffers, owned characters, UTF-16/32, fair | calls return, dead strings are freed |
| `shadow_null` | as `shadow_wide`, no fairness | a finding: `-UTF8String` can return NULL |
| `mutable_string` | texts of up to 4 characters in up to 5 strings | capacity, length, cached UTF-8, implements `PlainString` |
| `mutable_string_empty` | the same | a finding: a substring of an empty string recurses for ever |
| `mutable_data` | up to 4 bytes, storage at 2 addresses | no unwritten bytes, lent pointers valid, implements `PlainData` |
| `ownership` | 3 instances, 2 blocks, 5 texts | characters readable, one owner per block, exact retain counts, immutable values |
| `number` | 2 numbers of all types, integers of 2 to 7 bits, mantissas of 2, 4 and 6 bits | class follows from value, round trips, order, equality and hash across classes |
| `number_coded` | the same | a finding: a tagged double does not survive a coder |
| `enumerator` | 3 objects, texts of up to 4 characters of 0, 1 and 2 bytes, fair | pointers stay in the text, the text stays alive, implements `Cursor`, loops end |
| `strings` | about 90 texts in all classes, 9 encodings, 8 combinations of options, 6 sizes of a buffer | formats, equality, prefix, suffix and hash across classes, byte lengths, round trips, refusal of what would lose characters |
| `utf8_bom` | the same | a finding: the byte order mark that is written for UTF-8 is none |

**Bounds.** Three threads are a winner, a loser and one that comes late or runs
`-dealloc`; a buffer for each and one for the published shadow make sure that an
allocation never fails for want of a model value. Four characters and five strings
reach an append that grows an array of 4, a rebuild that shrinks one of 24, ranges
that start, end or cross between strings, with empty strings among them. Four bytes
give the moves of a replacement overlapping source and destination, up and
down; two addresses are enough to tell storage that moved from storage that stayed.
`CompactAt` is 3 in the runs, so that ranges are read both across strings and after
compaction. Three instances allow one that shares with one that shares; two blocks one
that is kept and one that is copied from it; the five texts are one for each way an
initializer can go: empty, ASCII, not ASCII, invalid, with a byte order mark.
`MaxLength` and `MaxCount` are bounds of the models, in guards; they disable
only the operation that would exceed them.
In `number` every value of every integer type is tried; as on the platform a `float` cannot
hold every `int`, a `double` holds those but not every `long`, a `long double` holds
all; the reals are the fractions about zero and everything about the limits of `long` and
`unsigned long`, where rounding matters.
In `enumerator` three objects let an old, a compacted and a newly appended string live
at once, and the objects of freed ones be used again. One string of each of the sizes 0,
1 and 2 and their concatenations make all shifts appear but that of 4, which differs in
the number only; the proofs are for all.
In `strings` there is a character on each side of every limit: with and without a code of
five bit, ASCII, 8, 15 and 16 bit, beyond, and the byte order mark. Pointers hold one
character of seven bit or two of five; the tiny class counts to 2, chunks and window are
of 2, so that texts of 4 characters are of two chunks and longer than the window. The
sizes of the buffers cut characters of two and four bytes and pairs of surrogates in two.

**Symmetry and views.** Threads and buffers are interchangeable in
`shadow_ascii` (no liveness there), addresses in `mutable_data`, instances and blocks
in `ownership`. `reply` is the
outcome of a step and left out of the views of the mutable classes; the properties
of those runs that speak of states do not mention it, and the refinement is
checked on every step TLC takes.

**Deadlock** is checked in every run: a client can always act.

**Fairness.** `shadow_wide` has weak fairness of `UTF8String(t)` and
`Dealloc(t)`, that is, a thread inside one of these methods keeps running. There is
no lock and no loop in them, so the scheduler has nothing else to grant. Nothing
forces a client to call, retain or release. `enumerator` has weak fairness of `Loop`,
the condition, the end of the body and the end of the loop: a thread that is in a loop
goes on. The body may do anything in between, as often as it likes; that the loop ends
all the same is because it is over the text the string had at its start.

## 5. The proofs

All are checked by TLAPS, for any number of threads, buffers, addresses,
characters, texts and ranges, from the `ASSUME`s of the modules only (that model
values differ and that arguments have their types).

* `ShadowString_proofs`. The inductive invariant `IInv` has four parts.
  `ControlInv`: who is where, in particular that at most one thread runs `-dealloc`
  and no other thread is inside a method then. `Owned`: each allocated buffer is the
  shadow or is built by exactly one thread. `Answered`: an answer is the shadow.
  `Stored`: the characters are there until `DropStorage`. `BuffersOwned` and
  `AnswersValid` alone are not inductive: that a late `-UTF8String` cannot
  republish after `FreeShadow` follows from the control part. `NeverNull` and the
  refinement of `LazyCell` are proved for the ASCII variant only, and are false for
  the other (run `shadow_null`).
* `MutableString_proofs`. `ArrayHasRoom` is proved by showing that each way to a
  new capacity has room (`RebuildHasRoom`, `AppendedHasRoom`); `ShadowIsFresh`
  and `ShadowIsOwned` together are inductive (`Cached`), because every change of
  the array goes through `FlushShadow`. For the text (`Texts`) there is one lemma for
  each loop of the class: `CopiesAreTexts`, `LengthOfCopies` and `CopyOfReceiver` for
  the copies of the strings and what they add up to, the receiver among them or not;
  `GrabWalks` and `WalkGetsPart` for the walk that reads a range across the strings,
  with one case for each way a range can lie to a string; `BytesOfTheText` for the
  sum of bytes. Compacting then keeps the text (`CompactKeepsText`), and one lemma per
  method (`AppendStep`, `ReplaceStep`, `Utf8Step`, ...) gives `LengthIsTotal` and the
  step of `PlainString` at once; that of `-UTF8String` needs `Cached`.
* `MutableData_proofs`. `TypeCorrect` says that the storage always has room.
  `ContentAlwaysDefined` needs that zero filling and the moves leave only written
  bytes. `ImplementsPlainData` rests on `ReplacingSplices`: growing, moving, writing,
  moving and shrinking give the bytes before the range, the new ones and those after
  it, for all lengths (`GrowingSplices`, `ShrinkingSplices`).

* `Ownership_proofs`. `IInv` adds two parts to the four invariants. `Placed` says
  where an instance can have its characters: in itself, in a block it frees, in one
  the client agreed to keep, or with the immutable instance it shares. `Founded`
  says that every chain of instances that share with one another ends. It is what
  makes the rest inductive: if the memory of an instance that is deallocated, or a
  block the client may free, were still in use, some instance in use of it
  would not share with another one of those (`UnsharedIsAlone`, `SpareIsUnused`).
  One lemma per outcome of an initializer (`InlineIsSafe`, `InBlockIsSafe`,
  `KeepIsSafe`, `ShareIsSafe`, on top of `Appearing`), then one per action.

* `RopeLemmas`, `Enumerator_proofs`. The library's induction theorems are not
  available to the provers in use, but that a set of natural numbers has a least
  member is (`LeastNumber`), and with it `Induction` for a set, and
  `ConcatenationIsText` by the recursive definition of `FlattenSeq`. In the same way
  `RecursionExists`, `JoinsExist` and `JoinOfConcat` serve the loops of
  `MutableString`, and `PieceOfJoin` and `JoinLength` the exports of `Encoding`, which feed
  their pieces to a decoder one after the other. `TypeOK` and
  `SourceIsAlive` together are inductive: the source of the enumerator is in the pool,
  which nothing empties during an enumeration. `ImplementsCursor` maps the position
  to `(curr - start) \div size`: a move by one character is a move of the index by one
  for every size, and whoever changes the string does not change what is at the source.
* `Encoding_proofs`. `TypeCorrect` has one lemma per initializer, with the cases
  the code makes by the UTF information of the text. `Comparisons` rests on
  `ChunksCover` (every index is in one of the chunks), on `UTF8OfASCII` (if the first
  characters of a text are ASCII, its UTF-8 starts with them, and if one is not, a byte
  that is not ASCII is at its place: this is what makes the comparison of a tagged string
  with another one's UTF-8 exact in both directions) and on
  `SuffixIsExact`. `EqualHash` needs that a tagged string is never longer than the
  window, an assumption of `StringFormats` on the limits (the bits of a pointer,
  and a window of 32 characters, in the code).

  The other three speak of the data, of which `TypeOK` knows too little. Their inductive
  invariant `IInv` adds `Sourced`: the data is the result of an export of its source, or
  the start of one with the options of a cut export, and the other string, if there is
  one, is what an import made of those bytes. It is in no cfg: it says again what the
  actions assign, and `RoundTrips` and its neighbours, which the run `strings` checks,
  are what is worth knowing of it.
  `NothingIsLost` and `LengthsAnnounced` need when a converted text is as long as the
  text (`AsciiUTF8`, `NarrowUTF16`) and that a narrow one has no byte order mark
  (`NarrowHasNoMark`). `TextsComeBack` goes in three stages.
  *Characters*: the bytes of one character take a decoder that is idle through the states
  of `UTF8Goes` to one that is idle again, with the character appended
  (`UTF8BytesFeed`, `UTF16UnitsFeed`, with the arithmetic of each length of a sequence in
  its own lemma). *Texts*: the pieces of a concatenation feed the decoder one after the
  other, so that of the first `r` units comes a start of the text, and of all of them the
  text (`DecodedStart`, `UTF8Restores`, `UTF16Restores`). *Bytes*: units come back from
  their bytes in both orders, and of cut bytes as many as are complete
  (`TwoBytesAreRead`, `FourBytesAreRead`). What an initializer and a mark of the export
  do to the marks at the start is `LosesMarks`, which is transitive; that a start of a
  text, without its marks, is a start of the text without its marks is `StartUnmarked`.
  One lemma per encoding joins them (`UTF8Back`, `ISO1Back`, `UTF16Back`, `UTF32Back`).
* `Number_proofs`. `IInv` says of each number that it is `Sound`: in the class of its value
  (`Canonical`, `WellTagged`), with the real it was made with (`Exact`), but for the
  `LLONG_MAX` that comes of the float or double 2^63 (`Blurry`), and giving it
  back (`GivesBack`). The class alone is not enough for equality and order, which
  compare values. What it takes is about rounding. A power of two never is rounded and
  neither is a multiple of the unit (`PowerIsFloat`, `MultipleIsExact`); rounding keeps the
  order with what is not rounded (`RoundedOrder`); a longer mantissa has room for what a
  shorter one has (`FloatEmbeds`); a mantissa without room for all longs
  rounds the largest to the next power of two (`RoundedToLongEnd`), which is why the
  range test of the initializers lets 2^63 pass. `IntegerIsSound`, `RealIsSound` and
  `MadeIsSound` follow the initializers, `EncodedFits` the coder. `ComparisonOrders` has a
  lemma for each of the four ways two numbers are compared (`CompareWays`): as integers,
  as long doubles, as doubles that an integer is converted to (`Widened`), and as doubles
  that a long double is rounded to (`Narrowed`). The
  double an integer is rounded to may meet the other number, but never passes it
  (`DoubleOfInteger`), except for an unsigned one past 2^63, which the property excepts;
  neither does a rounded long double (`RoundedReals`), and when it meets the receiver the
  answer is "same" (`CompareMeets`).
  `EqualityIsOfReals` is by the kinds of the two classes (`EqualIntegers`, `EqualReals`,
  `EqualMixed`).

**Only model-checked**: liveness, whose proof needs `ENABLED` of fair actions; and the
findings, which are counterexamples. `IntegersHashAlike`, `ComparisonIsSymmetric`,
`AgreedBytesStay` and `LentPointersAreValid` do not hold and are not checked, see below.

### Known disagreements that have no run

* A pointer from `-UTF8String` of a mutable string is freed by a read that compacts the
  array (`LentPointersAreValid` in `MutableString` does not hold);
  `asset/dox/api/toc/index.md:358` only warns of changes to the string.
* `+dataWithBytesNoCopy:length:` frees bytes the caller keeps (`AgreedBytesStay` in
  `Ownership` does not hold).
* An integer of 2^63 or more equals the double of its value and hashes differently
  (`IntegersHashAlike` in `Number` does not hold).
* A float or double is the same as a long double that is rounded to it, which in turn is
  greater or less (`NSNumber.m:966`; `ComparisonIsSymmetric` in `Number` does not hold).
* `-initWithBytesNoCopy:length:encoding:freeWhenDone:` with `NSUnicodeStringEncoding` takes
  its length in bytes as a number of characters (`NSString+NSData.m:554-557`; the twin that
  shares divides, `:583`). The string claims four times the block it keeps
  (`CharactersAreReadable` of `Ownership` does not hold of `SpecOfAnyClient`).
* `-mulleInitWithUTF16String:` has UTF-16 that is not ASCII converted by the functions for
  UTF-8, and copies ASCII from the start of the buffer, mark included
  (`NSString+ClassCluster.m:403-411`).
* `-lengthOfBytesUsingEncoding:` skips a byte order mark that ASCII does not have and that
  a mutable string exports in UTF-32 (`MarkIsMissed` in `Encoding`).

## 6. What is not modelled

Each component left out, or modelled in part, is listed in `PROJECT.json` with
the reason. In short:

* Formatting and descriptions hand their work to mulle-sprintf.
* Constant strings are written by the compiler and patched once at start by the runtime.
* `mulle-chardata.h` is not used by anything.
* `-rangeOfData:options:range:`, `-hash` and `-isEqualToData:` of data are calls of C
  functions on bytes that do not change; `-intValue` and its likes are calls of
  `strtol` and `strtod`; `MulleStringEncodingParseUTF8String` looks a name up in a table.
* Mac OS Roman and NEXTSTEP are tables of mulle-utf and can only be imported.
* The bits of a tagged pointer are packed by mulle-utf.

The runtime, the allocator, mulle-utf and mulle_buffer are external: what is modelled
of them is what this code relies on.
