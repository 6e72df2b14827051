-------------------------------- MODULE Grep --------------------------------
(****************************************************************************)
(* src/tasks/bgrep/bgrep.h and main.cpp: bin-grep, which maps every file    *)
(* that its arguments name or hold and reports where a pattern of bytes     *)
(* occurs.  One process; a step is one system call or one turn of a loop.   *)
(*                                                                          *)
(* The data.  An argument is a file or a directory; either way it has a     *)
(* listing, the entries that main and recursive_directory_iterator come by, *)
(* in that order and not only files: a subdirectory can be opened and       *)
(* measured but not mapped.  An entry tells which system call fails for it, *)
(* if one does, and whether the iterator cannot step on from it (it is a    *)
(* directory that may not be read).  A token is what stood between blanks:  *)
(* its size, what std::stoi makes of it, and the bytes that readme.md takes *)
(* it for, none if it is no byte's: "7?" has size 2, is 7 and means nothing,*)
(* "7642" has size 4, is 0x7642 and means two bytes.                        *)
(* An operator named X_Y is a slip Y in X that the properties must notice.  *)
(****************************************************************************)
EXTENDS Integers, Sequences, SequencesExt, FiniteSets

CONSTANTS
    Commands,       \* the command lines that are tried
    Wild,           \* the token "??", and the nullopt it is parsed to
    NoNumber,       \* std::stoi throws
    SizeMax         \* the greatest size_t

(* A token of the pattern, a file with its bytes, and what main is given.   *)
Tokens ==
    {Wild} \union
    {t \in [size : Nat, value : Nat \union {NoNumber}, means : Seq(Nat \union {Wild})] :
       t.means # <<>> => /\ t.size = 2 * Len(t.means)
                         /\ t.size = 2 => t.value \in Nat /\ t.means = <<t.value>>}
Files == [data : Seq(Nat), fails : {"none", "open", "stat", "map", "unmap"}, stuck : BOOLEAN]

(* What the constants must satisfy.  A pattern has a token at least.        *)
GrepAssumption ==
    /\ SizeMax \in Nat \ {0} /\ Wild \notin Nat
    /\ \A c \in Commands :
         /\ c.offset \in Nat /\ c.matches \in Nat
         /\ c.pattern \in Seq(Tokens) /\ c.pattern # <<>>
         /\ c.args \in Seq([entries : Seq(Files), unreadable : BOOLEAN])

VARIABLES
    command,        \* [algo, offset, matches, pattern, args]
    arg,            \* main's i, from 1
    entry,          \* where the traversal of argument arg is
    open_files,     \* the process's descriptors, by <<arg, entry>>
    mappings,       \* the process's mappings, by <<arg, entry>>
    pos,            \* i of the loops, or where std::search resumes
    matches,
    reports,        \* the visitor's calls, in order
    gpc,            \* where the program is
    status          \* what main returns

vars == <<command, arg, entry, open_files, mappings, pos, matches, reports, gpc, status>>

max_matches == IF command.matches = 0 THEN SizeMax ELSE command.matches

Init ==
    /\ command \in Commands
    /\ arg = 1 /\ entry = 1
    /\ open_files = {} /\ mappings = {}
    /\ pos = 0 /\ matches = 0
    /\ reports = <<>>
    /\ gpc = "main" /\ status = 0

Goto(from, to) == gpc = from /\ gpc' = to
Exit(result) == gpc' = "exit" /\ status' = result

-----------------------------------------------------------------------------
(* The pattern.                                                             *)

Valid_AnySize(token) == token = Wild \/ token.value # NoNumber

Valid(token) == token = Wild \/ (token.size = 2 /\ token.value # NoNumber)

(* The tokens for which parse_pattern throws.                               *)
Malformed == {k \in DOMAIN command.pattern : ~Valid(command.pattern[k])}

(* parse_pattern, where it does not throw.                                  *)
Parsed == [k \in DOMAIN command.pattern |->
             LET token == command.pattern[k] IN IF token = Wild THEN Wild ELSE token.value]

is_simple == \A k \in DOMAIN Parsed : Parsed[k] # Wild

(* What readme.md takes a token and the pattern for: bytes in pairs of hex  *)
(* digits, "arbitrary amount of spaces (or none)" between them, and "??".   *)
Means(token) == IF token = Wild THEN <<Wild>> ELSE token.means
Meant == FlattenSeq([k \in DOMAIN command.pattern |-> Means(command.pattern[k])])
Incorrect == {k \in DOMAIN command.pattern : Means(command.pattern[k]) = <<>>}

(* No token of two characters is read as a byte in part ("7?", "0x", "-5"). *)
WholeTokens ==
    \A c \in Commands : \A k \in DOMAIN c.pattern :
        Valid(c.pattern[k]) => Means(c.pattern[k]) # <<>>

(* What the loops compare at place i of the data from the offset on.        *)
Matches(data, i) ==
    \A j \in DOMAIN Parsed : Parsed[j] = Wild \/ data[i + j] = Parsed[j]

-----------------------------------------------------------------------------
(* The traversal.                                                           *)

Arguments == command.args
Entries == Arguments[arg].entries
File == Entries[entry]
Here == <<arg, entry>>
filesize == Len(File.data)
Data == SubSeq(File.data, command.offset + 1, filesize)

(* main's loop: is there an argument left?                                  *)
Return ==
    /\ gpc = "main" /\ arg > Len(Arguments)
    /\ Exit(0)
    /\ UNCHANGED <<command, arg, entry, open_files, mappings, pos, matches, reports>>

(* Grep: the pattern is parsed, and a directory gets its iterator.          *)
Start ==
    /\ arg <= Len(Arguments)
    /\ Malformed = {}
    /\ ~Arguments[arg].unreadable
    /\ Goto("main", IF Entries = <<>> THEN "next" ELSE "open")
    /\ entry' = 1
    /\ UNCHANGED <<command, arg, open_files, mappings, pos, matches, reports, status>>

(* Everything that throws ends in main's handler: "Pattern error", 2.       *)
Throws ==
    /\ \/ /\ gpc = "main" /\ arg <= Len(Arguments)
          /\ Malformed # {} \/ Arguments[arg].unreadable
       \/ gpc = "next" /\ Entries # <<>> /\ File.stuck
    /\ Exit(2)
    /\ UNCHANGED <<command, arg, entry, open_files, mappings, pos, matches, reports>>

(* ++it, and the end of the listing.                                        *)
NextEntry ==
    /\ gpc = "next"
    /\ Entries # <<>> => ~File.stuck
    /\ \/ entry < Len(Entries) /\ entry' = entry + 1 /\ gpc' = "open" /\ UNCHANGED arg
       \/ entry >= Len(Entries) /\ arg' = arg + 1 /\ gpc' = "main" /\ UNCHANGED entry
    /\ UNCHANGED <<command, open_files, mappings, pos, matches, reports, status>>

-----------------------------------------------------------------------------
(* GrepImpl.                                                                *)

OnError == reports' = Append(reports, [call |-> "OnError", at |-> Here])
OnMatch(p) == reports' = Append(reports, [call |-> "OnMatch", at |-> Here, offset |-> p])

Open ==
    /\ Goto("open", IF File.fails = "open" THEN "next" ELSE "stat")
    /\ IF File.fails = "open" THEN OnError /\ UNCHANGED open_files
       ELSE open_files' = open_files \union {Here} /\ UNCHANGED reports
    /\ UNCHANGED <<command, arg, entry, mappings, pos, matches, status>>

(* fstat, and a file that ends before the offset.                           *)
Stat ==
    LET skip == File.fails = "stat" \/ command.offset >= filesize IN
    /\ Goto("stat", IF skip THEN "next" ELSE "map")
    /\ IF File.fails = "stat" THEN OnError ELSE UNCHANGED reports
    /\ open_files' = IF skip THEN open_files \ {Here} ELSE open_files
    /\ UNCHANGED <<command, arg, entry, mappings, pos, matches, status>>

Map_NoClose ==
    /\ Goto("map", IF File.fails = "map" THEN "next" ELSE "scan")
    /\ IF File.fails = "map" THEN OnError /\ UNCHANGED mappings
       ELSE mappings' = mappings \union {Here} /\ UNCHANGED reports
    /\ pos' = 0 /\ matches' = 0
    /\ UNCHANGED <<command, arg, entry, open_files, status>>

Map ==
    /\ Goto("map", IF File.fails = "map" THEN "next" ELSE "scan")
    /\ IF File.fails = "map"
         THEN OnError /\ open_files' = open_files \ {Here} /\ UNCHANGED mappings
         ELSE mappings' = mappings \union {Here} /\ UNCHANGED <<open_files, reports>>
    /\ pos' = 0 /\ matches' = 0
    /\ UNCHANGED <<command, arg, entry, status>>

UsesSearcher == is_simple /\ command.algo = "boyer-moore"
Scanning == UNCHANGED <<command, arg, entry, open_files, mappings, status>>

(* A turn of the memcmp loop or of the loop for patterns with "??".         *)
Brute ==
    /\ gpc = "scan" /\ ~UsesSearcher
    /\ pos + Len(Parsed) <= Len(Data)
    /\ \/ /\ Matches(Data, pos)
          /\ OnMatch(command.offset + pos)
          /\ matches' = matches + 1
          /\ gpc' = IF matches' >= max_matches THEN "unmap" ELSE "scan"
       \/ /\ ~Matches(Data, pos)
          /\ UNCHANGED <<gpc, reports, matches>>
    /\ pos' = pos + 1
    /\ Scanning

BruteEnd ==
    /\ gpc = "scan" /\ ~UsesSearcher
    /\ pos + Len(Parsed) > Len(Data)
    /\ gpc' = "unmap"
    /\ UNCHANGED <<pos, matches, reports>> /\ Scanning

(* std::search: the first match from here on, or the end.                   *)
Found(from) ==
    LET found == {i \in from .. Len(Data) - Len(Parsed) : Matches(Data, i)}
    IN  IF found = {} THEN Len(Data) ELSE CHOOSE i \in found : \A k \in found : i <= k

BoyerMoore_Apart ==
    /\ gpc = "scan" /\ UsesSearcher
    /\ Found(pos) # Len(Data) /\ matches < max_matches
    /\ OnMatch(command.offset + Found(pos))
    /\ matches' = matches + 1
    /\ pos' = Found(pos) + Len(Parsed)
    /\ UNCHANGED gpc /\ Scanning

(* A turn of the loop over std::boyer_moore_searcher's finds.               *)
BoyerMoore ==
    /\ gpc = "scan" /\ UsesSearcher
    /\ Found(pos) # Len(Data) /\ matches < max_matches
    /\ OnMatch(command.offset + Found(pos))
    /\ matches' = matches + 1
    /\ pos' = Found(pos) + 1
    /\ UNCHANGED gpc /\ Scanning

BoyerMooreEnd ==
    /\ gpc = "scan" /\ UsesSearcher
    /\ Found(pos) = Len(Data) \/ matches >= max_matches
    /\ gpc' = "unmap"
    /\ UNCHANGED <<pos, matches, reports>> /\ Scanning

(* munmap, which may fail and leave the mapping, and close.                 *)
Unmap ==
    /\ Goto("unmap", "next")
    /\ IF File.fails = "unmap" THEN OnError /\ UNCHANGED mappings
       ELSE mappings' = mappings \ {Here} /\ UNCHANGED reports
    /\ open_files' = open_files \ {Here}
    /\ UNCHANGED <<command, arg, entry, pos, matches, status>>

GrepImpl == Open \/ Stat \/ Map \/ Brute \/ BruteEnd \/ BoyerMoore \/ BoyerMooreEnd \/ Unmap

Next == Return \/ Start \/ Throws \/ NextEntry \/ GrepImpl

-----------------------------------------------------------------------------
(* Where what the pattern means matches in entry e of argument a, by the    *)
(* definition of a match; and what is reported of the first n places.       *)
Places(a, e) ==
    LET data == Arguments[a].entries[e].data
    IN  {p \in command.offset .. Len(data) - Len(Meant) :
           \A k \in DOMAIN Meant : Meant[k] \in {Wild, data[p + k]}}

Nth(places, n) == CHOOSE p \in places : Cardinality({q \in places : q < p}) = n - 1

FirstMatches(a, e, n) ==
    [k \in 1 .. n |-> [call |-> "OnMatch", at |-> <<a, e>>, offset |-> Nth(Places(a, e), k)]]

(* What is to be reported of an entry: an error, or the first matches of    *)
(* the file in order of their places.                                       *)
Expected(a, e) ==
    LET f == Arguments[a].entries[e]
        error == <<[call |-> "OnError", at |-> <<a, e>>]>>
        places == Cardinality(Places(a, e))
        found == FirstMatches(a, e, IF places < max_matches THEN places ELSE max_matches)
    IN  IF f.fails \in {"open", "stat"} THEN error
        ELSE IF command.offset >= Len(f.data) THEN <<>>
        ELSE IF f.fails = "map" THEN error
        ELSE IF f.fails = "unmap" THEN found \o error
        ELSE found

AllExpected ==
    FlattenSeq([a \in DOMAIN Arguments |->
        FlattenSeq([e \in DOMAIN Arguments[a].entries |-> Expected(a, e)])])

(* With any of the three searches, bin-grep reports the first max_matches   *)
(* places of every file and an error for every entry that cannot be read,   *)
(* in order and each once: all of them when it returns 0, the beginning of  *)
(* them when it throws, and nothing for a pattern that readme.md takes for  *)
(* incorrect.                                                               *)
GrepReports ==
    IF Incorrect # {} THEN reports = <<>>
    ELSE /\ IsPrefix(reports, AllExpected)
         /\ gpc = "exit" /\ status = 0 => reports = AllExpected

(* Whatever fails, GrepImpl leaves no descriptor behind and no mapping that *)
(* munmap would have taken, and it holds one file at a time.                *)
FilesReleased ==
    /\ gpc \in {"main", "next", "open", "exit"} =>
         open_files = {} /\ \A m \in mappings : Arguments[m[1]].entries[m[2]].fails = "unmap"
    /\ open_files \subseteq {Here}

(* readme.md of bgrep: only an incorrect pattern makes bin-grep throw, any  *)
(* other error is reported and the search goes on.                          *)
ThrowsForPatternsOnly == status = 2 => Incorrect # {}
=============================================================================
