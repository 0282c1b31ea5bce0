---------------------------- MODULE AdsTxtParser ----------------------------
(***************************************************************************)
(* The ads.txt parser of package parser: Parse, parseLine, isValidDomain   *)
(* and CountAdvertisers, the algorithm behind AnalyzeDomain's "parse" and  *)
(* buildAnalysis's counts.                                                 *)
(*                                                                         *)
(* Text is abstracted to what the code's branches tell apart.  A line,    *)
(* after strings.TrimSpace, is blank, a comment (starts with "#"), or a   *)
(* record.  A record either has the shape validLineRegex wants (domain,   *)
(* publisher id, account type, optional authority) or not; its account   *)
(* type is DIRECT or RESELLER written in upper, lower or mixed case; its  *)
(* exchange domain is a name (its letters up to case), whether it has     *)
(* upper-case letters, and how many dots trail it.  Which names pass the  *)
(* label regex and the length checks of isValidDomain is the constant     *)
(* ValidNames.  Content is the sequence strings.Split gives; the empty    *)
(* sequence stands for the empty string.                                  *)
(***************************************************************************)
EXTENDS Integers, Sequences, FiniteSets

CONSTANTS Names,       \* exchange domain names, up to letter case
          ValidNames,  \* the names isValidDomain accepts once one dot is trimmed
          MaxLines     \* bound: the longest content enumerated

ASSUME ParserAssumption ==
  /\ ValidNames \subseteq Names
  /\ MaxLines \in Nat

AccountWords == {"DIRECT", "RESELLER"}
\* How the account type is written; "none" is a record without the fields.
AcctCases == {"upper", "lower", "mixed", "none"}
Token == [name : Names, upper : BOOLEAN, dots : 0..2]
Lines == {[kind |-> k, acct |-> "none", word |-> "DIRECT",
           tok |-> [name |-> CHOOSE n \in Names : TRUE, upper |-> FALSE,
                    dots |-> 0]] : k \in {"blank", "comment"}}
         \cup [kind : {"record"}, acct : AcctCases, word : AccountWords,
               tok : Token]
Contents == UNION {[1..n -> Lines] : n \in 0..MaxLines}

\* An exchange domain after strings.ToLower: its name and trailing dots.
Domain == [name : Names, dots : 0..2]
\* models.AdsTxtEntry, without the fields nothing reads.
Entry == [domain : Domain, accountType : AccountWords]
\* Parse's two results: the entries, and whether the error is set.
Result == [entries : Seq(Entry), err : BOOLEAN]
ParseError == [entries |-> <<>>, err |-> TRUE]

(* validLineRegex: the fields are there and the account type is           *)
(* DIRECT|RESELLER|direct|reseller.                                        *)
MatchesLine(l) == l.acct \in {"upper", "lower"}

(* isValidDomain: strings.TrimSuffix(domain, ".") removes one dot, then   *)
(* the rest must be a valid name with no dot left at its end.              *)
isValidDomain(d) == d.name \in ValidNames /\ d.dots <= 1

\* Mutant: the exchange domain kept as written (strings.ToLower left out).
ToLowerKeepCase(t) == t

(* strings.ToLower: the letters' case is gone.                             *)
ToLower(t) == [name |-> t.name, dots |-> t.dots]

\* Mutant: parseLine without the isValidDomain check.
parseLineUnchecked(l) ==
  IF MatchesLine(l)
  THEN <<[domain |-> ToLower(l.tok), accountType |-> l.word]>> ELSE <<>>

(* parseLine: the regex, then ToLower(domain), ToUpper(account type), then *)
(* the domain check; an error drops the line.                              *)
parseLine(l) ==
  LET e == [domain |-> ToLower(l.tok), accountType |-> l.word]
  IN  IF MatchesLine(l) /\ isValidDomain(e.domain) THEN <<e>> ELSE <<>>

(* Parse: an empty content is an error; otherwise each line, trimmed, is  *)
(* skipped when blank or a comment and handed to parseLine otherwise; no  *)
(* entry at all is an error.                                               *)
Parse(content) ==
  LET acc[k \in 0..Len(content)] ==
        IF k = 0 THEN <<>>
        ELSE acc[k - 1] \o (IF content[k].kind = "record"
                            THEN parseLine(content[k]) ELSE <<>>)
  IN  IF content = <<>> \/ acc[Len(content)] = <<>> THEN ParseError
      ELSE [entries |-> acc[Len(content)], err |-> FALSE]

\* Mutant: a repeated advertiser overwrites its count instead of adding.
CountAdvertisersSet(entries) ==
  LET c[k \in 0..Len(entries)] ==
        IF k = 0 THEN [d \in Domain |-> 0]
        ELSE [c[k - 1] EXCEPT ![entries[k].domain] = 1]
  IN  c[Len(entries)]

(* CountAdvertisers: counts[entry.ExchangeDomain]++ for every entry; 0    *)
(* stands for a key the map does not hold.                                 *)
CountAdvertisers(entries) ==
  LET c[k \in 0..Len(entries)] ==
        IF k = 0 THEN [d \in Domain |-> 0]
        ELSE [c[k - 1] EXCEPT ![entries[k].domain] = @ + 1]
  IN  c[Len(entries)]

-----------------------------------------------------------------------------
VARIABLES content,  \* the fetched body
          step,     \* "parse", "count" or "done"
          parsed,   \* what Parse returned
          counts    \* what CountAdvertisers returned

vars == <<content, step, parsed, counts>>

Init ==
  /\ content \in Contents
  /\ step = "parse"
  /\ parsed = ParseError
  /\ counts = [d \in Domain |-> 0]

(* AnalyzeDomain calls Parse on the fetched content.                       *)
(* A parse error ends the analysis.                                        *)
DoParse ==
  /\ step = "parse"
  /\ parsed' = Parse(content)
  /\ step' = IF Parse(content).err THEN "done" ELSE "count"
  /\ UNCHANGED <<content, counts>>

(* buildAnalysis calls CountAdvertisers on the parsed entries.             *)
DoCount ==
  /\ step = "count"
  /\ counts' = CountAdvertisers(parsed.entries)
  /\ step' = "done"
  /\ UNCHANGED <<content, parsed>>

Next == DoParse \/ DoCount

Spec == Init /\ [][Next]_vars

-----------------------------------------------------------------------------
TypeOK ==
  /\ content \in Contents
  /\ step \in {"parse", "count", "done"}
  /\ parsed \in Result
  /\ counts \in [Domain -> Nat]

(* The lines the tests call entries: a record whose account type is in    *)
(* one case, whose exchange domain, lower-cased, is valid.                 *)
IsEntryLine(l) ==
  /\ l.kind = "record"
  /\ l.acct \in {"upper", "lower"}
  /\ l.tok.name \in ValidNames /\ l.tok.dots <= 1
EntryLines(c) == {k \in 1..Len(c) : IsEntryLine(c[k])}

\* The place of line k among the entry lines: one more than the number of
\* entry lines before it.
Rank(c, k) == Cardinality({i \in EntryLines(c) : i <= k})

(* Tests (TestParser_Parse): Parse returns, in order, one entry per entry *)
(* line, its exchange domain lower-cased and its account type upper-cased, *)
(* skipping comments, blank and malformed lines, and fails exactly when   *)
(* there is no such line.  The k-th entry line gives the k-th entry.       *)
ParsedMatchesReference ==
  step # "parse" =>
    IF EntryLines(content) = {} THEN parsed.err
    ELSE /\ ~parsed.err
         /\ Len(parsed.entries) = Cardinality(EntryLines(content))
         /\ \A k \in EntryLines(content) :
              parsed.entries[Rank(content, k)] =
                [domain |-> [name |-> content[k].tok.name,
                             dots |-> content[k].tok.dots],
                 accountType |-> content[k].word]

(* Tests (TestParser_CountAdvertisers): an advertiser's count is the      *)
(* number of entry lines naming it, case ignored, so the counts sum to the *)
(* number of entries (the TotalAdvertisers of buildAnalysis).              *)
CountsMatchReference ==
  step = "done" /\ ~parsed.err =>
    \A d \in Domain :
      counts[d] = Cardinality({k \in EntryLines(content) :
                                 ToLower(content[k].tok) = d})

(* Comment of newParser: account types are case-insensitive.  A line that *)
(* differs only in how its account type is cased parses the same.          *)
UpperCased(c) ==
  [k \in 1..Len(c) |-> IF c[k].acct \in {"lower", "mixed"}
                       THEN [c[k] EXCEPT !.acct = "upper"] ELSE c[k]]
AccountTypeCaseInsensitive ==
  step # "parse" => parsed = Parse(UpperCased(content))
=============================================================================
