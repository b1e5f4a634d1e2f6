---------------------------- MODULE TopologyLabel ----------------------------
(***************************************************************************)
(* The templates of topology label keys (pkg/topologylabel): CompileSet    *)
(* compiles the three of a configuration, then looks for a key that two of *)
(* them share, by a breadth-first search over pairs of sets of automaton   *)
(* states, each iteration one step.  TopologyStatus, FabricNodeTopology    *)
(* and AutoLabel rely on the result: a key belongs to one Topology and to  *)
(* one tier.                                                               *)
(*                                                                         *)
(* Text is a sequence of character codes.  A template as configured is     *)
(* text with actions in it, Tier for {{ .Tier }} and Other for all else.   *)
(* That label keys are at most 63 characters long, may have a DNS prefix,  *)
(* and that a tier must fit an int, is left out.                           *)
(***************************************************************************)
EXTENDS Integers, Sequences, FiniteSets, Functions

CONSTANTS
  Configurations,  \* triples of templates: scaleUp, scaleOut, storage
  SampleTiers      \* the tiers whose keys are compared

ASSUME TemplateAssumptions ==
  /\ \A c \in Configurations : \A i \in 1 .. 3 : c[i] \in Seq(Nat)
  /\ SampleTiers \subseteq Nat \ {0}

Tier == 0
Other == 1
Digits == 48 .. 57
Alphanumeric == Digits \cup 65 .. 90 \cup 97 .. 122
Punctuation == {45, 46, 95}

VARIABLES
  setting,    \* the configured templates
  compiled,   \* those that are compiled
  comparing,  \* the two that are being compared, << >> before
  frontier,   \* intersectionExample's queue
  reached,    \* its visited pairs
  outcome     \* what CompileSet returns

labelVars == <<setting, compiled, comparing, frontier, reached, outcome>>

Decimal[n \in Nat] == IF n < 10 THEN <<48 + n>> ELSE Append(Decimal[n \div 10], 48 + (n % 10))

Value(digits) ==
  LET upTo[i \in 0 .. Len(digits)] == IF i = 0 THEN 0 ELSE 10 * upTo[i - 1] + digits[i] - 48
  IN upTo[Len(digits)]

Render(t, tier) == t.prefix \o Decimal[tier] \o t.suffix

\* The tier of a key, 0 when the key does not match.
MatchTier(t, key) ==
  LET digits == SubSeq(key, Len(t.prefix) + 1, Len(key) - Len(t.suffix))
  IN IF /\ digits # << >> /\ digits[1] # 48 /\ \A i \in DOMAIN digits : digits[i] \in Digits
        /\ key = t.prefix \o digits \o t.suffix
     THEN Value(digits) ELSE 0

\* validation.IsQualifiedName, for names without a prefix.
IsQualifiedName(key) ==
  /\ key # << >> /\ key[1] \in Alphanumeric /\ key[Len(key)] \in Alphanumeric
  /\ \A i \in DOMAIN key : key[i] \in Alphanumeric \cup Punctuation

Invalid == [prefix |-> <<Other>>, suffix |-> << >>]

Compile(raw) ==
  LET actions == {i \in DOMAIN raw : raw[i] \in {Tier, Other}}
  IN IF Cardinality(actions) # 1 \/ \E i \in actions : raw[i] = Other THEN Invalid
     ELSE LET at == CHOOSE i \in actions : TRUE
              t == [prefix |-> SubSeq(raw, 1, at - 1), suffix |-> SubSeq(raw, at + 1, Len(raw))]
          IN IF \A tier \in {1, 12} : IsQualifiedName(Render(t, tier)) THEN t ELSE Invalid

-----------------------------------------------------------------------------
(* tierLanguage: states 0 .. Len(prefix) read the prefix and the first     *)
(* digit, one state reads further digits, the others the suffix.           *)

DigitState(t) == Len(t.prefix) + 1
SuffixStart(t) == DigitState(t) + 1
AcceptState(t) == SuffixStart(t) + Len(t.suffix)

\* Mutant: the suffix is never entered.
MutClosure(t, states) == states

Closure(t, states) ==
  IF DigitState(t) \in states THEN states \cup {SuffixStart(t)} ELSE states

\* Mutant: a tier may start with 0.
MutStepOf(t, state, c) ==
  IF state < Len(t.prefix) THEN IF t.prefix[state + 1] = c THEN {state + 1} ELSE {}
  ELSE IF state \in {Len(t.prefix), DigitState(t)} THEN IF c \in Digits THEN {DigitState(t)} ELSE {}
  ELSE IF state < AcceptState(t) /\ t.suffix[state - SuffixStart(t) + 1] = c THEN {state + 1} ELSE {}

StepOf(t, state, c) ==
  IF state < Len(t.prefix) THEN IF t.prefix[state + 1] = c THEN {state + 1} ELSE {}
  ELSE IF state = Len(t.prefix) THEN IF c \in Digits \ {48} THEN {DigitState(t)} ELSE {}
  ELSE IF state = DigitState(t) THEN IF c \in Digits THEN {DigitState(t)} ELSE {}
  ELSE IF state < AcceptState(t) /\ t.suffix[state - SuffixStart(t) + 1] = c THEN {state + 1} ELSE {}

Transition(t, states, c) == Closure(t, UNION {StepOf(t, state, c) : state \in states})

LanguageAlphabet(l, r) ==
  Digits \cup Range(l.prefix) \cup Range(l.suffix) \cup Range(r.prefix) \cup Range(r.suffix)

Key(pair) == <<pair.left, pair.right>>

After(l, r, current, c) ==
  [left |-> Transition(l, current.left, c), right |-> Transition(r, current.right, c),
   example |-> Append(current.example, c)]

LastChar(pair) == pair.example[Len(pair.example)]

Successors(l, r, current) == {After(l, r, current, c) : c \in LanguageAlphabet(l, r)}

Earlier(pairs, p) == {q \in pairs : LastChar(q) < LastChar(p)}

InOrder(pairs) ==
  [i \in 1 .. Cardinality(pairs) |-> CHOOSE p \in pairs : Cardinality(Earlier(pairs, p)) = i - 1]

\* The loop over the alphabet: the pairs that are new, in the order of the
\* characters, each with the text that leads to it.
Discovered(next) ==
  InOrder({p \in next : /\ p.left # {} /\ p.right # {} /\ Key(p) \notin reached
                        /\ \A q \in Earlier(next, p) : Key(q) # Key(p)})

-----------------------------------------------------------------------------
Pending == [status |-> "pending"]

LabelInit ==
  /\ setting \in Configurations
  /\ compiled = << >> /\ comparing = << >> /\ frontier = << >> /\ reached = {}
  /\ outcome = Pending

CompileNext ==
  /\ outcome = Pending /\ Len(compiled) < 3
  /\ LET t == Compile(setting[Len(compiled) + 1])
     IN IF t = Invalid THEN outcome' = [status |-> "invalid"] /\ UNCHANGED compiled
        ELSE compiled' = Append(compiled, t) /\ UNCHANGED outcome
  /\ UNCHANGED <<setting, comparing, frontier, reached>>

\* intersectionExample begins.
Compare(l, r) ==
  LET start == [left |-> Closure(compiled[l], {0}), right |-> Closure(compiled[r], {0}), example |-> << >>]
  IN comparing' = <<l, r>> /\ frontier' = <<start>> /\ reached' = {Key(start)}

CompareFirst ==
  /\ Len(compiled) = 3 /\ comparing = << >>
  /\ Compare(1, 2)
  /\ UNCHANGED <<setting, compiled, outcome>>

\* Mutant: the pair at the head of the queue stays there.
MutAdvance(found) ==
  /\ frontier' = frontier \o found
  /\ reached' = reached \cup {Key(found[i]) : i \in DOMAIN found}

Advance(found) ==
  /\ frontier' = Tail(frontier) \o found
  /\ reached' = reached \cup {Key(found[i]) : i \in DOMAIN found}

Search ==
  /\ outcome = Pending /\ frontier # << >>
  /\ LET l == compiled[comparing[1]]
         r == compiled[comparing[2]]
         current == Head(frontier)
     IN IF AcceptState(l) \in current.left /\ AcceptState(r) \in current.right
        THEN outcome' = [status |-> "overlap", example |-> current.example] /\ UNCHANGED <<frontier, reached>>
        ELSE /\ \E next \in {Successors(l, r, current)} : \E found \in {Discovered(next)} : Advance(found)
             /\ UNCHANGED outcome
  /\ UNCHANGED <<setting, compiled, comparing>>

\* The two templates share no key.
CompareNext ==
  /\ outcome = Pending /\ comparing # << >> /\ frontier = << >>
  /\ CASE comparing = <<1, 2>> -> Compare(1, 3) /\ UNCHANGED outcome
       [] comparing = <<1, 3>> -> Compare(2, 3) /\ UNCHANGED outcome
       [] comparing = <<2, 3>> -> outcome' = [status |-> "ok"] /\ UNCHANGED <<comparing, frontier, reached>>
  /\ UNCHANGED <<setting, compiled>>

LabelNext == CompileNext \/ CompareFirst \/ Search \/ CompareNext

LabelSpec == LabelInit /\ [][LabelNext]_labelVars

-----------------------------------------------------------------------------
\* CompileSet accepts templates only if every key that one of them renders is
\* read back as the tier it was rendered for, and is no key of the other two:
\* the search over automaton states misses no overlap, of whatever tiers.
KeysReadBack ==
  outcome.status = "ok" =>
    \A i, j \in 1 .. 3 : \A n \in SampleTiers :
      MatchTier(compiled[j], Render(compiled[i], n)) = IF i = j THEN n ELSE 0

\* The key that CompileSet gives as the example of an overlap is a key of both
\* templates, so no configuration is refused without a reason.
OverlapIsReal ==
  outcome.status = "overlap" =>
    \A i \in 1 .. 2 : MatchTier(compiled[comparing[i]], outcome.example) # 0
=============================================================================
