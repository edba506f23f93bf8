----------------------------- MODULE TopicMatch -----------------------------
(* MQTT_MatchTopic of core_mqtt.c.  Names and filters are sequences of     *)
(* characters, counted from 1.                                             *)
EXTENDS Integers, Sequences, FiniteSetsExt

(* matchEndWildcardsSpecialCases: the name has ended at filterIndex.       *)
MatchEndWildcards(filter, filterIndex) ==
    \/ /\ filterIndex = Len(filter) - 2
       /\ filter[filterIndex + 1] = "/" /\ filter[filterIndex + 2] = "#"
    \/ /\ filterIndex = Len(filter) - 1
       /\ filter[filterIndex] = "/" /\ filter[filterIndex + 1] \in {"+", "#"}

(* A wildcard is valid at the start of a level only.                       *)
ValidForWildcard(filter, filterIndex) == filterIndex = 1 \/ filter[filterIndex - 1] = "/"

(* The first separator at or after nameIndex, or the place after the name. *)
LevelEnd(name, nameIndex) ==
    Min({j \in nameIndex .. Len(name) : name[j] = "/"} \union {Len(name) + 1})

(* Mutant: a + that ends the filter takes all the levels that follow.      *)
MatchGreedy(name, filter) ==
    LET Match[at \in (1 .. Len(name) + 1) \X (1 .. Len(filter) + 1)] ==
        LET n == at[1]
            f == at[2]
        IN  IF n > Len(name) \/ f > Len(filter) THEN n > Len(name) /\ f > Len(filter)
            ELSE IF name[n] = filter[f]
            THEN (n = Len(name) /\ MatchEndWildcards(filter, f)) \/ Match[<<n + 1, f + 1>>]
            ELSE IF filter[f] = "+" /\ ValidForWildcard(filter, f)
            THEN f = Len(filter) \/ (LevelEnd(name, n) > Len(name) /\ Match[<<Len(name) + 1, f + 1>>])
            ELSE filter[f] = "#" /\ f = Len(filter) /\ ValidForWildcard(filter, f)
    IN  Match[<<1, 1>>]

(* matchTopicFilter with matchWildcards: both indices move on together; a  *)
(* + takes a level of the name, and the separators after it are skipped    *)
(* without a look at what the name leaves.                                 *)
MatchTopicFilter(name, filter) ==
    LET Match[at \in (1 .. Len(name) + 1) \X (1 .. Len(filter) + 1)] ==
        LET n == at[1]
            f == at[2]
            end == LevelEnd(name, n)
        IN  IF n > Len(name) \/ f > Len(filter) THEN n > Len(name) /\ f > Len(filter)
            ELSE IF name[n] = filter[f]
            THEN (n = Len(name) /\ MatchEndWildcards(filter, f)) \/ Match[<<n + 1, f + 1>>]
            ELSE IF filter[f] = "+" /\ ValidForWildcard(filter, f)
            THEN IF end > Len(name) THEN Match[<<end, f + 1>>]
                 ELSE f < Len(filter) /\ filter[f + 1] = "/" /\ Match[<<end + 1, f + 2>>]
            ELSE filter[f] = "#" /\ f = Len(filter) /\ ValidForWildcard(filter, f)
    IN  Match[<<1, 1>>]

(* MQTT_MatchTopic                                                         *)
MatchTopic(name, filter) ==
    \/ name = filter
    \/ /\ ~ (name[1] = "$" /\ filter[1] \in {"+", "#"})
       /\ MatchTopicFilter(name, filter)

-----------------------------------------------------------------------------
(* What MQTT 3.1.1 says (external): levels between separators, compared    *)
(* one by one.                                                             *)

Levels(s) ==
    LET cuts == {i \in 1 .. Len(s) : s[i] = "/"} \union {0, Len(s) + 1}
        start(k) == CHOOSE c \in cuts : Cardinality({d \in cuts : d < c}) = k - 1
    IN  [k \in 1 .. Cardinality(cuts) - 1 |-> SubSeq(s, start(k) + 1, start(k + 1) - 1)]

LevelOk(nameLevel, filterLevel) == filterLevel = <<"+">> \/ nameLevel = filterLevel

ValidFilter(levels) ==
    \A k \in DOMAIN levels : \A i \in DOMAIN levels[k] :
        /\ levels[k][i] \in {"+", "#"} => Len(levels[k]) = 1
        /\ levels[k][i] = "#" => k = Len(levels)

SpecMatch(name, filter) ==
    LET nl == Levels(name)
        fl == Levels(filter)
        all == fl[Len(fl)] = <<"#">>
        fixed == IF all THEN Len(fl) - 1 ELSE Len(fl)
    IN  /\ ValidFilter(fl)
        /\ ~ (name[1] = "$" /\ filter[1] \in {"+", "#"})
        /\ IF all THEN Len(nl) >= fixed ELSE Len(nl) = fixed
        /\ \A k \in 1 .. fixed : LevelOk(nl[k], fl[k])

(* What the code misses: the name ends with the level a + takes, or with   *)
(* the separator after it, and the filter goes on with a last wildcard     *)
(* that would match nothing, or an empty level.                            *)
Missed(name, filter) ==
    LET nl == Levels(name)
        fl == Levels(filter)
        end == Len(nl)
    IN  \/ Len(fl) = end + 1 /\ fl[end] = <<"+">> /\ fl[end + 1] = <<"#">>
        \/ /\ end >= 2 /\ nl[end] = <<>>
           /\ Len(fl) >= end /\ fl[end - 1] = <<"+">>
           /\ SubSeq(fl, end, Len(fl)) \in {<<<<"+">>>>, <<<<"#">>>>, <<<<>>, <<"#">>>>}
=============================================================================
