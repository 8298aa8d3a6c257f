----------------------------- MODULE TopicMatch -----------------------------
(***************************************************************************)
(* branch__match_topic: whether a topic filter matches a topic name.  The  *)
(* function walks two strings with two pointers; a string is a sequence of *)
(* characters here, and a character past its end is the terminator.        *)
(***************************************************************************)
EXTENDS Integers, Sequences

CONSTANTS
  Chars,  \* the characters of topic names, the separator "/" among them
  End     \* the terminating zero

\* The characters of filters.
FilterChars == Chars \cup {"+", "#"}

ASSUME CharsAssumption ==
  "/" \in Chars /\ {"+", "#"} \cap Chars = {} /\ End \notin FilterChars

At(s, i) == IF i <= Len(s) THEN s[i] ELSE End

\* The end of the level that position j of a topic is in.
LevelEnd(topic, j) ==
  CHOOSE k \in j .. Len(topic) + 1 :
    /\ At(topic, k) \in {"/", End}
    /\ \A i \in j .. k - 1 : At(topic, i) \notin {"/", End}

\* Mutant: the levels that "#" stands for may not be none.
RestMatchesSome(filter, topic, f, t) ==
  \/ At(filter, f) = "#" /\ At(filter, f + 1) = End
  \/ At(filter, f) = End /\ At(topic, t) = End

\* What the function returns once one of the strings is at its end.
RestMatches(filter, topic, f, t) ==
  \/ At(filter, f) = "#" /\ At(filter, f + 1) = End
  \/ /\ At(topic, t) = End
     /\ At(filter, f) = "/" /\ At(filter, f + 1) = "#" /\ At(filter, f + 2) = End
  \/ At(filter, f) = End /\ At(topic, t) = End

\* Where in the topic the loop may be to return 1, with the filter's pointer at f, if
\* `next' is that for f + 1: every round moves the filter's pointer on by one.
Matching(filter, topic, f, next) ==
  {t \in 1 .. Len(topic) + 1 :
     IF At(filter, f) = End \/ At(topic, t) = End THEN RestMatches(filter, topic, f, t)
     ELSE \/ /\ filter[f] = "+"
             /\ LET k == LevelEnd(topic, t)
                IN  ~(At(topic, k) = "/" /\ At(filter, f + 1) = End) /\ k \in next
          \/ filter[f] = "#" /\ At(filter, f + 1) = End
          \/ filter[f] \notin {"+", "#"} /\ filter[f] = topic[t] /\ t + 1 \in next}

MatchTopic(filter, topic) ==
  LET from[f \in 1 .. Len(filter) + 1] == Matching(filter, topic, f, from[f + 1])
  IN  1 \in from[1]

---------------------------------------------------------------------------
(***************************************************************************)
(* The reference: MQTT's rule, stated on levels.                           *)
(***************************************************************************)
\* The levels of a string: what is between its separators.
Levels(s) ==
  LET split[i \in 0 .. Len(s)] ==
        IF i = 0 THEN <<<<>>>>
        ELSE LET ls == split[i - 1]
             IN  IF s[i] = "/" THEN Append(ls, <<>>)
                 ELSE [ls EXCEPT ![Len(ls)] = Append(@, s[i])]
  IN  split[Len(s)]

\* A filter is valid if wildcards fill their levels and "#" is the last one.
ValidFilter(filter) ==
  LET ls == Levels(filter)
  IN  \A k \in 1 .. Len(ls) :
        /\ \A i \in 1 .. Len(ls[k]) : ls[k][i] \in {"+", "#"} => Len(ls[k]) = 1
        /\ ls[k] = <<"#">> => k = Len(ls)

\* "+" stands for one level, whatever it is, also an empty one.
LevelMatches(level, other) == level \in {other, <<"+">>}

\* "#" stands for the levels from its own on, or for none.
MatchesByLevels(filter, topic) ==
  LET fs   == Levels(filter)
      ts   == Levels(topic)
      hash == fs[Len(fs)] = <<"#">>
      own  == IF hash THEN Len(fs) - 1 ELSE Len(fs)
  IN  /\ IF hash THEN own <= Len(ts) ELSE own = Len(ts)
      /\ \A k \in 1 .. own : LevelMatches(fs[k], ts[k])

\* The topic ends with an empty level, and "+" stands for it.
PlusForEmptyEnd(filter, topic) ==
  LET fs   == Levels(filter)
      ts   == Levels(topic)
      last == Len(ts)
  IN  ts[last] = <<>> /\ last <= Len(fs) /\ fs[last] = <<"+">>

---------------------------------------------------------------------------
(***************************************************************************)
(* Every filter and topic up to MaxLen characters.                         *)
(***************************************************************************)
CONSTANT MaxLen

VARIABLES filter, topic

Init == filter = <<>> /\ topic = <<>>

\* What a string becomes next; after the longest ones it starts again.
Grown(s, chars) == IF Len(s) < MaxLen THEN {Append(s, c) : c \in chars} ELSE {<<>>}

GrowFilter == filter' \in Grown(filter, FilterChars) /\ UNCHANGED topic

GrowTopic == topic' \in Grown(topic, Chars) /\ UNCHANGED filter

Next == GrowFilter \/ GrowTopic

Spec == Init /\ [][Next]_<<filter, topic>>

\* branch__match_topic decides by levels although it never looks at them, for every
\* valid filter: at the ends of the two strings, at adjacent separators and at wildcards
\* that stand for empty levels or for none.  With one exception: it lets "+" stand for an
\* empty level anywhere but at the end of the topic.
DecidesByLevels ==
  ValidFilter(filter) =>
    (MatchTopic(filter, topic)
       <=> MatchesByLevels(filter, topic) /\ ~PlusForEmptyEnd(filter, topic))

\* READMEs: MQTT 3.1.1 with full protocol support and wildcards.  There "+" stands for an
\* empty level at the end as well: "sport/+" matches "sport/".
DecidesAsInMqtt ==
  ValidFilter(filter) /\ topic # <<>> =>
    (MatchTopic(filter, topic) <=> MatchesByLevels(filter, topic))
=============================================================================
