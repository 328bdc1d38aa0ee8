----------------------------- MODULE StopNames -----------------------------
(***************************************************************************)
(* GTFSStopsParser::normalizeName, which decides which stop gives a station *)
(* its place.  A name is a sequence of Unicode code points.                 *)
(***************************************************************************)
EXTENDS Naturals, SequencesExt

Space == 32

\* ASCII capitals, then the replacements in both cases; brackets and dots go
Replacements ==
    {<<{200, 201, 202, 203, 232, 233, 234, 235}, <<101>>>>, <<{192, 194, 196, 224, 226, 228}, <<97>>>>,
     <<{206, 207, 238, 239}, <<105>>>>, <<{212, 214, 244, 246}, <<111>>>>,
     <<{217, 219, 220, 249, 251, 252}, <<117>>>>, <<{199, 231}, <<99>>>>,
     <<{338, 339}, <<111, 101>>>>, <<{39, 45}, <<Space>>>>, <<{40, 41, 46}, <<>>>>}

Replaced(c) ==
    IF c \in 65..90 THEN <<c + 32>>
    ELSE IF \E row \in Replacements : c \in row[1]
         THEN (CHOOSE row \in Replacements : c \in row[1])[2] ELSE <<c>>

\* one space between words, none at either end
Squeezed(s) ==
    LET Kept(i) == s[i] # Space \/ /\ i > 1 /\ s[i - 1] # Space
                                   /\ \E j \in i + 1..Len(s) : s[j] # Space
        kept == SelectSeq([i \in DOMAIN s |-> i], Kept)
    IN  [k \in DOMAIN kept |-> s[kept[k]]]

NormalizeName(name) == Squeezed(FlattenSeq([i \in DOMAIN name |-> Replaced(name[i])]))
=============================================================================
