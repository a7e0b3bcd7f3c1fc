-------------------------------- MODULE Speech --------------------------------
(***************************************************************************)
(* Speech for the facilitator's turns and the agents' answers: a cache of  *)
(* what was synthesized, bounded in entries and in age, and the marks that *)
(* tell at which character of the audio each sentence begins.              *)
(*                                                                         *)
(* Audio is named by the text it is of.  Case is left out, and the start   *)
(* of a character in the audio is its position.                            *)
(***************************************************************************)
EXTENDS Sql, Sorting, Sequences, SequencesExt, FiniteSetsExt

CONSTANTS
    Texts,        \* what is asked to be spoken
    Listeners,    \* requests in flight at a time
    Lines,        \* texts, as sequences of characters, that marks are made for
    MaxEntries,   \* max_entries
    MaxSpoken     \* bound on requests served

ASSUME SpeechAssumption ==
    /\ MaxEntries \in Nat \ {0} /\ MaxSpoken \in Nat
    /\ Lines \subseteq Seq(STRING)

VARIABLES
    entries,     \* _entries, the least recently used first
    listener,    \* the text each request waits for
    spoken,      \* history: requests served, the number of the last one
    used,        \* history: the last request each text was served to, 0 since it expired
    line         \* the text whose marks are looked at

speechVars == <<entries, listener, spoken, used, line>>

SpeechTypeOK ==
    /\ entries \in Seq(Texts) /\ IsInjective(entries)
    /\ listener \in [Listeners -> Texts \cup {NULL}]
    /\ spoken \in 0 .. MaxSpoken
    /\ used \in [Texts -> 0 .. MaxSpoken]
    /\ line \in Lines

SpeechInit ==
    /\ entries = <<>>
    /\ listener = [s \in Listeners |-> NULL]
    /\ spoken = 0
    /\ used = [t \in Texts |-> 0]
    /\ line \in Lines

-----------------------------------------------------------------------------
(* The cache.                                                              *)

Serve(t) ==
    /\ spoken < MaxSpoken
    /\ spoken' = spoken + 1
    /\ used' = [used EXCEPT ![t] = spoken + 1]

Touch_Stays(t) == entries

\* AudioCache.get of an entry young enough.
Touch(t) == Append(RemoveFirst(entries, t), t)

\* synthesize_speech, on a hit.
Hit(t) ==
    /\ t \in ToSet(entries)
    /\ Serve(t)
    /\ entries' = Touch(t)
    /\ UNCHANGED <<listener, line>>

\* synthesize_speech, on a miss: the service is asked, whoever else has asked it.
Ask(s, t) ==
    /\ listener[s] = NULL
    /\ t \notin ToSet(entries)
    /\ listener' = [listener EXCEPT ![s] = t]
    /\ UNCHANGED <<entries, spoken, used, line>>

\* AudioCache.put: the least recently used goes.
Put(t) ==
    LET q == Append(RemoveFirst(entries, t), t)
    IN  IF Len(q) > MaxEntries THEN Tail(q) ELSE q

\* The service answers, or fails.
Answer(s) ==
    /\ listener[s] # NULL
    /\ \/ Serve(listener[s]) /\ entries' = Put(listener[s])
       \/ UNCHANGED <<entries, spoken, used>>
    /\ listener' = [listener EXCEPT ![s] = NULL]
    /\ UNCHANGED line

\* An entry older than ttl_seconds is found by get, and goes.
Expire(t) ==
    /\ t \in ToSet(entries)
    /\ entries' = RemoveFirst(entries, t)
    /\ used' = [used EXCEPT ![t] = 0]
    /\ UNCHANGED <<listener, spoken, line>>

SpeechNext ==
    \/ \E t \in Texts : Hit(t) \/ Expire(t)
    \/ \E s \in Listeners : Answer(s) \/ \E t \in Texts : Ask(s, t)

SpeechSpec == SpeechInit /\ [][SpeechNext]_speechVars

-----------------------------------------------------------------------------
(* The marks.                                                              *)

Terminators == {".", "!", "?"}

\* split_sentences, as the positions of the first characters that are not blank: a sentence
\* goes on to the end of the next terminators, and one of blanks alone is dropped.
Sentences(text) ==
    LET start(i) == i = 1 \/ (text[i - 1] \in Terminators /\ text[i] \notin Terminators)
        end(i) == CHOOSE k \in i .. Len(text) : /\ k = Len(text) \/ start(k + 1)
                                                /\ \A j \in i + 1 .. k : ~start(j)
        marked(i) == {k \in i .. end(i) : text[k] # " "}
    IN  SortedBy({Min(marked(i)) : i \in {i \in DOMAIN text : start(i) /\ marked(i) # {}}}, [i \in DOMAIN text |-> i])

Anchors_SkipOne(text, chars) ==
    LET first == Sentences(text)
        f[k \in 0 .. Len(first)] == \* the anchors of the first k sentences, and the cursor
            IF k = 0 THEN [marks |-> <<>>, cursor |-> 1]
            ELSE LET at == {j \in f[k - 1].cursor .. Len(chars) : chars[j] = text[first[k]]}
                 IN  IF at = {} THEN [f[k - 1] EXCEPT !.marks = Append(@, 0)]
                     ELSE [marks |-> Append(f[k - 1].marks, Min(at)), cursor |-> Min(at) + 2]
    IN  f[Len(first)].marks

\* aggregate_sentence_marks: for each sentence the position it is anchored at, 0 where none is
\* found and its time is set in proportion.
Anchors(text, chars) ==
    LET first == Sentences(text)
        f[k \in 0 .. Len(first)] == \* the anchors of the first k sentences, and the cursor
            IF k = 0 THEN [marks |-> <<>>, cursor |-> 1]
            ELSE LET at == {j \in f[k - 1].cursor .. Len(chars) : chars[j] = text[first[k]]}
                 IN  IF at = {} THEN [f[k - 1] EXCEPT !.marks = Append(@, 0)]
                     ELSE [marks |-> Append(f[k - 1].marks, Min(at)), cursor |-> Min(at) + 1]
    IN  f[Len(first)].marks

-----------------------------------------------------------------------------
(* Properties.                                                             *)

\* What the bound on entries puts out of the cache was used before everything that is in it
\* (audio_cache.py:66).
RecentlyUsedStay ==
    /\ Len(entries) <= MaxEntries
    /\ \A t \in ToSet(entries), u \in Texts \ ToSet(entries) : used[u] < used[t]

\* Spoken as written, every sentence has its mark, each after the one before, and none after
\* the sentence really begins (synthesize_speech.py:77).
MarksAreNeverLate ==
    LET first == Sentences(line)  marks == Anchors(line, line)
    IN  \A k \in DOMAIN first : /\ marks[k] \in 1 .. first[k]
                                /\ \A j \in 1 .. k - 1 : marks[j] < marks[k]

\* The cache drops what was used longest ago, and marks are in order and never after their
\* sentence (audio_cache.py:66, synthesize_speech.py:77).
SpeechIsServed == SpeechTypeOK /\ RecentlyUsedStay /\ MarksAreNeverLate

=============================================================================
