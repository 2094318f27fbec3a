---------------------------- MODULE TextServices ----------------------------
(***************************************************************************)
(* The services that let a local language model work on a finished text:   *)
(* RefinerService (refiner_service.py), which corrects it, and             *)
(* CoachService (coach_service.py) with its CoachCache (coach_cache.py),   *)
(* which comments on it.  Each keeps one loaded model behind a lock, and   *)
(* is called from several threads.                                         *)
(* A text is a sequence of words, and of signs between them.  The refiner  *)
(* protects the long words by placeholders, and looks at the letters of    *)
(* words that are ASCII: of an accented word at some, of words in another  *)
(* script at none.  What the models answer is a free choice.               *)
(***************************************************************************)
EXTENDS Naturals, FiniteSets, Sequences, SequencesExt

CONSTANTS LongWords, ShortWords, \* words in ASCII of at least three characters, and others
          ForeignWords, \* words without a character of ASCII
          Sign,         \* what is no word
          RefinerTexts, \* the texts the refiner is given
          Answers,      \* bound: parts of what a model answers
          LanguageModels, \* models of the catalogue
          NRefines, NCoachings, \* bounds: calls of each service at a time
          CoachTexts,   \* texts, with the settings that are part of a key of the cache
          CacheLimit,   \* max_entries
          NCalls, NWriteFailures, NServiceRestarts \* bounds: calls, failures, restarts

\* The placeholder of a long word, which is no word itself; a word with accents, of whose
\* letters only those of w are ASCII.
Keep(w) == <<"keep", w>>
Accented(w) == <<"accented", w>>

Ascii == LongWords \cup ShortWords
Word == Ascii \cup {Accented(w) : w \in ShortWords} \cup ForeignWords

ASSUME TextAssumption ==
  /\ LongWords \cap ShortWords = {} /\ ForeignWords \cap Ascii = {} /\ Sign \notin Word
  /\ \A w \in ShortWords : Accented(w) \notin Ascii \cup ForeignWords
  /\ \A w \in LongWords : Keep(w) \notin Word \cup {Sign}
  /\ \A text \in RefinerTexts : text \in Seq(Word) /\ text # <<>>
  /\ Answers \in Nat
  /\ CacheLimit \in Nat \ {0} /\ NRefines \in Nat /\ NCoachings \in Nat
  /\ NCalls \in Nat /\ NWriteFailures \in Nat /\ NServiceRestarts \in Nat

Services == {"refiner", "coach"}
RefineCalls == {"refiner"} \X (1 .. NRefines)
CoachCalls == {"coach"} \X (1 .. NCoachings)
ServiceCalls == RefineCalls \cup CoachCalls
ServiceOf(c) == c[1]

VARIABLES
  servedModel,  \* _llm and _loaded_model_id of each service
  modelLock,    \* _lock of each: the call that holds it
  textCall,     \* each call: where it is, what it was asked and what it gave
  cache,        \* _entries: from keys to results and the time of their last use
  cacheFile,    \* what the file holds, in a sequence of one
  cacheClock,   \* time
  cacheBehind,  \* history: writing the file failed, since it was last written
  callsLeft, writeFailuresLeft, restartsLeft  \* for the bounds

cacheVars == <<cache, cacheFile, cacheClock, cacheBehind, writeFailuresLeft>>
textVars == <<servedModel, modelLock, textCall, cacheVars, callsLeft, restartsLeft>>

NoModel == "none"
Free == <<"nobody", 0>>
Resting == [step |-> "idle"]
NoEntries == [k \in {} |-> k]
NoCacheFile == <<>>  \* no file, or one that is broken

TextInit ==
  /\ servedModel = [s \in Services |-> NoModel] /\ modelLock = [s \in Services |-> Free]
  /\ textCall = [c \in ServiceCalls |-> Resting]
  /\ cache = NoEntries /\ cacheFile = NoCacheFile /\ cacheClock = 0 /\ cacheBehind = FALSE
  /\ callsLeft = NCalls /\ writeFailuresLeft = NWriteFailures
  /\ restartsLeft = NServiceRestarts

\* A record with more fields, or other values of them.
Updated(r, fields) ==
  [f \in DOMAIN r \cup DOMAIN fields |-> IF f \in DOMAIN fields THEN fields[f] ELSE r[f]]

Steps(c, fields) == textCall' = [textCall EXCEPT ![c] = Updated(textCall[c], fields)]
Ends(c, fields) == Steps(c, Updated(fields, [step |-> "idle"]))
Idles(c) == textCall[c].step = "idle" /\ callsLeft > 0 /\ callsLeft' = callsLeft - 1

-----------------------------------------------------------------------------
(* What the refiner accepts                                                *)

\* _protect_sensitive_tokens(): a word that comes again gets the same placeholder.
Protected(text) == [i \in DOMAIN text |-> IF text[i] \in LongWords THEN Keep(text[i])
                                                                  ELSE text[i]]
Kept(text) == LongWords \cap ToSet(text)

\* _placeholders_intact(): each is there once.
PlaceholdersIntact(answer, text) ==
  \A w \in Kept(text) : Cardinality({i \in DOMAIN answer : answer[i] = Keep(w)}) = 1

\* _restore_sensitive_tokens().
Restored(answer, text) ==
  [i \in DOMAIN answer |->
     IF \E w \in Kept(text) : answer[i] = Keep(w)
     THEN CHOOSE w \in Kept(text) : answer[i] = Keep(w) ELSE answer[i]]

\* What the patterns of _protected_tokens() find of a word: what is ASCII of it.
Seen(x) == IF \E w \in ShortWords : x = Accented(w) THEN x[2]
           ELSE IF x \in Ascii THEN x ELSE Sign

\* _protected_tokens(), without their case.
Tokens(text) == SelectSeq([i \in DOMAIN text |-> Seen(text[i])], LAMBDA x : x # Sign)

\* There are a third more words than before, or less.
OtherLength(text, new) == 100 * Len(new) > 135 * Len(text) \/ 100 * Len(new) < 65 * Len(text)

\* Variant of UnsafeRewrite: what is there is compared, not its order.
UnsafeSet(text, new) == ToSet(Tokens(text)) # ToSet(Tokens(new)) \/ OtherLength(text, new)

\* _is_unsafe_rewrite().
UnsafeRewrite(text, new) == Tokens(text) # Tokens(new) \/ OtherLength(text, new)

\* refine_text(), from the model's answer on, without the tags and quotes around it.
Accepts(text, answer) ==
  /\ answer # <<>> /\ PlaceholdersIntact(answer, text)
  /\ ~UnsafeRewrite(text, Restored(answer, text))
AnswersTo(text) ==
  UNION {[1 .. n -> {Sign} \cup Word \cup {Keep(w) : w \in Kept(text)}] : n \in 0 .. Answers}

\* What becomes of a text, for all answers.
Judged(text, answer) ==
  LET used == Accepts(text, answer)
  IN  [how |-> IF used THEN "used" ELSE "refused",
       out |-> IF used THEN Restored(answer, text) ELSE text,
       unchanged |-> answer = Protected(text)]
Judgements == [text \in RefinerTexts |-> {Judged(text, answer) : answer \in AnswersTo(text)}]

\* A result of the coach, with the model that made it: NoModel for a fallback.
Result(text, privacy, by) == [text |-> text, privacy |-> privacy, by |-> by]

-----------------------------------------------------------------------------
(* The model of a service                                                  *)

\* _ensure_model() of both services: the lock is held while a model is loaded; the model that
\* is there is given back, and used after the lock was released.
TakesLock(c) ==
  /\ textCall[c].step = "ask" /\ modelLock[ServiceOf(c)] = Free
  /\ IF servedModel[ServiceOf(c)] = textCall[c].model
     THEN /\ Steps(c, [step |-> "complete", llm |-> servedModel[ServiceOf(c)]])
          /\ UNCHANGED modelLock
     ELSE Steps(c, [step |-> "load"]) /\ modelLock' = [modelLock EXCEPT ![ServiceOf(c)] = c]
  /\ UNCHANGED <<servedModel, cacheVars, callsLeft, restartsLeft>>

LoadsModel(c) ==
  /\ textCall[c].step = "load"
  /\ servedModel' = [servedModel EXCEPT ![ServiceOf(c)] = textCall[c].model]
  /\ Steps(c, [step |-> "complete", llm |-> textCall[c].model])
  /\ modelLock' = [modelLock EXCEPT ![ServiceOf(c)] = Free]
  /\ UNCHANGED <<cacheVars, callsLeft, restartsLeft>>

\* The model is not installed or cannot be loaded: the one that was there stays.
LoadFails(c) ==
  /\ textCall[c].step = "load"
  /\ Ends(c, [how |-> "fallback",
              out |-> IF c \in RefineCalls THEN textCall[c].text
                      ELSE Result(textCall[c].text, textCall[c].privacy, NoModel)])
  /\ modelLock' = [modelLock EXCEPT ![ServiceOf(c)] = Free]
  /\ UNCHANGED <<servedModel, cacheVars, callsLeft, restartsLeft>>

\* unload() of the refiner waits for the lock, not for those who use the model.
Unloads ==
  /\ modelLock["refiner"] = Free /\ servedModel["refiner"] # NoModel
  /\ servedModel' = [servedModel EXCEPT !["refiner"] = NoModel]
  /\ UNCHANGED <<modelLock, textCall, cacheVars, callsLeft, restartsLeft>>

-----------------------------------------------------------------------------
(* The refiner                                                             *)

\* refine_text(): nothing to do, or no model to do it with; else the model is asked for.
RefineText(c) ==
  /\ c \in RefineCalls /\ Idles(c)
  /\ \E text \in RefinerTexts :
       \/ \E m \in LanguageModels :
            textCall' = [textCall EXCEPT ![c] = [step |-> "ask", text |-> text, model |-> m]]
       \/ textCall' = [textCall EXCEPT ![c] = [step |-> "idle", text |-> text,
                                               how |-> "skipped", out |-> text]]
  /\ UNCHANGED <<servedModel, modelLock, cacheVars, restartsLeft>>

\* The model answers, or fails.
Refines(c) ==
  /\ c \in RefineCalls /\ textCall[c].step = "complete"
  /\ \/ Ends(c, [how |-> "fallback", out |-> textCall[c].text, llm |-> textCall[c].llm])
     \/ \E judged \in Judgements[textCall[c].text] :
          Ends(c, Updated(judged, [by |-> textCall[c].llm]))
  /\ UNCHANGED <<servedModel, modelLock, cacheVars, callsLeft, restartsLeft>>

-----------------------------------------------------------------------------
(* The coach and its cache                                                 *)

\* Variant of Key: without the privacy mode.
KeyOfText(text, privacy) == <<text, "any">>

\* build_key() of what the call is about: not of the model.
Key(text, privacy) == <<text, privacy>>

\* The newest entries, as many as may be kept.
Newest(entries) ==
  [k \in {x \in DOMAIN entries :
            Cardinality({y \in DOMAIN entries : entries[y].at > entries[x].at}) < CacheLimit}
     |-> entries[k]]

\* get() and put() with _persist(): the file is written in place, or that fails, or leaves
\* it broken; the entries are those in memory anyhow.
Persists(entries, ok) ==
  /\ cache' = Newest(entries) /\ cacheClock' = cacheClock + 1
  /\ \/ ok /\ cacheFile' = <<cache'>> /\ cacheBehind' = FALSE /\ UNCHANGED writeFailuresLeft
     \/ /\ ~ok /\ writeFailuresLeft > 0 /\ writeFailuresLeft' = writeFailuresLeft - 1
        /\ cacheFile' \in {cacheFile, NoCacheFile} /\ cacheBehind' = TRUE
WithEntry(key, result) ==
  [k \in DOMAIN cache \cup {key} |->
     IF k = key THEN [result |-> result, at |-> cacheClock] ELSE cache[k]]

\* generate(): the cache; then, if nothing may leave the rules, the fallback, which is cached
\* too; without a runtime the fallback, which is not; else the model is asked for.  A failed
\* write is the caller's.
Generate(c) ==
  /\ c \in CoachCalls /\ Idles(c)
  /\ \E text \in CoachTexts, privacy \in {"local_only", "allow_llm"}, ok \in BOOLEAN :
       LET key == Key(text, privacy)
           call(how, fields) == textCall' = [textCall EXCEPT ![c] =
             Updated([how |-> how, text |-> text, privacy |-> privacy], fields)]
       IN  \/ /\ key \in DOMAIN cache /\ Persists(WithEntry(key, cache[key].result), ok)
              /\ call(IF ok THEN "cache" ELSE "raised",
                      [step |-> "idle", out |-> cache[key].result])
           \/ /\ key \notin DOMAIN cache /\ privacy = "local_only"
              /\ Persists(WithEntry(key, Result(text, privacy, NoModel)), ok)
              /\ call(IF ok THEN "local" ELSE "raised",
                      [step |-> "idle", out |-> Result(text, privacy, NoModel)])
           \/ /\ key \notin DOMAIN cache /\ privacy # "local_only" /\ ok
              /\ UNCHANGED cacheVars
              /\ \/ call("fallback", [step |-> "idle", out |-> Result(text, privacy, NoModel)])
                 \/ \E m \in LanguageModels : call("model", [step |-> "ask", model |-> m])
  /\ UNCHANGED <<servedModel, modelLock, restartsLeft>>

\* The model answers: with what _parse_candidate() takes, which is cached, and with anything
\* else, or when it cannot be written, there is the fallback.
Coaches(c) ==
  /\ c \in CoachCalls /\ textCall[c].step = "complete"
  /\ LET call == textCall[c]
         made(by) == Result(call.text, call.privacy, by)
     IN  \/ \E ok \in BOOLEAN :
              /\ Persists(WithEntry(Key(call.text, call.privacy), made(call.llm)), ok)
              /\ Ends(c, [how |-> IF ok THEN "model" ELSE "fallback",
                          out |-> made(IF ok THEN call.llm ELSE NoModel)])
         \/ /\ Ends(c, [how |-> "fallback", out |-> made(NoModel)])
            /\ UNCHANGED cacheVars
  /\ UNCHANGED <<servedModel, modelLock, callsLeft, restartsLeft>>

-----------------------------------------------------------------------------
\* The process ends and is started again; _load() takes a broken file for an empty one.
ServicesRestart ==
  /\ restartsLeft > 0 /\ restartsLeft' = restartsLeft - 1
  /\ servedModel' = [s \in Services |-> NoModel] /\ modelLock' = [s \in Services |-> Free]
  /\ textCall' = [c \in ServiceCalls |-> Resting]
  /\ cache' = (IF cacheFile = NoCacheFile THEN NoEntries ELSE cacheFile[1])
  /\ cacheBehind' = FALSE
  /\ UNCHANGED <<cacheFile, cacheClock, callsLeft, writeFailuresLeft>>

RefinerNext ==
  \/ \E c \in RefineCalls : \/ RefineText(c) \/ TakesLock(c) \/ LoadsModel(c) \/ LoadFails(c)
                            \/ Refines(c)
  \/ Unloads

CoachNext ==
  \/ \E c \in CoachCalls : \/ Generate(c) \/ TakesLock(c) \/ LoadsModel(c) \/ LoadFails(c)
                           \/ Coaches(c)
  \/ ServicesRestart

TextNext == RefinerNext \/ CoachNext

TextSpec == TextInit /\ [][TextNext]_textVars

-----------------------------------------------------------------------------
(* Properties                                                              *)

TextTypeOK ==
  /\ servedModel \in [Services -> LanguageModels \cup {NoModel}]
  /\ \A c \in ServiceCalls : textCall[c].step \in {"idle", "ask", "load", "complete"}
  /\ \A s \in Services : modelLock[s] \in ServiceCalls \cup {Free}
  /\ Cardinality(DOMAIN cache) <= CacheLimit /\ cacheClock \in 0 .. NCalls
  /\ callsLeft \in 0 .. NCalls /\ restartsLeft \in 0 .. NServiceRestarts

\* One model at a time is loaded for a service, whoever asks for it and however often it is
\* unloaded meanwhile; who loads has the lock.
OneIsLoaded ==
  \A c \in ServiceCalls : textCall[c].step = "load" <=> modelLock[ServiceOf(c)] = c

Answered(c, hows) == "how" \in DOMAIN textCall[c] /\ textCall[c].step = "idle"
                     /\ textCall[c].how \in hows

\* A text that was worked on, or commented on, was so by the model that was asked for, although
\* another call changes the model, or unloads it, before it is used: except for what the cache
\* gives, which may be another model's.
AskedModelAnswers ==
  /\ \A c \in RefineCalls : Answered(c, {"used"}) => textCall[c].by = textCall[c].model
  /\ \A c \in CoachCalls : Answered(c, {"model"}) => textCall[c].out.by = textCall[c].model

\* Whatever the model answers, what is ASCII in a text stays, in its order, and the number of
\* words within 35 %; what is refused is given back as it was.  Words of other scripts, and
\* the other letters of an accented word, may change: nothing in the code compares them.
WordsStay ==
  \A c \in RefineCalls : Answered(c, {"skipped", "fallback", "refused", "used"}) =>
    /\ Tokens(textCall[c].out) = Tokens(textCall[c].text)
    /\ ~OtherLength(textCall[c].text, textCall[c].out)
    /\ textCall[c].how # "used" => textCall[c].out = textCall[c].text

\* A model that gives its text back unchanged, as it is told to do with a correct one
\* (refiner_prompts.py), is accepted, unless a long word comes twice in it.
UnchangedIsAccepted ==
  \A c \in RefineCalls : Answered(c, {"refused"}) /\ textCall[c].unchanged =>
    \E i, j \in DOMAIN textCall[c].text :
      i < j /\ textCall[c].text[i] = textCall[c].text[j] /\ textCall[c].text[i] \in LongWords

\* What the coach gives is about the text and the privacy it was asked for, and for a text that
\* has to stay local no model is ever used, even if one commented on it before.
LocalStaysLocal ==
  \A c \in CoachCalls : Answered(c, {"cache", "local", "fallback", "model"}) =>
    LET out == textCall[c].out
    IN  /\ out.text = textCall[c].text /\ out.privacy = textCall[c].privacy
        /\ out.privacy = "local_only" => out.by = NoModel

\* A restart brings back every entry of the cache, unless writing the file failed.
RestartKeepsCache ==
  ~cacheBehind => cache = IF cacheFile = NoCacheFile THEN NoEntries ELSE cacheFile[1]

TextInv ==
  /\ TextTypeOK /\ OneIsLoaded /\ AskedModelAnswers /\ WordsStay /\ UnchangedIsAccepted
  /\ LocalStaysLocal /\ RestartKeepsCache
=============================================================================
