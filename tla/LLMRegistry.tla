----------------------------- MODULE LLMRegistry -----------------------------
(***************************************************************************)
(* core/llm_registry.py, and the choice of converter in core/service.py:   *)
(* worker threads share a cache of LLM clients, bounded in size and in the *)
(* age of its entries.  One lock covers the look into the cache and the    *)
(* building of what is missing.  A client that leaves the cache goes on    *)
(* serving the conversions that hold it.                                   *)
(*                                                                         *)
(* A text is the sequence of its pieces between bars: "a|b" is <<"a","b">> *)
(* and joining texts with bars is concatenation.                           *)
(***************************************************************************)
EXTENDS Naturals, FiniteSets, Sequences

CONSTANTS
  Job,       \* conversions, each run once by some worker thread
  Piece,     \* what texts are made of
  Empty,     \* the text of no character; a field that is absent has it, too
  Form,      \* Form[j]: the api_key, base_url and model that came with j
  DefaultUrl, DefaultModel,
  Strip(_), StripUrl(_),  \* strip(), and strip().rstrip("/"), of a text
  Digest(_), \* the 16 hexadecimal digits kept of sha256()
  MaxSize,   \* llm_cache_max_size; with 0 nothing can be stored
  Basic,     \* the converter without LLM
  Nobody

Text == Seq(Piece) \ {<<>>}
Fields == {Form[j].base_url : j \in Job} \cup {Form[j].model : j \in Job}

ASSUME RegistryAssumption ==
  /\ \A j \in Job : {"api_key", "base_url", "model"} \subseteq DOMAIN Form[j]
  /\ \A t \in Fields \cup {DefaultUrl, DefaultModel} :
       Strip(t) \in Text /\ StripUrl(t) \in Text
  /\ Basic \notin Job /\ Nobody \notin Job /\ Basic # Nobody
  /\ MaxSize \in Nat

VARIABLES
  at,     \* at[j]: where the thread of j is
  lock,   \* who holds the lock of the registry across a suspension
  cache,  \* the entries, least recently used first
  uses    \* uses[j]: the converter of j; a client is named by who built it

registry == <<at, lock, cache, uses>>

NoConfig == <<>>

\* "data.get(field) or default": blanks count as a value.
OrDefault(text, default) == IF text = Empty THEN default ELSE text

\* from_dict(): the api_key, the base_url and the model to be used.
from_dict(form) ==
  IF Strip(form.api_key) = Empty THEN NoConfig
  ELSE <<Strip(form.api_key),
         StripUrl(OrDefault(form.base_url, DefaultUrl)),
         Strip(OrDefault(form.model, DefaultModel))>>

Config(j) == from_dict(Form[j])

\* Mutant: the model is not part of the key.
KeyWithoutModel(config) == <<Digest(config[1])>> \o config[2]

\* The digest and the two texts, joined with bars.
cache_key(config) == <<Digest(config[1])>> \o config[2] \o config[3]

Key(j) == cache_key(Config(j))
Cached(k) == \E i \in DOMAIN cache : cache[i].key = k
Without(i) == SubSeq(cache, 1, i - 1) \o SubSeq(cache, i + 1, Len(cache))
Entry(j, client) == [key |-> Key(j), client |-> client]

Goes(j, place) == at' = [at EXCEPT ![j] = place]

RegistryInit ==
  /\ at = [j \in Job |-> "idle"] /\ lock = Nobody
  /\ cache = <<>> /\ uses = [j \in Job |-> Nobody]

-----------------------------------------------------------------------------
\* _select_converter(): without a key there is nothing to ask for.
Ask(j) ==
  /\ at[j] = "idle"
  /\ IF Config(j) = NoConfig
       THEN Goes(j, "converting") /\ uses' = [uses EXCEPT ![j] = Basic]
       ELSE Goes(j, "asking") /\ UNCHANGED uses
  /\ UNCHANGED <<lock, cache>>

\* get() finds a client, which becomes the most recently used.
Hit(j) ==
  /\ at[j] = "asking" /\ lock = Nobody
  /\ \E i \in DOMAIN cache :
       /\ cache[i].key = Key(j)
       /\ cache' = Append(Without(i), cache[i])
       /\ uses' = [uses EXCEPT ![j] = cache[i].client]
  /\ Goes(j, "converting")
  /\ UNCHANGED lock

\* Mutant: the lock is not held while the client is built.
MissUnlocked(j) ==
  /\ at[j] = "asking" /\ lock = Nobody /\ ~Cached(Key(j))
  /\ Goes(j, "building")
  /\ UNCHANGED <<lock, cache, uses>>

\* get() finds nothing, and builds under the lock.
Miss(j) ==
  /\ at[j] = "asking" /\ lock = Nobody /\ ~Cached(Key(j))
  /\ lock' = j /\ Goes(j, "building")
  /\ UNCHANGED <<cache, uses>>

\* TTLCache.__setitem__() drops the least recently used entry of a full cache;
\* NoBuildForCached says that it never replaces one.
MakesRoom(entries) ==
  IF Len(entries) >= MaxSize THEN Tail(entries) ELSE entries

Built(j) ==
  /\ at[j] = "building" /\ MaxSize > 0
  /\ cache' = Append(MakesRoom(cache), Entry(j, j))
  /\ uses' = [uses EXCEPT ![j] = j]
  /\ lock' = Nobody /\ Goes(j, "converting")

\* Building or storing raises, or an entry expires between the two looks of
\* TTLCache.get(): the conversion goes on without LLM.
FallsBack(j) ==
  /\ \/ at[j] = "building" /\ UNCHANGED cache
     \/ /\ at[j] = "asking" /\ lock = Nobody
        /\ \E i \in DOMAIN cache : cache[i].key = Key(j) /\ cache' = Without(i)
  /\ uses' = [uses EXCEPT ![j] = Basic]
  /\ lock' = Nobody /\ Goes(j, "converting")

Done(j) ==
  /\ at[j] = "converting"
  /\ Goes(j, "ended")
  /\ UNCHANGED <<lock, cache, uses>>

\* An entry has lived for ttl seconds.
Expire ==
  /\ \E i \in DOMAIN cache : cache' = Without(i)
  /\ UNCHANGED <<at, lock, uses>>

clear ==
  /\ lock = Nobody
  /\ cache' = <<>>
  /\ UNCHANGED <<at, lock, uses>>

RegistryNext ==
  \/ \E j \in Job : \/ Ask(j) \/ Hit(j) \/ Miss(j) \/ Built(j)
                    \/ FallsBack(j) \/ Done(j)
  \/ Expire \/ clear

RegistrySpec == RegistryInit /\ [][RegistryNext]_registry

-----------------------------------------------------------------------------
Places == {"idle", "asking", "building", "converting", "ended"}

Asker == {j \in Job : Config(j) # NoConfig}

RegistryTypeOK ==
  /\ at \in [Job -> Places]
  /\ lock \in Job \cup {Nobody}
  /\ cache \in Seq([key : {Key(j) : j \in Asker}, client : Asker])
  /\ uses \in [Job -> Job \cup {Basic, Nobody}]

\* Threads that ask at the same time never build for a configuration the cache
\* has: a session is shared as soon as it is there.
NoBuildForCached == \A j \in Job : at[j] = "building" => ~Cached(Key(j))

\* What two conversions must have in common to share a client, as the
\* documentation of the registry has it: the digest, the address and the model.
SameClient(j, k) ==
  /\ Digest(Config(j)[1]) = Digest(Config(k)[1])
  /\ Config(j)[2] = Config(k)[2] /\ Config(j)[3] = Config(k)[3]

Unbarred(j) == Len(Config(j)[2]) = 1   \* no bar in the address

\* A conversion whose address has no bar uses the client of another conversion
\* of this kind only if digest, address and model agree, whatever was evicted,
\* expired or cleared between.  (Joined with bars, other addresses can meet: "u|a"
\* and "b" have the key of "u" and "a|b".)
OwnClient ==
  \A j \in Job : uses[j] \in Job /\ Unbarred(j) /\ Unbarred(uses[j])
                => SameClient(uses[j], j)
=============================================================================
