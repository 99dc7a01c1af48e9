------------------------------ MODULE Canonical ------------------------------
(***************************************************************************)
(* The canonical forms behind the deduplication (utils/canonicalization.py *)
(* and utils/hashing.py).  A title and a company are sequences of words, a *)
(* location the sequence of its comma-separated parts; words and parts are *)
(* taken after lower-casing, and the casing of the results is left out.    *)
(* The tables keep the entries that an input of the model can hit, one of  *)
(* each kind and every key that two tables share.                          *)
(***************************************************************************)
EXTENDS Sequences, Integers

(* _SENIORITY_PATTERNS and _LEVEL_PATTERN: the words normalize_title drops. *)
SeniorityWords == {"sr", "senior", "jr", "junior", "lead", "staff", "principal",
                   "distinguished", "associate"}
LevelWords == {"i", "ii", "iii", "iv", "v"}

NormalizeTitle(title) ==
    SelectSeq(title, LAMBDA w : w \notin SeniorityWords \cup LevelWords)

(* _COMPANY_SUFFIXES, anchored at the end: one suffix is dropped, the       *)
(* longest alternative first, and no more than one.                         *)
LongSuffixes == {<<"private", "limited">>, <<"pvt", "ltd">>}
ShortSuffixes == {"ltd", "limited", "incorporated", "inc", "corporation", "corp", "llc",
                  "gmbh", "ag", "sa", "sl", "plc", "llp", "lp", "co", "company"}

NormalizeCompany(company) ==
    LET n == Len(company) IN
    IF n >= 2 /\ SubSeq(company, n - 1, n) \in LongSuffixes THEN SubSeq(company, 1, n - 2)
    ELSE IF n >= 1 /\ company[n] \in ShortSuffixes THEN SubSeq(company, 1, n - 1)
    ELSE company

(* _CITY_ALIASES, _COUNTRY_ALIASES and _US_STATE_ABBRS. *)
CityAliases == [bangalore |-> "bengaluru", bombay |-> "mumbai", nyc |-> "new york",
                sf |-> "san francisco", gurgaon |-> "gurugram"]
CountryAliases == [us |-> "united states", usa |-> "united states", uk |-> "united kingdom",
                   in |-> "india", ca |-> "canada", de |-> "germany"]
StateAbbreviations == {"ca", "ny", "tx", "wa"}

Resolve(aliases, key) == IF key \in DOMAIN aliases THEN aliases[key] ELSE key

(* normalize_location: the first part is the city; the last one is looked   *)
(* up as a country before it is looked up as a state, and a state is kept   *)
(* only when it is the second of two parts.                                 *)
NormalizeLocation(location) ==
    LET city == Resolve(CityAliases, location[1])
        last == location[Len(location)]
    IN  CASE location = <<>> -> <<>>
          [] Len(location) = 1 -> <<city>>
          [] Len(location) = 2 /\ last \in StateAbbreviations \ DOMAIN CountryAliases ->
                <<city, last, "united states">>
          [] Len(location) > 2 /\ last \in StateAbbreviations \ DOMAIN CountryAliases ->
                <<city, "united states">>
          [] OTHER -> <<city, Resolve(CountryAliases, last)>>

(* compute_job_hash: SHA-256, which is taken to be injective, of the three  *)
(* canonical forms.                                                         *)
JobHash(title, company, location) ==
    <<NormalizeTitle(title), NormalizeCompany(company), NormalizeLocation(location)>>
=============================================================================
