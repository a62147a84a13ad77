----------------------------- MODULE MCMemcache -----------------------------
(***************************************************************************)
(* Small instances of Memcache.  The clock stands at 0 when they begin;    *)
(* MaxRelative is low enough for an absolute expiration to occur.          *)
(***************************************************************************)
EXTENDS Memcache

TopNumber == Modulus - 1
TextsAndNumbers == Texts \cup {0}
Steps == {-1, 1}
OptionalInitial == {NoEntry, TopNumber}
=============================================================================
