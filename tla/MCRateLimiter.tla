---------------------------- MODULE MCRateLimiter ----------------------------
(***************************************************************************)
(* Instances of the rate limiter for TLC.  The windows keep the order of   *)
(* the source's 60 s, 1 h (= eviction time) and 24 h.                      *)
(***************************************************************************)
EXTENDS RateLimiterHistory, TLC

CONSTANTS u1, u2, light, normal, unlimited

Windows(m, h, d) == ("minute" :> m) @@ ("hour" :> h) @@ ("day" :> d)

MCWindow == Windows(1, 2, 5)

ShortWindow == Windows(1, 1, 3)

LongDay == Windows(1, 2, 7)

Caps(m, h, d) == ("minute" :> m) @@ ("hour" :> h) @@ ("day" :> d)

QuotaCap == normal :> Caps(1, 3, 4)

WarnCap == normal :> Caps(2, 4, 6)

TwoCaps == (light :> Caps(1, 1, 2)) @@ (normal :> Caps(1, 2, 3))

OneCap == normal :> Caps(1, 1, 1)

FreeCaps == (normal :> Caps(1, 1, 2)) @@ (unlimited :> Caps(0, 0, 0))

NoLegacy == [u \in Users |-> None]

LegacyLight == [u \in Users |-> light]

LegacyNormal == [u \in Users |-> normal]
=============================================================================
