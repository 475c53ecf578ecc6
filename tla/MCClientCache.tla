---------------------------- MODULE MCClientCache ----------------------------
(* A slice of the catalogue that has every kind of profile: a browser        *)
(* profile, its alias, the same browser on another platform, and a profile   *)
(* without emulation. Names come in two spellings, with and without blanks;  *)
(* "ja4" is a label available_profiles offers and no profile has.            *)
EXTENDS ClientCache, TLC

CONSTANTS t1, t2

MCNames == {"chrome_149", "CHROME_149", "chrome_149_stable", "android_chrome",
            "rustls_default", " chrome_149 ", "ja4", "pass-through"}
MCTrim(n) == IF n = " chrome_149 " THEN "chrome_149" ELSE n
MCFold(n) == IF n = "CHROME_149" THEN "chrome_149" ELSE n
MCCatalogue == {"chrome_149", "chrome_149_stable", "android_chrome", "rustls_default"}
MCWreqProfile(p) == IF p = "rustls_default" THEN "none" ELSE "Chrome149"
MCPlatform(p) == IF p = "android_chrome" THEN "Android" ELSE "none"
Symmetry == Permutations({t1, t2})
=============================================================================
