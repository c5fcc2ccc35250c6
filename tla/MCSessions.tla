----------------------------- MODULE MCSessions -----------------------------
(* Sessions for TLC: surfaces of one browser, or an installed app.         *)
EXTENDS Sessions

CONSTANTS app, money, phone, browser

\* The installed app keeps no cookies.
OneBrowser == [s \in Surfaces |-> IF s = phone THEN None ELSE browser]
=============================================================================
