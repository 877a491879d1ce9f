--------------------------- MODULE MCIosSession ---------------------------
(* Instances of IosSession for TLC: two of the commands of GetHealth, a    *)
(* banner with rulers around its text, as many have, and one with a line   *)
(* that ends like a prompt.                                                *)
EXTENDS IosSession

TwoCommands == <<"cpu", "memory">>
PlainBanner == <<"####", "text", "####">>
MailBanner  == <<"other>", "text">>
===========================================================================
