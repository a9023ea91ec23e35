----------------------------- MODULE MCLpdStat ------------------------------
(* The option texts for TLC: up to three fields, with separators missing   *)
(* and repeated, and one name and one value that do not fit.               *)
EXTENDS LpdStat

Names  == {"reserve", "order"}
Values == {"on", "data,control", "long"}

MCFields ==
    {<<>>, <<"long">>} \union {<<n>> : n \in Names} \union {<<n, "=">> : n \in Names}
    \union {<<n, "=", v>> : n \in Names, v \in Values}
    \union {<<"reserve", "=", "on", "=", "any">>}

MCTexts ==
    {<<>>} \union MCFields \union {f \o <<"+">> \o g : f, g \in MCFields}
    \union {f \o <<"+">> \o g \o <<"+">> \o h : f, g, h \in MCFields}

=============================================================================
