--------------------------- MODULE MC_UnicodeInput --------------------------
EXTENDS UnicodeInput

\* 'A' (Latin-1, needs Shift), backspace and alpha (found by the table
\* search), the euro sign (in the table, not on the keymap) and a smiley
\* (not in the table: the directly encoded UCS keysym).
MCChars == {\h41, \h8, \h3b1, \h20ac, \h263a}

\* A US keymap cut down to the keys the characters need, with a Greek
\* alpha key and a key carrying the UCS keysym U+263A.
MCKeyMap == (22 :> <<\hff08>>) @@ (38 :> <<\h61, \h41>>) @@ (40 :> <<\h7e1, \h7c1>>)
            @@ (49 :> <<\h100263a>>) @@ (50 :> <<\hffe1>>)
====
