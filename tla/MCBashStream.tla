---------------------------- MODULE MCBashStream ----------------------------
EXTENDS BashStream

\* Outputs that end in a newline, or are empty
MCLines == {<<>>, <<NL>>, <<Text, NL>>, <<Text, NL, NL>>, <<NL, Text, NL>>}

\* Also one that does not
MCPartial == MCLines \cup {<<Text>>}

=============================================================================
