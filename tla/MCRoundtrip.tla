---------------------------- MODULE MCRoundtrip ----------------------------
EXTENDS Roundtrip

\* A plain decimal, MySQL's and SQL Server's largest and one more than each, a
\* negative scale, more decimal places than MySQL allows, and more than digits.
MCDecimals == { <<20, 0>>, <<37, 2>>, <<38, 2>>, <<65, 4>>, <<66, 4>>, <<37, -2>>, <<65, 31>>,
                <<10, 12>> }
=============================================================================
