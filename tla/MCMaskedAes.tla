---------------------------- MODULE MCMaskedAes ----------------------------
EXTENDS MaskedAes

MCCopies == Secure \union Unsecure
=============================================================================
