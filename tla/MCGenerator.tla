----------------------------- MODULE MCGenerator -----------------------------
\* One name to generate, beside a module in place.
EXTENDS Generator
=============================================================================
