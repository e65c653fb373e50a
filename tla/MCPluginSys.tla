---------------------------- MODULE MCPluginSys ------------------------------
\* Instances of PluginSys for TLC.
EXTENDS PluginSys

=============================================================================
